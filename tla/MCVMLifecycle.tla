--------------------------- MODULE MCVMLifecycle ---------------------------
(* Small instances of VMLifecycle for TLC.                                 *)
EXTENDS VMLifecycle, TLC

\* Calls are interchangeable, and so are guests that start alike.  Used only
\* in runs without liveness properties.
Symmetry == Permutations(Call) \cup Permutations(Stock) \cup Permutations(Guest \ Stock)
=============================================================================
