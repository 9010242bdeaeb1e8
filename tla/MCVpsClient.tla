---------------------------- MODULE MCVpsClient -----------------------------
(* A small instance of VpsClient for TLC: two guests that differ in the    *)
(* order of their VLANs only.                                              *)
EXTENDS VpsClient, TLC

CONSTANTS c1, c2, c3, g1, g2

Here  == [cpu |-> 1, memory |-> 1, private |-> 7, public |-> 8]
There == [Here EXCEPT !.private = 8, !.public = 7]

MCSize   == {Here, There}
MCSizeOf == (g1 :> Here) @@ (g2 :> There)
MCInPool == {g1}
MCHeld   == {g2}
=============================================================================
