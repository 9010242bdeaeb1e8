-------------------------- MODULE MCDiskAttachment --------------------------
(* Small instances of DiskAttachment for TLC.                              *)
EXTENDS DiskAttachment, TLC

\* Calls are interchangeable, and so are guests and disks that start alike.
\* Used only in runs without temporal properties.
Symmetry ==
    Permutations(Call) \cup Permutations(Unreadable)
        \cup Permutations(Vm \ Unreadable)
        \cup Permutations(Stock) \cup Permutations(Disk \ Stock)
=============================================================================
