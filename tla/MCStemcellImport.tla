-------------------------- MODULE MCStemcellImport --------------------------
(* Small instances of StemcellImport for TLC.  Without symmetry: the runs  *)
(* check temporal properties.                                              *)
EXTENDS StemcellImport, TLC
=============================================================================
