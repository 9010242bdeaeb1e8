-------------------------- MODULE MCRegistryClient --------------------------
(* Small instances of RegistryClient for TLC.                              *)
EXTENDS RegistryClient, TLC
=============================================================================
