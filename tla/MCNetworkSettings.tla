------------------------- MODULE MCNetworkSettings -------------------------
(* Small instances of NetworkSettings for TLC.                             *)
EXTENDS NetworkSettings, TLC

MCName == {<<"a">>, <<"b">>}

\* VLANs of a space are interchangeable.
Symmetry == Permutations(PrivateVlan) \cup Permutations(PublicVlan)
=============================================================================
