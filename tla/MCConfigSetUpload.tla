------------------------- MODULE MCConfigSetUpload -------------------------
(***************************************************************************)
(* Instances of ConfigSetUpload for TLC: which clients upload a            *)
(* solrconfig.xml of their own.                                            *)
(***************************************************************************)
EXTENDS ConfigSetUpload

CONSTANTS c1, c2

OneClient == {c1}
TwoClients == {c1, c2}
=============================================================================
