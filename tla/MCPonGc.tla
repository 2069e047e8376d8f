------------------------------ MODULE MCPonGc ------------------------------
(* Instances of PonGc for TLC. *)
EXTENDS PonGc
=============================================================================
