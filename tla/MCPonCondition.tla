--------------------------- MODULE MCPonCondition ---------------------------
(* Instances of PonCondition for TLC. *)
EXTENDS PonCondition
=============================================================================
