------------------------------- MODULE MCPclsr -------------------------------
(* Instances of Pclsr for TLC. *)
EXTENDS Pclsr

CONSTANTS cirpsw, casw
=============================================================================
