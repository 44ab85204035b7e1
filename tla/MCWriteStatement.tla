-------------------------- MODULE MCWriteStatement --------------------------
(* Instances of WriteStatement for TLC. *)
EXTENDS WriteStatement
=============================================================================
