--------------------------- MODULE MCSourceDialog ---------------------------
(* Instances of SourceDialog for TLC. *)
EXTENDS SourceDialog
=============================================================================
