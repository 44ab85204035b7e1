--------------------------- MODULE MCImportDialog ---------------------------
(* Instances of ImportDialog for TLC. *)
EXTENDS ImportDialog
=============================================================================
