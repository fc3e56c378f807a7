--------------------------- MODULE MCDocumentEditor ---------------------------
(* A small instance of DocumentEditor for TLC. *)
EXTENDS DocumentEditor
===============================================================================
