-------------------------- MODULE MCDocumentVersions --------------------------
(* Small instances of DocumentVersions for TLC. *)
EXTENDS DocumentVersions, TLC

Symmetry == Permutations(Client) \cup Permutations(Text)
===============================================================================
