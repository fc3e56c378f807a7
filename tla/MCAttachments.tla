---------------------------- MODULE MCAttachments ----------------------------
(* Small instances of Attachments for TLC. *)
EXTENDS Attachments, TLC

Symmetry == Permutations(File) \cup Permutations(Post) \cup Permutations(Page)
===============================================================================
