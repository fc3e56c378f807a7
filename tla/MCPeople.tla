------------------------------- MODULE MCPeople -------------------------------
(* Small instances of People for TLC. *)
EXTENDS People, TLC

Symmetry == Permutations(Space) \cup Permutations(Tx) \cup Permutations(User)
===============================================================================
