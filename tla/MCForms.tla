-------------------------------- MODULE MCForms --------------------------------
(***************************************************************************)
(* All controls, on two records, with the records and the texts            *)
(* interchangeable.                                                        *)
(***************************************************************************)
EXTENDS Forms, TLC

Alike == Permutations(Record) \cup Permutations(Text)
================================================================================
