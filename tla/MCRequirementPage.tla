--------------------------- MODULE MCRequirementPage ---------------------------
(* A small instance of RequirementPage for TLC. *)
EXTENDS RequirementPage
===============================================================================
