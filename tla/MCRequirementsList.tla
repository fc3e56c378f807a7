-------------------------- MODULE MCRequirementsList --------------------------
(***************************************************************************)
(* Two rows, one to a page, and one other page that makes bulk changes,    *)
(* on RequirementsList.                                                    *)
(***************************************************************************)
EXTENDS RequirementsList
===============================================================================
