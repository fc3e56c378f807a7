------------------------------- MODULE MCSession -------------------------------
(***************************************************************************)
(* Two tabs of one browser on Session, up to the first disturbance: what   *)
(* the properties promise is about what comes before it.                   *)
(***************************************************************************)
EXTENDS Session

Undisturbed == ~disturbed
================================================================================
