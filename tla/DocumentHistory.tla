---------------------------- MODULE DocumentHistory ----------------------------
(***************************************************************************)
(* What versioning promises for one document, with none of its tables: a   *)
(* list of texts that only grows.  A save appends to it at one moment,     *)
(* between its request and its answer, and one that names a version        *)
(* appends next to that version or is refused.  DocumentVersions           *)
(* implements this for requirements.                                       *)
(***************************************************************************)
EXTENDS Naturals, Sequences

CONSTANTS Client, Text, None

VARIABLES
    history,   \* the texts, the latest last
    save       \* the save each client has asked for, if any

vars == <<history, save>>

Idle == [ pc |-> "idle" ]

Latest == history[Len(history)]

Init ==
    /\ \E text \in Text : history = <<text>>
    /\ save = [c \in Client |-> Idle]

Ask(c, text, base) ==
    /\ save[c] = Idle
    /\ save' = [save EXCEPT ![c] = [ pc |-> "sent", text |-> text, base |-> base, row |-> None ]]
    /\ UNCHANGED history

Expected(base) == base \in {None, Len(history)}

\* A text that is there already is not written again.
Keep(c) ==
    /\ save[c].pc = "sent"
    /\ Expected(save[c].base)
    /\ history' = IF save[c].text = Latest THEN history ELSE Append(history, save[c].text)
    /\ save' = [save EXCEPT ![c].pc = "done"]

Refuse(c) ==
    /\ save[c].pc = "sent"
    /\ ~Expected(save[c].base)
    /\ save' = [save EXCEPT ![c].pc = "conflict"]
    /\ UNCHANGED history

\* The answer tells the latest text, which may be a later one.
Tell(c) ==
    /\ save[c].pc = "done"
    /\ save' = [save EXCEPT ![c].pc = "replied",
                            ![c].row = [ version |-> Len(history), text |-> Latest ]]
    /\ UNCHANGED history

\* The client has its answer, or never hears of the save.
Leave(c) ==
    /\ save[c] # Idle
    /\ save' = [save EXCEPT ![c] = Idle]
    /\ UNCHANGED history

Next ==
    \E c \in Client :
        \/ \E text \in Text, base \in 1..Len(history) \cup {None} : Ask(c, text, base)
        \/ Keep(c) \/ Refuse(c) \/ Tell(c) \/ Leave(c)

Spec == Init /\ [][Next]_vars
================================================================================
