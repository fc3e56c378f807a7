----------------------------- MODULE MCQueryCache -----------------------------
(***************************************************************************)
(* The hooks of the web client on QueryCache.  What happens to one query   *)
(* does not depend on the others, so there is one key, and the mutations   *)
(* are all that some mutation is to some query: an instance that can do    *)
(* whatever can happen to any of the queries.                              *)
(***************************************************************************)
EXTENDS Hooks, QueryCache

OneQuery == {"query"}
OnePage == {OneQuery}

\* The table in which the query stands in the rows of the effects marked.
Marked(mark(_)) == [ e \in Effects |-> { k \in OneQuery : mark(e) } ]

Outdating == LET mark(e) == e.outdates IN Marked(mark)
Announcing == LET mark(e) == e.announced IN Marked(mark)
Refetching == LET mark(e) == e.refetched IN Marked(mark)
Setting == LET mark(e) == e.set IN Marked(mark)
Hearing == LET mark(e) == e.heard IN Marked(mark)
Promising == LET mark(e) == e.promised IN Marked(mark)

\* What the proof about all tables asks of these.
ASSUME HooksAgree == TablesAgree
===============================================================================
