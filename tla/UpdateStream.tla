---------------------------- MODULE UpdateStream ----------------------------
(***************************************************************************)
(* What the architect-agent's ChatService relies on when it streams the    *)
(* updates of one run of the graph: the intent comes first and once; a     *)
(* planning run goes on until an update that ends it; the other intents    *)
(* end the run at once; a run may fail before it ended, never after.       *)
(* TaskIntent, TaskAccept, TaskWork and GraphFails of ArchitectAgent       *)
(* consume exactly such a stream; ArchitectGraph produces it.              *)
(***************************************************************************)
EXTENDS Naturals

CONSTANT MaxUpdates   \* bound: updates after the intent

VARIABLES pc, intent, updates, error

vars == <<pc, intent, updates, error>>

Init == pc = "intent" /\ intent = "none" /\ updates = 0 /\ error = FALSE

Intent ==
  /\ pc = "intent"
  /\ intent' \in {"undefined", "plan", "refine", "accept"}
  /\ pc' = IF intent' \in {"plan", "refine"} THEN "work" ELSE "settle"
  /\ UNCHANGED <<updates, error>>

Work ==
  /\ pc = "work" /\ updates < MaxUpdates
  /\ updates' = updates + 1
  /\ pc' \in (IF updates' = MaxUpdates THEN {} ELSE {"work"}) \cup {"settle"}
  /\ UNCHANGED <<intent, error>>

Fail ==
  /\ pc \in {"intent", "work"}
  /\ pc' = "settle" /\ error' = TRUE
  /\ UNCHANGED <<intent, updates>>

Next == Intent \/ Work \/ Fail
Spec == Init /\ [][Next]_vars
=============================================================================
