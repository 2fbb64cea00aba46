-------------------------- MODULE ChatEventProofs --------------------------
(***************************************************************************)
(* What becomes of the events of the two queues: a published chat event is *)
(* known to the architect-agent until it is worked off, an accept event to *)
(* the ticket-agent, and each question gets one reply, however many agents *)
(* work on its turn.                                                       *)
(***************************************************************************)
EXTENDS ChatSystemProofs

(* The events of turn t of conversation c in a queue, and in the hands of  *)
(* the architect-agent.                                                    *)
Has(q, c, t) == \E i \in 1 .. Len(q) : q[i].conv = c /\ q[i].turn = t
Runs(c, t)   == \E k \in tasks : k.event.conv = c /\ k.event.turn = t

(* NoEventIsLost without the unacked event, which is one of a task that    *)
(* runs or one whose turn is settled.                                      *)
EventsKnown ==
  \A c \in Conv, t \in Turn :
    fate[c][t] = "published" => Has(chatQueue, c, t) \/ Runs(c, t)

(* The ticket-agent works on one accept event at a time (prefetch 1).      *)
OneJob == \A j, k \in jobs : j = k
----------------------------------------------------------------------------
(* What a queue has after an event was put at its end.                     *)
LEMMA HasAppended ==
  ASSUME NEW S, NEW q \in Seq(S), NEW e \in S
  PROVE  \A c, t : Has(Append(q, e), c, t) <=>
                     Has(q, c, t) \/ (e.conv = c /\ e.turn = t)
<1> DEFINE a == Append(q, e)
<1>1. /\ Len(a) = Len(q) + 1 /\ Len(q) \in Nat
      /\ \A i \in 1 .. Len(q) : a[i] = q[i]
      /\ a[Len(q) + 1] = e
  OBVIOUS
<1>2. /\ \A i \in 1 .. Len(q) : i \in 1 .. Len(a)
      /\ Len(q) + 1 \in 1 .. Len(a)
      /\ \A i \in 1 .. Len(a) : i \in 1 .. Len(q) \/ i = Len(q) + 1
  BY <1>1
<1> HIDE DEF a
<1>3. \A c, t : Has(a, c, t) <=> Has(q, c, t) \/ (e.conv = c /\ e.turn = t)
  BY <1>1, <1>2 DEF Has
<1> QED BY <1>3 DEF a

(* What a queue has after its first event was taken.                       *)
LEMMA HasTaken ==
  ASSUME NEW S, NEW q \in Seq(S), q # << >>
  PROVE  \A c, t : Has(q, c, t) <=>
                     Has(Tail(q), c, t) \/ (Head(q).conv = c /\ Head(q).turn = t)
<1> DEFINE a == Tail(q)
<1>1. /\ Len(q) \in Nat /\ Len(q) > 0 /\ Len(a) = Len(q) - 1
      /\ \A i \in 1 .. Len(a) : a[i] = q[i + 1]
      /\ Head(q) = q[1]
  OBVIOUS
<1>2. /\ \A i \in 1 .. Len(a) : i + 1 \in 1 .. Len(q)
      /\ 1 \in 1 .. Len(q)
      /\ \A i \in 1 .. Len(q) : i # 1 => i - 1 \in 1 .. Len(a) /\ a[i - 1] = q[i]
  BY <1>1
<1> HIDE DEF a
<1>3. \A c, t : Has(a, c, t) => Has(q, c, t)
  BY <1>1, <1>2 DEF Has
<1>4. \A c, t : Head(q).conv = c /\ Head(q).turn = t => Has(q, c, t)
  BY <1>1, <1>2 DEF Has
<1>5. \A c, t : Has(q, c, t) => Has(a, c, t) \/ (Head(q).conv = c /\ Head(q).turn = t)
  BY <1>1, <1>2 DEF Has
<1> QED BY <1>3, <1>4, <1>5 DEF a

(* A task of the architect-agent goes on with its event or settles the     *)
(* turn.                                                                   *)
LEMMA TaskMoves ==
  ASSUME TypeOK, NEW t \in tasks, TaskStep(t) \/ GraphFails(t) \/ TaskFails(t)
  PROVE  /\ \/ UNCHANGED fate /\ \E u : Becomes(t, u) /\ u.event = t.event
            \/ \E outcome \in {"processed", "accepted"} : Finishes(t, outcome)
         /\ UNCHANGED <<chatQueue, jobs>>
<1> USE DEF brokerVars
<1>t. t \in Task
  BY DEF TypeOK
<1>a. ASSUME NEW node, NEW next, next.event = t.event, next \in Task,
             ThinkAloud(t, node, next)
      PROVE  \E u : Becomes(t, u) /\ u.event = t.event
  <2> DEFINE msgs == Append(t.messages, Thinking(node, t.event.turn))
             good == [next EXCEPT !.messages = msgs]
             bad  == [next EXCEPT !.messages = msgs, !.pc = "settle", !.error = TRUE]
  <2>1. good.event = t.event /\ bad.event = t.event
    BY <1>a DEF Task
  <2>2. Becomes(t, good) \/ Becomes(t, bad)
    BY <1>a DEF ThinkAloud
  <2> HIDE DEF good, bad
  <2> QED BY <2>1, <2>2
<1>1. CASE TaskLoad(t)
  <2>1. [t EXCEPT !.pc = "mark",
                  !.messages = redis[t.event.conv].messages].event = t.event
    BY <1>t DEF Task
  <2> QED BY <1>1, <2>1 DEF TaskLoad
<1>2. CASE TaskMark(t)
  <2>1. [t EXCEPT !.pc = "intent"].event = t.event
    BY <1>t DEF Task
  <2> QED BY <1>2, <2>1 DEF TaskMark
<1>3. CASE TaskIntent(t)
  <2>1. PICK i \in Intents \ {"accept"} :
          ThinkAloud(t, "intent_node",
            [t EXCEPT !.intent = i,
                      !.prior = IF i = "refine" THEN LatestPlan(t.event.history)
                                                ELSE {},
                      !.pc = IF i = "undefined" THEN "settle" ELSE "work"])
    BY <1>3 DEF TaskIntent
  <2> DEFINE next == [t EXCEPT !.intent = i,
                      !.prior = IF i = "refine" THEN LatestPlan(t.event.history)
                                                ELSE {},
                      !.pc = IF i = "undefined" THEN "settle" ELSE "work"]
  <2>2. next \in Task /\ next.event = t.event
    <3>1. LatestPlan(t.event.history) \in SUBSET Message
      BY <1>t, LatestPlanType DEF Task, ChatEvent
    <3> QED BY <1>t, <3>1, ChatAssumption DEF Task
  <2>3. ThinkAloud(t, "intent_node", next)
    BY <2>1
  <2> HIDE DEF next
  <2> QED BY <1>3, <1>a, <2>2, <2>3 DEF TaskIntent
<1>4. CASE TaskAccept(t)
  <2>1. [t EXCEPT !.pc = IF LatestPlan(t.event.history) = {}
                           THEN "note" ELSE "publish"].event = t.event
    BY <1>t DEF Task
  <2> QED BY <1>4, <2>1 DEF TaskAccept
<1>5. CASE TaskPublish(t) \/ GraphFails(t)
  <2>1. /\ [t EXCEPT !.pc = "note"].event = t.event
        /\ [t EXCEPT !.pc = "settle", !.error = TRUE].event = t.event
    BY <1>t DEF Task
  <2> QED BY <1>5, <2>1 DEF TaskPublish, GraphFails
<1>6. CASE TaskNote(t)
  <2> DEFINE next == [t EXCEPT !.intent = "accept", !.pc = "settle"]
  <2>1. next \in Task /\ next.event = t.event
    BY <1>t DEF Task, IntentKinds
  <2>2. ThinkAloud(t, "intent_node", next)
    BY <1>6 DEF TaskNote
  <2> HIDE DEF next
  <2> QED BY <1>6, <1>a, <2>1, <2>2 DEF TaskNote
<1>7. CASE TaskWork(t)
  <2>1. PICK last \in BOOLEAN :
          ThinkAloud(t, IF last THEN "reply_node" ELSE "work_node",
                     [t EXCEPT !.updates = @ + 1,
                               !.pc = IF last THEN "settle" ELSE "work"])
    BY <1>7 DEF TaskWork
  <2> DEFINE next == [t EXCEPT !.updates = @ + 1,
                               !.pc = IF last THEN "settle" ELSE "work"]
  <2>2. next \in Task /\ next.event = t.event
    <3>1. t.updates + 1 \in Nat
      BY <1>t DEF Task
    <3>2. ASSUME NEW n \in Nat
          PROVE  /\ [t EXCEPT !.updates = n, !.pc = "settle"] \in Task
                 /\ [t EXCEPT !.updates = n, !.pc = "work"] \in Task
      BY <1>t DEF Task
    <3>3. next.event = t.event
      BY <1>t DEF Task
    <3>4. CASE last
      BY <3>1, <3>2, <3>3, <3>4
    <3>5. CASE ~last
      BY <3>1, <3>2, <3>3, <3>5
    <3> QED BY <3>4, <3>5
  <2>3. ThinkAloud(t, IF last THEN "reply_node" ELSE "work_node", next)
    BY <2>1
  <2> HIDE DEF next
  <2> QED BY <1>7, <1>a, <2>2, <2>3 DEF TaskWork
<1>8. CASE TaskReturn(t) \/ TaskReply(t) \/ TaskFails(t)
  BY <1>8 DEF TaskReturn, TaskReply, TaskFails
<1> QED BY <1>1, <1>2, <1>3, <1>4, <1>5, <1>6, <1>7, <1>8 DEF TaskStep

(* A turn stays known while its event does.                                *)
LEMMA KnownFrame ==
  ASSUME EventsKnown,
         \A c \in Conv, t \in Turn : fate'[c][t] = "published" =>
           /\ fate[c][t] = "published"
           /\ Has(chatQueue, c, t) => Has(chatQueue, c, t)' \/ Runs(c, t)'
           /\ Runs(c, t) => Runs(c, t)'
  PROVE  EventsKnown'
BY DEF EventsKnown

(* Every step but the death of a process keeps EventsKnown.                *)
LEMMA KnownStep ==
  ASSUME "crash" \notin Faults, TypeOK, EventsKnown, [Next]_vars
  PROVE  EventsKnown'
<1> USE DEF storeVars, brokerVars, userVars
<1>q. ASSUME UNCHANGED <<chatQueue, tasks, fate>> PROVE EventsKnown'
  BY <1>q DEF EventsKnown, Has, Runs
<1>t. ASSUME NEW t \in tasks, TaskStep(t) \/ GraphFails(t) \/ TaskFails(t)
      PROVE  EventsKnown'
  <2>1. UNCHANGED chatQueue
    BY <1>t, TaskMoves
  <2>2. CASE UNCHANGED fate /\ \E u : Becomes(t, u) /\ u.event = t.event
    <3>1. \A c, n : Runs(c, n) => Runs(c, n)'
      BY <2>2 DEF Runs, Becomes
    <3> QED BY <2>1, <2>2, <3>1, KnownFrame DEF Has
  <2>3. CASE \E outcome \in {"processed", "accepted"} : Finishes(t, outcome)
    <3>1. t.event.conv \in Conv /\ t.event.turn \in Turn
      BY DEF TypeOK, Task, ChatEvent
    <3>2. ASSUME NEW c \in Conv, NEW n \in Turn, fate'[c][n] = "published"
          PROVE  /\ fate[c][n] = "published"
                 /\ ~(t.event.conv = c /\ t.event.turn = n)
      BY <2>3, <3>1, <3>2 DEF Finishes, TypeOK
    <3>3. tasks' = tasks \ {t}
      BY <2>3 DEF Finishes
    <3>4. ASSUME NEW c \in Conv, NEW n \in Turn, fate'[c][n] = "published", Runs(c, n)
          PROVE  Runs(c, n)'
      BY <3>2, <3>3, <3>4 DEF Runs
    <3> QED BY <2>1, <3>2, <3>4, KnownFrame DEF Has
  <2> QED BY <1>t, <2>2, <2>3, TaskMoves
<1>b. ASSUME NEW r \in requests, BackendStep(r) PROVE EventsKnown'
  <2>1. CASE Publish(r)
    <3>1. r.conv \in Conv /\ r.turn \in Turn /\ r.messages \in Seq(Message)
      BY <2>1 DEF Publish, TypeOK, Request
    <3> DEFINE e == [conv |-> r.conv, turn |-> r.turn, history |-> r.messages,
                     delivery |-> 0]
    <3>2. e \in ChatEvent /\ e.conv = r.conv /\ e.turn = r.turn
      BY <3>1 DEF ChatEvent
    <3>3. UNCHANGED tasks
      BY <2>1 DEF Publish
    <3>4. CASE /\ chatQueue' = Append(chatQueue, e)
               /\ fate' = [fate EXCEPT ![r.conv][r.turn] = "published"]
      <4> HIDE DEF e
      <4>1. \A c, n : Has(chatQueue, c, n)' <=>
                        Has(chatQueue, c, n) \/ (r.conv = c /\ r.turn = n)
        BY <3>2, <3>4, HasAppended DEF TypeOK
      <4>2. \A c \in Conv, n \in Turn : fate'[c][n] = "published" =>
              fate[c][n] = "published" \/ (r.conv = c /\ r.turn = n)
        BY <3>1, <3>4 DEF TypeOK
      <4> QED BY <3>3, <4>1, <4>2 DEF EventsKnown, Runs
    <3>5. CASE /\ UNCHANGED chatQueue
               /\ fate' = [fate EXCEPT ![r.conv][r.turn] = "dropped"]
      <4>1. \A c \in Conv, n \in Turn : fate'[c][n] = "published" =>
              fate[c][n] = "published"
        BY <3>1, <3>5 DEF TypeOK
      <4> QED BY <3>3, <3>5, <4>1 DEF EventsKnown, Has, Runs
    <3> QED BY <2>1, <3>4, <3>5 DEF Publish
  <2>2. CASE ~Publish(r)
    BY <1>b, <1>q, <2>2
       DEF BackendStep, NewInsert, ContinueGet, ContinueFind, SetThinking, StopGet,
           StopSave, StopDel, GetRead, GetUpdate
  <2> QED BY <2>1, <2>2
<1>d. ASSUME Deliver PROVE EventsKnown'
  <2>1. /\ chatQueue \in Seq(ChatEvent) /\ chatQueue # << >>
        /\ chatQueue' = Tail(chatQueue)
        /\ tasks' = tasks \cup {NewTask(Head(chatQueue))}
        /\ UNCHANGED fate
    BY <1>d DEF Deliver, TypeOK
  <2>2. \A c, n : Has(chatQueue, c, n) =>
          Has(chatQueue, c, n)' \/ (Head(chatQueue).conv = c /\ Head(chatQueue).turn = n)
    BY <2>1, HasTaken
  <2>3. NewTask(Head(chatQueue)).event = Head(chatQueue)
    BY DEF NewTask
  <2>4. \A c, n : Head(chatQueue).conv = c /\ Head(chatQueue).turn = n => Runs(c, n)'
    BY <2>1, <2>3 DEF Runs
  <2>5. \A c, n : Runs(c, n) => Runs(c, n)'
    BY <2>1 DEF Runs
  <2> QED BY <2>1, <2>2, <2>4, <2>5, KnownFrame
<1>n. ~BackendCrash /\ ~ArchitectCrash /\ ~ConsumerDisconnect /\ ~TicketCrash
  BY DEF BackendCrash, ArchitectCrash, ConsumerDisconnect, TicketCrash, Fails
<1>1. CASE Fault
  <2>1. ASSUME NEW r \in requests, RequestFails(r) PROVE EventsKnown'
    BY <1>q, <2>1 DEF RequestFails
  <2>2. ASSUME NEW j \in jobs, TicketGraphFails(j) \/ TicketFails(j) PROVE EventsKnown'
    BY <1>q, <2>2 DEF TicketGraphFails, TicketFails
  <2>3. ASSUME NEW c \in Conv, Expire(c) PROVE EventsKnown'
    BY <1>q, <2>3 DEF Expire
  <2> QED BY <1>1, <1>n, <1>t, <2>1, <2>2, <2>3 DEF Fault
<1>2. CASE System
  <2>1. ASSUME NEW c \in Conv, ReceiveReply(c) PROVE EventsKnown'
    BY <1>q, <2>1 DEF ReceiveReply
  <2>2. ASSUME Ack \/ TicketDeliver PROVE EventsKnown'
    BY <1>q, <2>2 DEF Ack, TicketDeliver
  <2>3. ASSUME NEW j \in jobs, JobStep(j) PROVE EventsKnown'
    BY <1>q, <2>3 DEF JobStep, TicketLoad, TicketCreate, TicketReply, TicketAck
  <2> QED BY <1>2, <1>b, <1>d, <1>t, <2>1, <2>2, <2>3 DEF System
<1>3. CASE \E c \in Conv : User(c)
  BY <1>3, <1>q DEF User, SendMessage, OpenChat, Leave
<1>4. CASE UNCHANGED vars
  BY <1>4, <1>q DEF vars
<1> QED BY <1>1, <1>2, <1>3, <1>4 DEF Next

(* As long as no process dies or loses its consumer, a chat event that was *)
(* published and not finished is in the queue or in a task of the          *)
(* architect-agent, whatever the stores, the broker, the LLM and an expiry *)
(* do.                                                                     *)
THEOREM EventsStayKnown ==
  ASSUME "crash" \notin Faults
  PROVE  Spec => []NoEventIsLost
<1>1. Init => EventsKnown
  BY DEF Init, EventsKnown
<1>2. TypeOK /\ EventsKnown /\ [Next]_vars => EventsKnown'
  BY KnownStep
<1>3. EventsKnown => NoEventIsLost
  BY DEF EventsKnown, NoEventIsLost, Has, Runs
<1> QED BY <1>1, <1>2, <1>3, TypeCorrect, PTL DEF Spec
----------------------------------------------------------------------------
(* What a queue has after an event was put back at its head.               *)
LEMMA HasRequeued ==
  ASSUME NEW S, NEW q \in Seq(S), NEW e \in S
  PROVE  \A c, t : Has(<<e>> \o q, c, t) <=>
                     Has(q, c, t) \/ (e.conv = c /\ e.turn = t)
<1> DEFINE a == <<e>> \o q
<1>1. /\ Len(a) = Len(q) + 1 /\ Len(q) \in Nat
      /\ \A i \in 1 .. Len(q) : a[i + 1] = q[i]
      /\ a[1] = e
  OBVIOUS
<1>2. /\ \A i \in 1 .. Len(q) : i + 1 \in 1 .. Len(a)
      /\ 1 \in 1 .. Len(a)
      /\ \A i \in 1 .. Len(a) : i # 1 => i - 1 \in 1 .. Len(q) /\ a[i] = q[i - 1]
  BY <1>1
<1> HIDE DEF a
<1>3. \A c, t : Has(q, c, t) => Has(a, c, t)
  BY <1>1, <1>2 DEF Has
<1>4. \A c, t : e.conv = c /\ e.turn = t => Has(a, c, t)
  BY <1>1, <1>2 DEF Has
<1>5. \A c, t : Has(a, c, t) => Has(q, c, t) \/ (e.conv = c /\ e.turn = t)
  BY <1>1, <1>2 DEF Has
<1> QED BY <1>3, <1>4, <1>5 DEF a

(* The ticket-agent's job goes on with its event until it is acked.        *)
LEMMA JobMoves ==
  ASSUME TypeOK, NEW j \in jobs, JobStep(j) \/ TicketGraphFails(j) \/ TicketFails(j)
  PROVE  /\ UNCHANGED acceptQueue
         /\ \/ j.pc = "ack" /\ jobs' = jobs \ {j}
            \/ j.pc # "ack" /\ \E k : JobBecomes(j, k) /\ k.event = j.event
<1> USE DEF brokerVars
<1>t. j \in Job
  BY DEF TypeOK
<1>a. [j EXCEPT !.pc = "ack"].event = j.event
  BY <1>t DEF Job
<1>1. CASE TicketLoad(j)
  <2>1. [j EXCEPT !.pc = "create",
                  !.messages = redis[j.event.conv].messages].event = j.event
    BY <1>t DEF Job
  <2> QED BY <1>1, <1>a, <2>1 DEF TicketLoad
<1>2. CASE TicketCreate(j) \/ TicketGraphFails(j)
  <2>1. /\ [j EXCEPT !.pc = "reply"].event = j.event
        /\ [j EXCEPT !.pc = "reply", !.error = TRUE].event = j.event
    BY <1>t DEF Job
  <2> QED BY <1>2, <2>1 DEF TicketCreate, TicketGraphFails
<1>3. CASE TicketReply(j) \/ TicketFails(j)
  BY <1>3, <1>a DEF TicketReply, TicketFails
<1>4. CASE TicketAck(j)
  BY <1>4 DEF TicketAck
<1> QED BY <1>1, <1>2, <1>3, <1>4 DEF JobStep

(* Only the ticket-agent, TaskPublish and a crash touch the accept events. *)
LEMMA AcceptsRest ==
  ASSUME [Next]_vars,
         ~TicketDeliver, ~TicketCrash,
         \A t \in tasks : ~TaskPublish(t),
         \A j \in jobs : ~JobStep(j) /\ ~TicketGraphFails(j) /\ ~TicketFails(j)
  PROVE  UNCHANGED <<acceptQueue, jobs>>
<1> USE DEF brokerVars
<1>1. CASE Fault
  BY <1>1 DEF Fault, BackendCrash, ArchitectCrash, ConsumerDisconnect, RequestFails,
              GraphFails, TaskFails, Expire
<1>2. CASE System
  <2>1. CASE \E c \in Conv : ReceiveReply(c)
    BY <2>1 DEF ReceiveReply
  <2>2. CASE \E r \in requests : BackendStep(r)
    BY <2>2 DEF BackendStep, NewInsert, ContinueGet, ContinueFind, SetThinking,
                Publish, StopGet, StopSave, StopDel, GetRead, GetUpdate
  <2>3. CASE Deliver \/ Ack
    BY <2>3 DEF Deliver, Ack
  <2>4. CASE \E t \in tasks : TaskStep(t)
    BY <2>4 DEF TaskStep, TaskLoad, TaskMark, TaskIntent, TaskAccept, TaskNote,
                TaskWork, TaskReturn, TaskReply
  <2> QED BY <1>2, <2>1, <2>2, <2>3, <2>4 DEF System
<1>3. CASE \E c \in Conv : User(c)
  BY <1>3 DEF User, SendMessage, OpenChat, Leave
<1>4. CASE UNCHANGED vars
  BY <1>4 DEF vars
<1> QED BY <1>1, <1>2, <1>3, <1>4 DEF Next

(* TaskPublish puts the accepted plan at the end of the queue.             *)
LEMMA PublishAppends ==
  ASSUME TypeOK, NEW t \in tasks, TaskPublish(t)
  PROVE  /\ UNCHANGED jobs
         /\ \/ UNCHANGED acceptQueue
            \/ \E e \in AcceptEvent : /\ acceptQueue' = Append(acceptQueue, e)
                                      /\ e.conv = t.event.conv
                                      /\ e.turn = t.event.turn
<1>1. /\ t.event.conv \in Conv /\ t.event.turn \in Turn
      /\ t.event.history \in Seq(Message)
  BY DEF TypeOK, Task, ChatEvent
<1>2. LatestPlan(t.event.history) \subseteq Message
  BY <1>1, LatestPlanType
<1>3. \A m \in Message :
        LET e == [conv |-> t.event.conv, turn |-> t.event.turn, plan |-> m,
                  delivery |-> 0]
        IN  e \in AcceptEvent /\ e.conv = t.event.conv /\ e.turn = t.event.turn
  BY <1>1 DEF AcceptEvent
<1> QED BY <1>2, <1>3 DEF TaskPublish, HandsOver

(* No step gives the ticket-agent a second job.                            *)
LEMMA OneJobStep ==
  ASSUME TypeOK, OneJob, [Next]_vars
  PROVE  OneJob'
<1>1. CASE TicketDeliver \/ TicketCrash
  BY <1>1 DEF TicketDeliver, TicketCrash, OneJob
<1>2. ASSUME NEW j \in jobs, JobStep(j) \/ TicketGraphFails(j) \/ TicketFails(j)
      PROVE  OneJob'
  BY <1>2, JobMoves DEF JobBecomes, OneJob
<1>3. ASSUME NEW t \in tasks, TaskPublish(t) PROVE OneJob'
  BY <1>3, PublishAppends DEF OneJob
<1> QED BY <1>1, <1>2, <1>3, AcceptsRest DEF OneJob

(* Pending, said with Has.                                                 *)
LEMMA PendingForm ==
  \A c, t : Pending(c, t) <=>
    \/ Has(acceptQueue, c, t)
    \/ \E j \in jobs : j.event.conv = c /\ j.event.turn = t /\ j.pc # "ack"
BY DEF Pending, Has

(* No step drops a pending accept event.                                   *)
LEMMA KeptStep ==
  ASSUME TypeOK, OneJob, [Next]_vars, NEW c \in Conv, NEW t \in Turn, Pending(c, t)
  PROVE  \/ Pending(c, t)'
         \/ \E j \in jobs' : j.event.conv = c /\ j.event.turn = t /\ j.pc = "ack"
<1>q. acceptQueue \in Seq(AcceptEvent)
  BY DEF TypeOK
<1>f. Pending(c, t)' <=>
        \/ Has(acceptQueue', c, t)
        \/ \E j \in jobs' : j.event.conv = c /\ j.event.turn = t /\ j.pc # "ack"
  BY DEF Pending, Has
<1>1. CASE TicketDeliver
  <2> DEFINE j == [event |-> Head(acceptQueue), pc |-> "load", messages |-> << >>,
                   error |-> FALSE]
  <2>1. /\ jobs = {} /\ acceptQueue # << >>
        /\ j \in jobs' /\ acceptQueue' = Tail(acceptQueue)
    BY <1>1 DEF TicketDeliver
  <2>2. j.event = Head(acceptQueue) /\ j.pc # "ack"
    OBVIOUS
  <2> HIDE DEF j
  <2>3. Has(acceptQueue, c, t)
    BY <2>1, PendingForm
  <2>4. \/ Has(acceptQueue', c, t)
        \/ Head(acceptQueue).conv = c /\ Head(acceptQueue).turn = t
    BY <1>q, <2>1, <2>3, HasTaken
  <2> QED BY <1>f, <2>1, <2>2, <2>4
<1>2. CASE TicketCrash
  <2>1. PICK j \in jobs :
          acceptQueue' = <<[j.event EXCEPT !.delivery = @ + 1]>> \o acceptQueue
    BY <1>2 DEF TicketCrash
  <2> DEFINE e == [j.event EXCEPT !.delivery = @ + 1]
  <2>2. e \in AcceptEvent /\ e.conv = j.event.conv /\ e.turn = j.event.turn
    <3>1. j.event \in AcceptEvent /\ j.event.delivery + 1 \in Nat
      BY DEF TypeOK, Job, AcceptEvent
    <3>2. ASSUME NEW n \in Nat, NEW a \in AcceptEvent
          PROVE  LET b == [a EXCEPT !.delivery = n]
                 IN  b \in AcceptEvent /\ b.conv = a.conv /\ b.turn = a.turn
      BY DEF AcceptEvent
    <3> QED BY <3>1, <3>2
  <2>3. acceptQueue' = <<e>> \o acceptQueue
    BY <2>1
  <2> HIDE DEF e
  <2>4. \/ Has(acceptQueue, c, t)
        \/ j.event.conv = c /\ j.event.turn = t
    BY PendingForm DEF OneJob
  <2> QED BY <1>f, <1>q, <2>2, <2>3, <2>4, HasRequeued
<1>3. ASSUME NEW j \in jobs, JobStep(j) \/ TicketGraphFails(j) \/ TicketFails(j)
      PROVE  \/ Pending(c, t)'
             \/ \E k \in jobs' : k.event.conv = c /\ k.event.turn = t /\ k.pc = "ack"
  <2>1. acceptQueue' = acceptQueue
    BY <1>3, JobMoves
  <2>2. CASE Has(acceptQueue, c, t)
    BY <1>f, <2>1, <2>2
  <2>3. CASE \E k \in jobs : k.event.conv = c /\ k.event.turn = t /\ k.pc # "ack"
    BY <1>3, <1>f, <2>3, JobMoves DEF JobBecomes
  <2> QED BY <2>2, <2>3, PendingForm
<1>4. ASSUME NEW k \in tasks, TaskPublish(k)
      PROVE  Pending(c, t)'
  <2>1. Has(acceptQueue, c, t) => Has(acceptQueue', c, t)
    <3>1. CASE UNCHANGED acceptQueue
      BY <3>1
    <3>2. CASE \E e \in AcceptEvent : acceptQueue' = Append(acceptQueue, e)
      BY <1>q, <3>2, HasAppended
    <3> QED BY <1>4, <3>1, <3>2, PublishAppends
  <2>2. jobs' = jobs
    BY <1>4, PublishAppends
  <2> QED BY <1>f, <2>1, <2>2, PendingForm
<1>5. CASE UNCHANGED <<acceptQueue, jobs>>
  BY <1>5, <1>f, PendingForm
<1> QED BY <1>1, <1>2, <1>3, <1>4, <1>5, AcceptsRest

(* A published accept event is worked off before it is forgotten, whatever *)
(* dies, fails or is redelivered on the way.                               *)
THEOREM AcceptEventsStay == Spec => AcceptEventsAreKept
<1>1. Init => OneJob
  BY DEF Init, OneJob
<1>2. TypeOK /\ OneJob /\ [Next]_vars => OneJob'
  BY OneJobStep
<1>3. TypeOK /\ OneJob /\ [Next]_vars =>
        [\A c \in Conv, t \in Turn :
           Pending(c, t) =>
             \/ Pending(c, t)'
             \/ \E j \in jobs' : /\ j.event.conv = c /\ j.event.turn = t
                                 /\ j.pc = "ack"]_vars
  BY KeptStep
<1> QED BY <1>1, <1>2, <1>3, TypeCorrect, PTL DEF Spec, AcceptEventsAreKept
----------------------------------------------------------------------------
(* One reply per turn.  As long as the stores answer, no confirm of a      *)
(* publish is lost, no process dies and no consumer loses its connection,  *)
(* each turn is in one place: a POST, the queue, a task, settled.  Whoever *)
(* replies to it does so once, and the two agents never both do.  A publish*)
(* that fails outright is allowed: nothing is in the queue then.           *)
Reliable == Faults \cap {"store", "confirm", "crash"} = {}

Distinct(q) == \A i, j \in 1 .. Len(q) :
                 q[i].conv = q[j].conv /\ q[i].turn = q[j].turn => i = j

(* A task that has left, and a turn that was left, to the ticket-agent.    *)
Handing(k) ==
  ~k.error /\ (k.pc = "note" \/ (k.pc = "settle" /\ k.intent = "accept"))
Handed(c, t) ==
  \/ fate[c][t] = "accepted"
  \/ \E k \in tasks : k.event.conv = c /\ k.event.turn = t /\ Handing(k)

(* The reply to a turn may have been given: nobody is left to give it.     *)
Done(c, t) == fate[c][t] = "processed" \/ (Handed(c, t) /\ ~Pending(c, t))
DoneTurns(c) == {t \in Turn : Done(c, t)}

TurnInv ==
  /\ \A c \in Conv, t \in Turn : t > sent[c] => fate[c][t] = "unsent"
  /\ \A r \in requests : Posting(r) => fate[r.conv][r.turn] = "unsent"
  /\ Distinct(chatQueue)
  /\ \A c \in Conv, t \in Turn :
       Has(chatQueue, c, t) => fate[c][t] = "published" /\ ~Runs(c, t)
  /\ \A k \in tasks : /\ fate[k.event.conv][k.event.turn] = "published"
                      /\ k.error => k.pc = "settle"
  /\ \A k, l \in tasks :
       k.event.conv = l.event.conv /\ k.event.turn = l.event.turn => k = l

AcceptInv ==
  /\ Distinct(acceptQueue)
  /\ \A c \in Conv, t \in Turn : Has(acceptQueue, c, t) =>
       /\ Handed(c, t)
       /\ \A j \in jobs : ~(j.event.conv = c /\ j.event.turn = t)
  /\ \A j \in jobs : Handed(j.event.conv, j.event.turn)

(* A copy holds one reply per turn, and only to turns that are done.       *)
Fits(msgs, D) ==
  /\ \A i, j \in ReplyIndexes(msgs) : msgs[i].turn = msgs[j].turn => i = j
  /\ \A i \in ReplyIndexes(msgs) : msgs[i].turn \in D

CopiesFit ==
  /\ \A c \in Conv : /\ Fits(redis[c].messages, DoneTurns(c))
                     /\ Fits(db[c].messages, DoneTurns(c))
  /\ \A r \in requests : Fits(r.messages, DoneTurns(r.conv))
  /\ \A t \in tasks : Fits(t.messages, DoneTurns(t.event.conv))
  /\ \A j \in jobs : Fits(j.messages, DoneTurns(j.event.conv))
----------------------------------------------------------------------------
(* A new event keeps a queue free of repetitions.                          *)
LEMMA DistinctAppended ==
  ASSUME NEW S, NEW q \in Seq(S), NEW e \in S, Distinct(q), ~Has(q, e.conv, e.turn)
  PROVE  Distinct(Append(q, e))
<1> DEFINE a == Append(q, e)
           l == Len(q) + 1
<1>1. /\ \A i \in 1 .. Len(q) : a[i] = q[i]
      /\ a[l] = e
      /\ \A i \in 1 .. Len(a) : i \in 1 .. Len(q) \/ i = l
  OBVIOUS
<1> HIDE DEF a, l
<1>2. \A i \in 1 .. Len(q) : ~(a[i].conv = e.conv /\ a[i].turn = e.turn)
  BY <1>1 DEF Has
<1>3. ASSUME NEW i \in 1 .. Len(a), NEW j \in 1 .. Len(a),
             a[i].conv = a[j].conv, a[i].turn = a[j].turn
      PROVE  i = j
  <2>1. CASE i \in 1 .. Len(q) /\ j \in 1 .. Len(q)
    BY <1>1, <1>3, <2>1 DEF Distinct
  <2>2. CASE i = l \/ j = l
    BY <1>1, <1>2, <1>3, <2>2
  <2> QED BY <1>1, <2>1, <2>2
<1> QED BY <1>3 DEF Distinct, a

(* So does taking the first, which then is not in the queue any more.      *)
LEMMA DistinctTaken ==
  ASSUME NEW S, NEW q \in Seq(S), q # << >>, Distinct(q)
  PROVE  /\ Distinct(Tail(q))
         /\ ~Has(Tail(q), Head(q).conv, Head(q).turn)
<1> DEFINE a == Tail(q)
<1>1. /\ \A i \in 1 .. Len(a) : /\ a[i] = q[i + 1] /\ i + 1 \in 1 .. Len(q)
                                /\ i \in Nat /\ i + 1 # 1
      /\ Head(q) = q[1] /\ 1 \in 1 .. Len(q)
  OBVIOUS
<1> HIDE DEF a
<1>2. ASSUME NEW i \in 1 .. Len(a), NEW j \in 1 .. Len(a),
             a[i].conv = a[j].conv, a[i].turn = a[j].turn
      PROVE  i = j
  <2>1. i + 1 = j + 1
    BY <1>1, <1>2 DEF Distinct
  <2>2. i \in Nat /\ j \in Nat
    BY <1>1
  <2> QED BY <2>1, <2>2
<1>3. ~Has(a, Head(q).conv, Head(q).turn)
  BY <1>1 DEF Has, Distinct
<1> QED BY <1>2, <1>3 DEF Distinct, a

(* The queue that has nothing.                                             *)
LEMMA NothingQueued == Distinct(<< >>) /\ \A c, t : ~Has(<< >>, c, t)
<1>1. 1 .. Len(<< >>) = {}
  OBVIOUS
<1> QED BY <1>1 DEF Distinct, Has

(* What a step of a reliable system may do to the events on their way.     *)
LEMMA ReliableSteps ==
  ASSUME Reliable, [Next]_vars
  PROVE  \/ UNCHANGED <<chatQueue, tasks, acceptQueue, jobs, fate>>
         \/ \E r \in requests : Publish(r)
         \/ Deliver
         \/ \E t \in tasks : TaskStep(t) \/ GraphFails(t)
         \/ TicketDeliver
         \/ \E j \in jobs : JobStep(j) \/ TicketGraphFails(j)
<1> USE DEF storeVars, brokerVars, userVars
<1>n. /\ ~BackendCrash /\ ~ArchitectCrash /\ ~ConsumerDisconnect /\ ~TicketCrash
      /\ \A r \in requests : ~RequestFails(r)
      /\ \A t \in tasks : ~TaskFails(t)
      /\ \A j \in jobs : ~TicketFails(j)
  BY DEF Reliable, BackendCrash, ArchitectCrash, ConsumerDisconnect, TicketCrash,
         RequestFails, TaskFails, TicketFails, Fails
<1>1. CASE Fault
  <2>1. ASSUME NEW c \in Conv, Expire(c)
        PROVE  UNCHANGED <<chatQueue, tasks, acceptQueue, jobs, fate>>
    BY <2>1 DEF Expire
  <2> QED BY <1>1, <1>n, <2>1 DEF Fault
<1>2. CASE System
  <2>1. ASSUME NEW c \in Conv, ReceiveReply(c)
        PROVE  UNCHANGED <<chatQueue, tasks, acceptQueue, jobs, fate>>
    BY <2>1 DEF ReceiveReply
  <2>2. ASSUME NEW r \in requests, BackendStep(r), ~Publish(r)
        PROVE  UNCHANGED <<chatQueue, tasks, acceptQueue, jobs, fate>>
    BY <2>2 DEF BackendStep, NewInsert, ContinueGet, ContinueFind, SetThinking,
                StopGet, StopSave, StopDel, GetRead, GetUpdate
  <2>3. ASSUME Ack
        PROVE  UNCHANGED <<chatQueue, tasks, acceptQueue, jobs, fate>>
    BY <2>3 DEF Ack
  <2> QED BY <1>2, <2>1, <2>2, <2>3 DEF System
<1>3. ASSUME NEW c \in Conv, User(c)
      PROVE  UNCHANGED <<chatQueue, tasks, acceptQueue, jobs, fate>>
  BY <1>3 DEF User, SendMessage, OpenChat, Leave
<1>4. CASE UNCHANGED vars
  BY <1>4 DEF vars
<1> QED BY <1>1, <1>2, <1>3, <1>4 DEF Next

(* A POST is one that was there or one for the next turn of its tab.       *)
LEMMA PostsStay ==
  ASSUME TypeOK, [Next]_vars
  PROVE  /\ \A c \in Conv : sent'[c] >= sent[c]
         /\ \A r \in requests' : Posting(r) =>
              \/ \E q \in requests : /\ Posting(q) /\ q.conv = r.conv
                                     /\ q.turn = r.turn
              \/ r.conv \in Conv /\ r.turn > sent[r.conv]
<1> USE DEF storeVars, brokerVars, userVars
<1>t. \A c \in Conv : sent[c] \in Int
  BY OrderTypes
<1>q. ASSUME UNCHANGED sent, \A r \in requests' : r \in requests \/ ~Posting(r)
      PROVE  /\ \A c \in Conv : sent'[c] >= sent[c]
             /\ \A r \in requests' : Posting(r) =>
                  \E q \in requests : Posting(q) /\ q.conv = r.conv /\ q.turn = r.turn
  BY <1>q, <1>t
<1>b. ASSUME NEW r \in requests, BackendStep(r)
      PROVE  /\ UNCHANGED sent
             /\ \/ requests' = requests \ {r}
                \/ \E pc, msgs : Step(r, pc, msgs)
  BY <1>b DEF BackendStep, NewInsert, ContinueGet, ContinueFind, SetThinking, Publish,
              StopGet, StopSave, StopDel, GetRead, GetUpdate, Responds, Ends
<1>s. ASSUME NEW r \in requests, NEW pc, NEW msgs, Step(r, pc, msgs)
      PROVE  \A p \in requests' : Posting(p) =>
               \E q \in requests : Posting(q) /\ q.conv = p.conv /\ q.turn = p.turn
  <2> DEFINE u == [r EXCEPT !.pc = pc, !.messages = msgs]
  <2>1. u.op = r.op /\ u.conv = r.conv /\ u.turn = r.turn
    BY DEF TypeOK, Request
  <2>2. requests' = (requests \ {r}) \cup {u}
    BY <1>s DEF Step
  <2> HIDE DEF u
  <2> QED BY <2>1, <2>2 DEF Posting
<1>c. ASSUME NEW c \in Conv, NEW op \in {"stop", "get"}, NEW n, NEW pc, Sends(op, c, n, pc)
      PROVE  \A r \in requests' : r \in requests \/ ~Posting(r)
  BY <1>c DEF Sends, Posting
<1>1. CASE Fault
  BY <1>1, <1>q DEF Fault, BackendCrash, ArchitectCrash, ConsumerDisconnect, TicketCrash,
              RequestFails, Responds, Ends, GraphFails, TaskFails, TicketGraphFails,
              TicketFails, Expire
<1>2. CASE System
  <2>1. CASE \E c \in Conv : ReceiveReply(c)
    BY <2>1, <1>c, <1>q DEF ReceiveReply
  <2>2. CASE \E r \in requests : BackendStep(r)
    BY <2>2, <1>b, <1>q, <1>s, <1>t
  <2>3. CASE Deliver \/ Ack \/ TicketDeliver
    BY <2>3, <1>q DEF Deliver, Ack, TicketDeliver
  <2>4. CASE \E t \in tasks : TaskStep(t)
    BY <2>4, <1>q DEF TaskStep, TaskLoad, TaskMark, TaskIntent, TaskAccept, TaskPublish,
                TaskNote, TaskWork, TaskReturn, TaskReply
  <2>5. CASE \E j \in jobs : JobStep(j)
    BY <2>5, <1>q DEF JobStep, TicketLoad, TicketCreate, TicketReply, TicketAck
  <2> QED BY <1>2, <2>1, <2>2, <2>3, <2>4, <2>5 DEF System
<1>3. ASSUME NEW c \in Conv, User(c)
      PROVE  /\ \A d \in Conv : sent'[d] >= sent[d]
             /\ \A r \in requests' : Posting(r) =>
                  \/ \E q \in requests : /\ Posting(q) /\ q.conv = r.conv
                                         /\ q.turn = r.turn
                  \/ r.conv \in Conv /\ r.turn > sent[r.conv]
  <2>1. CASE SendMessage(c)
    <3>1. PICK op \in {"new", "continue"}, pc \in {"insert", "get"} :
            Sends(op, c, sent[c] + 1, pc)
      BY <2>1 DEF SendMessage
    <3>2. \A d \in Conv : sent'[d] = sent[d] \/ sent'[d] = sent[d] + 1
      BY <2>1 DEF SendMessage, TypeOK
    <3>3. \A d \in Conv : sent'[d] >= sent[d]
      BY <1>t, <3>2
    <3>4. \A r \in requests' : r \in requests \/ (r.conv = c /\ r.turn = sent[c] + 1)
      BY <3>1 DEF Sends
    <3>5. sent[c] + 1 > sent[c]
      BY <1>t
    <3> QED BY <3>3, <3>4, <3>5
  <2>2. CASE OpenChat(c)
    BY <2>2, <1>c, <1>q DEF OpenChat
  <2>3. CASE Leave(c)
    BY <2>3, <1>q DEF Leave
  <2> QED BY <1>3, <2>1, <2>2, <2>3 DEF User
<1>4. CASE UNCHANGED vars
  BY <1>4, <1>q DEF vars
<1> QED BY <1>1, <1>2, <1>3, <1>4 DEF Next

(* What a task of a reliable system does to its turn.                      *)
LEMMA TaskHands ==
  ASSUME Reliable, TypeOK, TurnInv, NEW t \in tasks, TaskStep(t) \/ GraphFails(t)
  PROVE  \/ /\ UNCHANGED fate
            /\ \E u : /\ Becomes(t, u) /\ u.event = t.event
                      /\ u.error => u.pc = "settle"
                      /\ \/ UNCHANGED acceptQueue /\ (Handing(t) => Handing(u))
                         \/ TaskPublish(t) /\ ~Handing(t) /\ Handing(u)
         \/ /\ UNCHANGED acceptQueue
            /\ \/ Finishes(t, "processed") /\ ~Handing(t)
               \/ Finishes(t, "accepted")
<1> USE DEF brokerVars
<1>t. /\ t \in Task /\ (t.error => t.pc = "settle")
      /\ t.error \in BOOLEAN
  BY DEF TypeOK, TurnInv, Task
<1>a. ASSUME NEW node, NEW next, next \in Task, ThinkAloud(t, node, next)
      PROVE  \E u : /\ Becomes(t, u) /\ u.event = next.event /\ u.pc = next.pc
                    /\ u.intent = next.intent /\ u.error = next.error
  <2> DEFINE msgs == Append(t.messages, Thinking(node, t.event.turn))
             good == [next EXCEPT !.messages = msgs]
  <2>1. /\ good.event = next.event /\ good.pc = next.pc /\ good.intent = next.intent
        /\ good.error = next.error
    BY <1>a DEF Task
  <2>2. ~Fails("store")
    BY DEF Reliable, Fails
  <2>3. Becomes(t, good)
    BY <1>a, <2>2 DEF ThinkAloud
  <2> HIDE DEF good
  <2> QED BY <2>1, <2>3
<1>1. CASE TaskLoad(t)
  <2>1. t.pc = "load" /\ UNCHANGED acceptQueue
    BY <1>1 DEF TaskLoad
  <2>2. CASE redis[t.event.conv].here
    <3> DEFINE u == [t EXCEPT !.pc = "mark",
                              !.messages = redis[t.event.conv].messages]
    <3>1. u.event = t.event /\ u.error = t.error
      BY <1>t DEF Task
    <3>2. Becomes(t, u) /\ UNCHANGED fate
      BY <1>1, <2>2 DEF TaskLoad
    <3> HIDE DEF u
    <3> QED BY <1>t, <2>1, <3>1, <3>2 DEF Handing
  <2>3. CASE ~redis[t.event.conv].here
    BY <1>1, <2>1, <2>3 DEF TaskLoad, Handing
  <2> QED BY <2>2, <2>3
<1>2. CASE TaskMark(t)
  <2> DEFINE u == [t EXCEPT !.pc = "intent"]
  <2>1. u.event = t.event /\ u.error = t.error
    BY <1>t DEF Task
  <2>2. /\ t.pc = "mark" /\ Becomes(t, u) /\ UNCHANGED <<acceptQueue, fate>>
    BY <1>2 DEF TaskMark
  <2> HIDE DEF u
  <2> QED BY <1>t, <2>1, <2>2 DEF Handing
<1>3. CASE TaskIntent(t)
  <2>1. PICK i \in Intents \ {"accept"} :
          ThinkAloud(t, "intent_node",
            [t EXCEPT !.intent = i,
                      !.prior = IF i = "refine" THEN LatestPlan(t.event.history)
                                                ELSE {},
                      !.pc = IF i = "undefined" THEN "settle" ELSE "work"])
    BY <1>3 DEF TaskIntent
  <2> DEFINE next == [t EXCEPT !.intent = i,
                      !.prior = IF i = "refine" THEN LatestPlan(t.event.history)
                                                ELSE {},
                      !.pc = IF i = "undefined" THEN "settle" ELSE "work"]
  <2>2. next \in Task /\ next.event = t.event /\ next.error = t.error
    <3>1. LatestPlan(t.event.history) \in SUBSET Message
      BY <1>t, LatestPlanType DEF Task, ChatEvent
    <3> QED BY <1>t, <3>1, ChatAssumption DEF Task
  <2>3. ThinkAloud(t, "intent_node", next)
    BY <2>1
  <2>4. t.pc = "intent" /\ UNCHANGED <<acceptQueue, fate>>
    BY <1>3 DEF TaskIntent
  <2> HIDE DEF next
  <2> QED BY <1>t, <1>a, <2>2, <2>3, <2>4 DEF Handing
<1>4. CASE TaskAccept(t)
  <2> DEFINE u == [t EXCEPT !.pc = IF LatestPlan(t.event.history) = {}
                                     THEN "note" ELSE "publish"]
  <2>1. u.event = t.event /\ u.error = t.error
    BY <1>t DEF Task
  <2>2. t.pc = "intent" /\ Becomes(t, u) /\ UNCHANGED <<acceptQueue, fate>>
    BY <1>4 DEF TaskAccept
  <2> HIDE DEF u
  <2> QED BY <1>t, <2>1, <2>2 DEF Handing
<1>5. CASE TaskPublish(t)
  <2> DEFINE u == [t EXCEPT !.pc = "note"]
             v == [t EXCEPT !.pc = "settle", !.error = TRUE]
  <2>1. /\ u.event = t.event /\ u.error = t.error /\ u.pc = "note"
        /\ v.event = t.event /\ v.pc = "settle"
    BY <1>t DEF Task
  <2>2. /\ t.pc = "publish" /\ UNCHANGED fate
        /\ \/ Becomes(t, u)
           \/ Becomes(t, v) /\ UNCHANGED acceptQueue
    <3>1. ~Fails("confirm")
      BY DEF Reliable, Fails
    <3> QED BY <1>5, <3>1 DEF TaskPublish
  <2> HIDE DEF u, v
  <2>3. CASE Becomes(t, u)
    BY <1>5, <1>t, <2>1, <2>2, <2>3 DEF Handing
  <2>4. CASE Becomes(t, v) /\ UNCHANGED acceptQueue
    BY <2>1, <2>2, <2>4 DEF Handing
  <2> QED BY <2>2, <2>3, <2>4
<1>6. CASE TaskNote(t)
  <2> DEFINE next == [t EXCEPT !.intent = "accept", !.pc = "settle"]
  <2>1. /\ next \in Task /\ next.event = t.event /\ next.error = t.error
        /\ next.pc = "settle" /\ next.intent = "accept"
    BY <1>t DEF Task, IntentKinds
  <2>2. /\ ThinkAloud(t, "intent_node", next)
        /\ UNCHANGED <<acceptQueue, fate>>
    BY <1>6 DEF TaskNote
  <2> HIDE DEF next
  <2> QED BY <1>t, <1>a, <2>1, <2>2 DEF Handing
<1>7. CASE TaskWork(t)
  <2>1. PICK last \in BOOLEAN :
          ThinkAloud(t, IF last THEN "reply_node" ELSE "work_node",
                     [t EXCEPT !.updates = @ + 1,
                               !.pc = IF last THEN "settle" ELSE "work"])
    BY <1>7 DEF TaskWork
  <2> DEFINE next == [t EXCEPT !.updates = @ + 1,
                               !.pc = IF last THEN "settle" ELSE "work"]
  <2>2. next \in Task /\ next.event = t.event /\ next.error = t.error
    <3>1. t.updates + 1 \in Nat
      BY <1>t DEF Task
    <3>2. ASSUME NEW n \in Nat
          PROVE  /\ [t EXCEPT !.updates = n, !.pc = "settle"] \in Task
                 /\ [t EXCEPT !.updates = n, !.pc = "work"] \in Task
      BY <1>t DEF Task
    <3>3. next.event = t.event /\ next.error = t.error
      BY <1>t DEF Task
    <3>4. CASE last
      BY <3>1, <3>2, <3>3, <3>4
    <3>5. CASE ~last
      BY <3>1, <3>2, <3>3, <3>5
    <3> QED BY <3>4, <3>5
  <2>3. ThinkAloud(t, IF last THEN "reply_node" ELSE "work_node", next)
    BY <2>1
  <2>4. t.pc = "work" /\ UNCHANGED <<acceptQueue, fate>>
    BY <1>7 DEF TaskWork
  <2> HIDE DEF next
  <2> QED BY <1>t, <1>a, <2>2, <2>3, <2>4 DEF Handing
<1>8. CASE TaskReturn(t)
  BY <1>8 DEF TaskReturn
<1>9. CASE TaskReply(t)
  BY <1>9 DEF TaskReply, Replies, Handing
<1>10. CASE GraphFails(t)
  <2> DEFINE u == [t EXCEPT !.pc = "settle", !.error = TRUE]
  <2>1. u.event = t.event /\ u.pc = "settle"
    BY <1>t DEF Task
  <2>2. t.pc \in {"intent", "work"} /\ Becomes(t, u) /\ UNCHANGED <<acceptQueue, fate>>
    BY <1>10 DEF GraphFails
  <2> HIDE DEF u
  <2> QED BY <2>1, <2>2 DEF Handing
<1> QED
  BY <1>1, <1>2, <1>3, <1>4, <1>5, <1>6, <1>7, <1>8, <1>9, <1>10 DEF TaskStep

(* No turn is in two places.                                               *)
LEMMA TurnStep ==
  ASSUME Reliable, TypeOK, TypeOK', OrderInv, TurnInv, [Next]_vars
  PROVE  TurnInv'
<1>q. chatQueue \in Seq(ChatEvent) /\ fate \in [Conv -> [Turn -> Fates]]
  BY DEF TypeOK
<1>k. \A k \in tasks : k.event.conv \in Conv /\ k.event.turn \in Turn
  BY DEF TypeOK, Task, ChatEvent
<1>i. \A c \in Conv : sent[c] \in Int /\ sent'[c] \in Int
  BY ChatAssumption DEF TypeOK
<1>n. Turn \subseteq Int
  BY DEF Turn
<1>r. \A r \in requests' : Posting(r) => r.conv \in Conv /\ r.turn \in Turn
  BY DEF TypeOK, Request, Posting
<1>u. ASSUME \A c \in Conv, n \in Turn : fate[c][n] = "unsent" => fate'[c][n] = "unsent"
      PROVE  /\ \A c \in Conv, n \in Turn : n > sent'[c] => fate'[c][n] = "unsent"
             /\ \A r \in requests' : Posting(r) => fate'[r.conv][r.turn] = "unsent"
  <2>1. \A c \in Conv, n \in Turn : n > sent'[c] => n > sent[c]
    BY <1>i, <1>n, PostsStay
  <2>2. \A c \in Conv, n \in Turn : n > sent'[c] => fate'[c][n] = "unsent"
    BY <1>u, <2>1 DEF TurnInv
  <2>3. ASSUME NEW r \in requests', Posting(r) PROVE fate[r.conv][r.turn] = "unsent"
    <3>1. CASE \E q \in requests : /\ Posting(q) /\ q.conv = r.conv
                                   /\ q.turn = r.turn
      BY <3>1 DEF TurnInv
    <3>2. CASE r.conv \in Conv /\ r.turn > sent[r.conv]
      BY <1>r, <2>3, <3>2 DEF TurnInv
    <3> QED BY <2>3, <3>1, <3>2, PostsStay
  <2> QED BY <1>r, <1>u, <2>2, <2>3
<1>1. CASE UNCHANGED <<chatQueue, tasks, fate>>
  <2>1. /\ \A c \in Conv, n \in Turn : n > sent'[c] => fate'[c][n] = "unsent"
        /\ \A r \in requests' : Posting(r) => fate'[r.conv][r.turn] = "unsent"
    BY <1>1, <1>u
  <2> QED BY <1>1, <2>1 DEF TurnInv, Has, Runs
<1>2. CASE \E r \in requests : Publish(r)
  <2>1. PICK r \in requests : Publish(r)
    BY <1>2
  <2>2. r.conv \in Conv /\ r.turn \in Turn /\ r.messages \in Seq(Message) /\ Posting(r)
    BY <2>1 DEF Publish, TypeOK, Request, Posting
  <2> DEFINE e == [conv |-> r.conv, turn |-> r.turn, history |-> r.messages,
                   delivery |-> 0]
  <2>3. e \in ChatEvent /\ e.conv = r.conv /\ e.turn = r.turn
    BY <2>2 DEF ChatEvent
  <2>5. /\ \/ /\ chatQueue' = Append(chatQueue, e)
              /\ fate' = [fate EXCEPT ![r.conv][r.turn] = "published"]
           \/ /\ UNCHANGED chatQueue
              /\ fate' = [fate EXCEPT ![r.conv][r.turn] = "dropped"]
        /\ requests' = requests \ {r} /\ UNCHANGED <<tasks, sent>>
    BY <2>1 DEF Publish, Responds, Ends
  <2> HIDE DEF e
  <2>6. /\ fate[r.conv][r.turn] = "unsent"
        /\ ~Has(chatQueue, r.conv, r.turn) /\ ~Runs(r.conv, r.turn)
    BY <2>2 DEF TurnInv, Runs
  <2>7. /\ \A c \in Conv, n \in Turn :
             ~(c = r.conv /\ n = r.turn) => fate'[c][n] = fate[c][n]
        /\ UNCHANGED chatQueue \/ fate'[r.conv][r.turn] = "published"
    BY <1>q, <2>2, <2>5
  <2>8. Distinct(chatQueue')
    <3>1. CASE chatQueue' = Append(chatQueue, e)
      BY <1>q, <2>3, <2>6, <3>1, DistinctAppended DEF TurnInv
    <3>2. CASE UNCHANGED chatQueue
      BY <3>2 DEF TurnInv
    <3> QED BY <2>5, <3>1, <3>2
  <2>9. \A c, n : Has(chatQueue', c, n) =>
          \/ Has(chatQueue, c, n)
          \/ c = r.conv /\ n = r.turn /\ ~UNCHANGED chatQueue
    <3>1. CASE chatQueue' = Append(chatQueue, e)
      <4>1. \A c, n : Has(chatQueue', c, n) <=>
                        Has(chatQueue, c, n) \/ (c = r.conv /\ n = r.turn)
        BY <1>q, <2>3, <3>1, HasAppended
      <4>2. ~UNCHANGED chatQueue
        BY <2>6, <4>1
      <4> QED BY <4>1, <4>2
    <3>2. CASE UNCHANGED chatQueue
      BY <3>2
    <3> QED BY <2>5, <3>1, <3>2
  <2>10. \A c, n : Runs(c, n)' <=> Runs(c, n)
    BY <2>5 DEF Runs
  <2>11. r.turn = sent[r.conv]
    BY <2>2 DEF OrderInv, PostInv
  <2>12. \A c \in Conv, n \in Turn : n > sent'[c] => fate'[c][n] = "unsent"
    <3>1. ~(r.turn > sent'[r.conv])
      BY <1>i, <2>2, <2>5, <2>11
    <3> QED BY <2>5, <2>7, <3>1 DEF TurnInv
  <2>13. \A q \in requests' : Posting(q) => fate'[q.conv][q.turn] = "unsent"
    <3>1. \A q \in requests' : Posting(q) => q \in requests /\ q.conv # r.conv
      BY <2>2, <2>5 DEF OrderInv, PostInv
    <3> QED BY <1>r, <2>7, <3>1 DEF TurnInv
  <2>14. \A c \in Conv, n \in Turn :
           Has(chatQueue', c, n) => fate'[c][n] = "published" /\ ~Runs(c, n)'
    BY <2>6, <2>7, <2>9, <2>10 DEF TurnInv
  <2>15. \A k \in tasks' : /\ fate'[k.event.conv][k.event.turn] = "published"
                           /\ k.error => k.pc = "settle"
    BY <1>k, <2>5, <2>6, <2>7 DEF TurnInv, Runs
  <2>16. \A k, l \in tasks' :
           k.event.conv = l.event.conv /\ k.event.turn = l.event.turn => k = l
    BY <2>5 DEF TurnInv
  <2>17. \A c \in Conv, n \in Turn :
           Has(chatQueue, c, n)' => fate'[c][n] = "published" /\ ~Runs(c, n)'
    BY <2>14 DEF Has
  <2>18. Distinct(chatQueue)'
    BY <2>8 DEF Distinct
  <2> QED BY <2>12, <2>13, <2>15, <2>16, <2>17, <2>18 DEF TurnInv
<1>3. CASE Deliver
  <2> DEFINE e == Head(chatQueue)
             k == NewTask(e)
  <2>1. /\ chatQueue # << >> /\ chatQueue' = Tail(chatQueue)
        /\ tasks' = tasks \cup {k} /\ UNCHANGED fate
    BY <1>3 DEF Deliver
  <2>2. k.event = e /\ k.error = FALSE
    BY DEF NewTask
  <2>3. e \in ChatEvent
    BY <1>q, <2>1
  <2>4. e.conv \in Conv /\ e.turn \in Turn
    BY <2>3 DEF ChatEvent
  <2>5. \A c, n : Has(chatQueue, c, n) <=>
                    Has(Tail(chatQueue), c, n) \/ (e.conv = c /\ e.turn = n)
    BY <1>q, <2>1, HasTaken
  <2>6. Distinct(Tail(chatQueue)) /\ ~Has(Tail(chatQueue), e.conv, e.turn)
    BY <1>q, <2>1, DistinctTaken DEF TurnInv
  <2> HIDE DEF e, k
  <2>7. fate[e.conv][e.turn] = "published" /\ ~Runs(e.conv, e.turn)
    BY <2>4, <2>5 DEF TurnInv
  <2>8. \A c, n : Runs(c, n)' <=> Runs(c, n) \/ (e.conv = c /\ e.turn = n)
    BY <2>1, <2>2 DEF Runs
  <2>9. \A c \in Conv, n \in Turn :
          Has(chatQueue', c, n) => fate'[c][n] = "published" /\ ~Runs(c, n)'
    BY <2>1, <2>5, <2>6, <2>8 DEF TurnInv
  <2>10. \A j \in tasks' : /\ fate'[j.event.conv][j.event.turn] = "published"
                           /\ j.error => j.pc = "settle"
    BY <2>1, <2>2, <2>7 DEF TurnInv
  <2>11. \A j, l \in tasks' :
           j.event.conv = l.event.conv /\ j.event.turn = l.event.turn => j = l
    BY <2>1, <2>2, <2>7 DEF TurnInv, Runs
  <2>12. /\ \A c \in Conv, n \in Turn : n > sent'[c] => fate'[c][n] = "unsent"
         /\ \A r \in requests' : Posting(r) => fate'[r.conv][r.turn] = "unsent"
    BY <1>u, <2>1
  <2>13. \A c \in Conv, n \in Turn :
           Has(chatQueue, c, n)' => fate'[c][n] = "published" /\ ~Runs(c, n)'
    BY <2>9 DEF Has
  <2>14. Distinct(chatQueue)'
    BY <2>1, <2>6 DEF Distinct
  <2> QED BY <2>10, <2>11, <2>12, <2>13, <2>14 DEF TurnInv
<1>4. ASSUME NEW t \in tasks, TaskStep(t) \/ GraphFails(t)
      PROVE  TurnInv'
  <2>1. UNCHANGED chatQueue
    BY <1>4, TaskMoves
  <2>2. CASE UNCHANGED fate /\ \E u : /\ Becomes(t, u) /\ u.event = t.event
                                      /\ u.error => u.pc = "settle"
    <3>1. PICK u : /\ Becomes(t, u) /\ u.event = t.event
                   /\ u.error => u.pc = "settle"
      BY <2>2
    <3>2. \A c, n : Runs(c, n)' <=> Runs(c, n)
      BY <3>1 DEF Runs, Becomes
    <3>3. \A c \in Conv, n \in Turn :
            Has(chatQueue, c, n)' => fate'[c][n] = "published" /\ ~Runs(c, n)'
      BY <2>1, <2>2, <3>2 DEF TurnInv, Has
    <3>4. \A k \in tasks' : /\ fate'[k.event.conv][k.event.turn] = "published"
                            /\ k.error => k.pc = "settle"
      BY <2>2, <3>1 DEF TurnInv, Becomes
    <3>5. \A k, l \in tasks' :
            k.event.conv = l.event.conv /\ k.event.turn = l.event.turn => k = l
      BY <3>1 DEF TurnInv, Becomes
    <3>6. /\ \A c \in Conv, n \in Turn : n > sent'[c] => fate'[c][n] = "unsent"
          /\ \A r \in requests' : Posting(r) => fate'[r.conv][r.turn] = "unsent"
      BY <1>u, <2>2
    <3> QED BY <2>1, <3>3, <3>4, <3>5, <3>6 DEF TurnInv, Distinct
  <2>3. CASE \E outcome \in {"processed", "accepted"} : Finishes(t, outcome)
    <3>1. /\ tasks' = tasks \ {t}
          /\ \A c \in Conv, n \in Turn :
               ~(c = t.event.conv /\ n = t.event.turn) => fate'[c][n] = fate[c][n]
      BY <1>k, <1>q, <2>3 DEF Finishes
    <3>2. fate[t.event.conv][t.event.turn] = "published"
      BY DEF TurnInv
    <3>3. \A c \in Conv, n \in Turn : fate[c][n] = "unsent" => fate'[c][n] = "unsent"
      BY <3>1, <3>2
    <3>4. /\ \A c \in Conv, n \in Turn : n > sent'[c] => fate'[c][n] = "unsent"
          /\ \A r \in requests' : Posting(r) => fate'[r.conv][r.turn] = "unsent"
      BY <1>u, <3>3
    <3>5. \A c \in Conv, n \in Turn :
            Has(chatQueue, c, n)' => fate'[c][n] = "published" /\ ~Runs(c, n)'
      <4>1. ~Has(chatQueue, t.event.conv, t.event.turn)
        BY <1>k DEF TurnInv, Runs
      <4>2. \A c, n : Runs(c, n)' => Runs(c, n)
        BY <3>1 DEF Runs
      <4> QED BY <2>1, <3>1, <4>1, <4>2 DEF TurnInv, Has
    <3>6. \A k \in tasks' : /\ fate'[k.event.conv][k.event.turn] = "published"
                            /\ k.error => k.pc = "settle"
      <4>1. \A k \in tasks' :
              k \in tasks /\ ~(k.event.conv = t.event.conv /\ k.event.turn = t.event.turn)
        BY <3>1 DEF TurnInv
      <4> QED BY <1>k, <3>1, <4>1 DEF TurnInv
    <3>7. \A k, l \in tasks' :
            k.event.conv = l.event.conv /\ k.event.turn = l.event.turn => k = l
      BY <3>1 DEF TurnInv
    <3> QED BY <2>1, <3>4, <3>5, <3>6, <3>7 DEF TurnInv, Distinct
  <2> QED BY <1>4, <2>2, <2>3, TaskHands
<1>5. CASE TicketDeliver \/ \E j \in jobs : JobStep(j) \/ TicketGraphFails(j)
  BY <1>1, <1>5 DEF brokerVars, TicketDeliver, JobStep, TicketLoad, TicketCreate,
                    TicketReply, TicketAck, TicketGraphFails
<1> QED BY <1>1, <1>2, <1>3, <1>4, <1>5, ReliableSteps

(* The turns of a reliable system only move forward: what was left to the  *)
(* ticket-agent stays so, and only unsent or published turns change.       *)
LEMMA FateStep ==
  ASSUME Reliable, TypeOK, TurnInv, [Next]_vars
  PROVE  \A c \in Conv, n \in Turn :
           /\ Handed(c, n) => Handed(c, n)'
           /\ fate[c][n] = "processed" => fate'[c][n] = "processed"
<1>q. fate \in [Conv -> [Turn -> Fates]]
  BY DEF TypeOK
<1>k. \A k \in tasks : k.event.conv \in Conv /\ k.event.turn \in Turn
  BY DEF TypeOK, Task, ChatEvent
<1>1. CASE UNCHANGED <<tasks, fate>>
  BY <1>1 DEF Handed
<1>2. CASE \E r \in requests : Publish(r)
  <2>1. PICK r \in requests : Publish(r)
    BY <1>2
  <2>2. r.conv \in Conv /\ r.turn \in Turn /\ Posting(r) /\ UNCHANGED tasks
    BY <2>1 DEF Publish, TypeOK, Request, Posting
  <2>3. fate[r.conv][r.turn] = "unsent"
    BY <2>2 DEF TurnInv
  <2>4. \A c \in Conv, n \in Turn :
          ~(c = r.conv /\ n = r.turn) => fate'[c][n] = fate[c][n]
    BY <1>q, <2>1, <2>2 DEF Publish
  <2> QED BY <2>2, <2>3, <2>4 DEF Handed, TurnInv
<1>3. CASE Deliver
  <2>1. UNCHANGED fate /\ tasks \subseteq tasks'
    BY <1>3 DEF Deliver
  <2> QED BY <2>1 DEF Handed
<1>4. ASSUME NEW t \in tasks, TaskStep(t) \/ GraphFails(t),
             NEW c \in Conv, NEW n \in Turn
      PROVE  /\ Handed(c, n) => Handed(c, n)'
             /\ fate[c][n] = "processed" => fate'[c][n] = "processed"
  <2>1. CASE UNCHANGED fate /\ \E u : /\ Becomes(t, u) /\ u.event = t.event
                                      /\ Handing(t) => Handing(u)
    BY <2>1 DEF Handed, Becomes
  <2>2. CASE \/ Finishes(t, "processed") /\ ~Handing(t)
             \/ Finishes(t, "accepted")
    <3>1. /\ tasks' = tasks \ {t}
          /\ ~(c = t.event.conv /\ n = t.event.turn) => fate'[c][n] = fate[c][n]
          /\ fate[t.event.conv][t.event.turn] = "published"
      BY <1>k, <1>q, <2>2 DEF Finishes, TurnInv
    <3>2. fate'[t.event.conv][t.event.turn] = "accepted" \/ ~Handing(t)
      BY <1>k, <1>q, <2>2 DEF Finishes
    <3> QED BY <3>1, <3>2 DEF Handed
  <2> QED BY <1>4, <2>1, <2>2, TaskHands
<1>5. CASE TicketDeliver \/ \E j \in jobs : JobStep(j) \/ TicketGraphFails(j)
  BY <1>1, <1>5 DEF brokerVars, TicketDeliver, JobStep, TicketLoad, TicketCreate,
                    TicketReply, TicketAck, TicketGraphFails
<1> QED BY <1>1, <1>2, <1>3, <1>4, <1>5, ReliableSteps

(* A task that publishes an accept event was not left to the ticket-agent, *)
(* so there is no accept event of its turn yet.                            *)
LEMMA NotYetHanded ==
  ASSUME TypeOK, TurnInv, AcceptInv, NEW t \in tasks, ~Handing(t)
  PROVE  LET c == t.event.conv
             n == t.event.turn
         IN  /\ c \in Conv /\ n \in Turn
             /\ ~Handed(c, n)
             /\ ~Has(acceptQueue, c, n)
             /\ \A j \in jobs : ~(j.event.conv = c /\ j.event.turn = n)
<1> DEFINE c == t.event.conv
           n == t.event.turn
<1>1. c \in Conv /\ n \in Turn
  BY DEF TypeOK, Task, ChatEvent
<1>2. ~Handed(c, n)
  BY DEF TurnInv, Handed
<1>3. ~Has(acceptQueue, c, n)
  BY <1>1, <1>2 DEF AcceptInv
<1>4. \A j \in jobs : ~(j.event.conv = c /\ j.event.turn = n)
  BY <1>2 DEF AcceptInv
<1> QED BY <1>1, <1>2, <1>3, <1>4

(* There is one accept event for a turn, and only when it was left to the  *)
(* ticket-agent.                                                           *)
LEMMA AcceptStep ==
  ASSUME Reliable, TypeOK, TypeOK', OneJob, TurnInv, AcceptInv, [Next]_vars
  PROVE  AcceptInv'
<1>q. acceptQueue \in Seq(AcceptEvent)
  BY DEF TypeOK
<1>j. /\ \A j \in jobs : j.event.conv \in Conv /\ j.event.turn \in Turn
      /\ \A j \in jobs' : j.event.conv \in Conv /\ j.event.turn \in Turn
  BY DEF TypeOK, Job, AcceptEvent
<1>h. \A c \in Conv, n \in Turn : Handed(c, n) => Handed(c, n)'
  BY FateStep
<1>1. CASE UNCHANGED <<acceptQueue, jobs>>
  <2>1. \A c, n : Has(acceptQueue, c, n)' <=> Has(acceptQueue, c, n)
    BY <1>1 DEF Has
  <2>2. Distinct(acceptQueue)'
    BY <1>1 DEF AcceptInv, Distinct
  <2> QED BY <1>1, <1>h, <1>j, <2>1, <2>2 DEF AcceptInv
<1>2. ASSUME NEW t \in tasks, TaskStep(t) \/ GraphFails(t)
      PROVE  AcceptInv'
  <2>1. UNCHANGED jobs
    BY <1>2, TaskMoves
  <2>2. CASE UNCHANGED acceptQueue
    BY <1>1, <2>1, <2>2
  <2>3. CASE \E u : /\ Becomes(t, u) /\ u.event = t.event
                    /\ TaskPublish(t) /\ ~Handing(t) /\ Handing(u)
    <3>1. PICK u : /\ Becomes(t, u) /\ u.event = t.event
                   /\ TaskPublish(t) /\ ~Handing(t) /\ Handing(u)
      BY <2>3
    <3>2. CASE UNCHANGED acceptQueue
      BY <2>2, <3>2
    <3>3. CASE \E e \in AcceptEvent : /\ acceptQueue' = Append(acceptQueue, e)
                                      /\ e.conv = t.event.conv
                                      /\ e.turn = t.event.turn
      <4>1. PICK e \in AcceptEvent : /\ acceptQueue' = Append(acceptQueue, e)
                                     /\ e.conv = t.event.conv
                                     /\ e.turn = t.event.turn
        BY <3>3
      <4>2. /\ ~Has(acceptQueue, e.conv, e.turn)
            /\ \A j \in jobs : ~(j.event.conv = e.conv /\ j.event.turn = e.turn)
        BY <3>1, <4>1, NotYetHanded
      <4>3. \A c, n : Has(acceptQueue', c, n) <=>
                        Has(acceptQueue, c, n) \/ (e.conv = c /\ e.turn = n)
        BY <1>q, <4>1, HasAppended
      <4>4. Distinct(acceptQueue')
        BY <1>q, <4>1, <4>2, DistinctAppended DEF AcceptInv
      <4>5. Handed(e.conv, e.turn)'
        BY <3>1, <4>1 DEF Handed, Becomes
      <4>6. \A c \in Conv, n \in Turn : Has(acceptQueue', c, n) =>
              /\ Handed(c, n)'
              /\ \A j \in jobs' : ~(j.event.conv = c /\ j.event.turn = n)
        BY <1>h, <2>1, <4>2, <4>3, <4>5 DEF AcceptInv
      <4>7. \A j \in jobs' : Handed(j.event.conv, j.event.turn)'
        BY <1>h, <1>j, <2>1 DEF AcceptInv
      <4>8. Distinct(acceptQueue)' /\ \A c, n : Has(acceptQueue, c, n)' <=>
                                                  Has(acceptQueue', c, n)
        BY <4>4 DEF Distinct, Has
      <4> QED BY <4>6, <4>7, <4>8 DEF AcceptInv
    <3> QED BY <3>1, <3>2, <3>3, PublishAppends
  <2> QED BY <1>2, <2>2, <2>3, TaskHands
<1>3. CASE TicketDeliver
  <2>0. PICK e : e = Head(acceptQueue)
    OBVIOUS
  <2> DEFINE k == [event |-> e, pc |-> "load", messages |-> << >>, error |-> FALSE]
  <2>1. /\ acceptQueue # << >> /\ acceptQueue' = Tail(acceptQueue)
        /\ jobs' = {k}
    BY <1>3, <2>0 DEF TicketDeliver
  <2>2. k.event = e
    OBVIOUS
  <2>3. e \in AcceptEvent
    BY <1>q, <2>0, <2>1
  <2>4. e.conv \in Conv /\ e.turn \in Turn
    BY <2>3 DEF AcceptEvent
  <2>5. \A c, n : Has(acceptQueue, c, n) <=>
                    Has(Tail(acceptQueue), c, n) \/ (e.conv = c /\ e.turn = n)
    BY <1>q, <2>0, <2>1, HasTaken
  <2>6. Distinct(Tail(acceptQueue)) /\ ~Has(Tail(acceptQueue), e.conv, e.turn)
    BY <1>q, <2>0, <2>1, DistinctTaken DEF AcceptInv
  <2> HIDE DEF k
  <2>7. Handed(e.conv, e.turn)'
    BY <1>h, <2>4, <2>5 DEF AcceptInv
  <2>8. \A c \in Conv, n \in Turn : Has(acceptQueue', c, n) =>
          /\ Handed(c, n)'
          /\ \A j \in jobs' : ~(j.event.conv = c /\ j.event.turn = n)
    BY <1>h, <2>1, <2>2, <2>5, <2>6 DEF AcceptInv
  <2>9. Distinct(acceptQueue)' /\ \A c, n : Has(acceptQueue, c, n)' <=>
                                              Has(acceptQueue', c, n)
    BY <2>1, <2>6 DEF Distinct, Has
  <2>10. \A j \in jobs' : Handed(j.event.conv, j.event.turn)'
    BY <2>1, <2>2, <2>7
  <2> QED BY <2>8, <2>9, <2>10 DEF AcceptInv
<1>4. ASSUME NEW j \in jobs, JobStep(j) \/ TicketGraphFails(j)
      PROVE  AcceptInv'
  <2>1. /\ UNCHANGED acceptQueue
        /\ \A k \in jobs' : \E i \in jobs : k.event = i.event
    BY <1>4, JobMoves DEF JobBecomes
  <2>2. Distinct(acceptQueue)' /\ \A c, n : Has(acceptQueue, c, n)' <=>
                                              Has(acceptQueue, c, n)
    BY <2>1 DEF AcceptInv, Distinct, Has
  <2>3. \A c \in Conv, n \in Turn : Has(acceptQueue, c, n)' =>
          /\ Handed(c, n)'
          /\ \A k \in jobs' : ~(k.event.conv = c /\ k.event.turn = n)
    BY <1>h, <2>1, <2>2 DEF AcceptInv
  <2>4. \A k \in jobs' : Handed(k.event.conv, k.event.turn)'
    BY <1>h, <1>j, <2>1 DEF AcceptInv
  <2> QED BY <2>2, <2>3, <2>4 DEF AcceptInv
<1>5. CASE (\E r \in requests : Publish(r)) \/ Deliver
  BY <1>1, <1>5 DEF Publish, Deliver
<1> QED BY <1>1, <1>2, <1>3, <1>4, <1>5, ReliableSteps

(* A turn that is done stays done.                                         *)
LEMMA DoneStep ==
  ASSUME Reliable, TypeOK, OneJob, TurnInv, AcceptInv, [Next]_vars, NEW c \in Conv
  PROVE  DoneTurns(c) \subseteq DoneTurns(c)'
<1> SUFFICES ASSUME NEW n \in Turn, Done(c, n) PROVE Done(c, n)'
  BY DEF DoneTurns
<1>q. acceptQueue \in Seq(AcceptEvent)
  BY DEF TypeOK
<1>f. /\ Handed(c, n) => Handed(c, n)'
      /\ fate[c][n] = "processed" => fate'[c][n] = "processed"
  BY FateStep
<1>a. CASE fate[c][n] = "processed"
  BY <1>a, <1>f DEF Done
<1>b. CASE Handed(c, n) /\ ~Pending(c, n)
  <2> SUFFICES ~Pending(c, n)'
    BY <1>b, <1>f DEF Done
  <2>f. Pending(c, n)' <=>
          \/ Has(acceptQueue', c, n)
          \/ \E j \in jobs' : j.event.conv = c /\ j.event.turn = n /\ j.pc # "ack"
    BY DEF Pending, Has
  <2>0. /\ ~Has(acceptQueue, c, n)
        /\ \A j \in jobs : ~(j.event.conv = c /\ j.event.turn = n /\ j.pc # "ack")
    BY <1>b, PendingForm
  <2>1. CASE UNCHANGED <<acceptQueue, jobs>>
    BY <2>0, <2>1, <2>f
  <2>2. ASSUME NEW t \in tasks, TaskStep(t) \/ GraphFails(t) PROVE ~Pending(c, n)'
    <3>1. UNCHANGED jobs
      BY <2>2, TaskMoves
    <3>2. CASE UNCHANGED acceptQueue
      BY <2>1, <3>1, <3>2
    <3>3. CASE TaskPublish(t) /\ ~Handing(t)
      <4>1. ~(t.event.conv = c /\ t.event.turn = n)
        BY <1>b, <3>3, NotYetHanded
      <4>2. CASE \E e \in AcceptEvent : /\ acceptQueue' = Append(acceptQueue, e)
                                        /\ e.conv = t.event.conv
                                        /\ e.turn = t.event.turn
        <5>1. ~Has(acceptQueue', c, n)
          BY <1>q, <2>0, <4>1, <4>2, HasAppended
        <5> QED BY <2>0, <2>f, <3>1, <5>1
      <4> QED BY <3>2, <3>3, <4>2, PublishAppends
    <3> QED BY <2>2, <3>2, <3>3, TaskHands
  <2>3. CASE TicketDeliver
    <3> DEFINE e == Head(acceptQueue)
               k == [event |-> e, pc |-> "load", messages |-> << >>, error |-> FALSE]
    <3>1. /\ acceptQueue # << >> /\ acceptQueue' = Tail(acceptQueue)
          /\ jobs' = {k}
      BY <2>3 DEF TicketDeliver
    <3>2. k.event = e
      OBVIOUS
    <3>3. \A d, m : Has(acceptQueue, d, m) <=>
                      Has(Tail(acceptQueue), d, m) \/ (e.conv = d /\ e.turn = m)
      BY <1>q, <3>1, HasTaken
    <3> HIDE DEF k, e
    <3>4. ~Has(acceptQueue', c, n) /\ ~(e.conv = c /\ e.turn = n)
      BY <2>0, <3>1, <3>3
    <3> QED BY <2>f, <3>1, <3>2, <3>4
  <2>4. ASSUME NEW j \in jobs, JobStep(j) \/ TicketGraphFails(j) PROVE ~Pending(c, n)'
    <3>1. UNCHANGED acceptQueue
      BY <2>4, JobMoves
    <3>2. CASE j.pc = "ack" /\ jobs' = jobs \ {j}
      BY <2>0, <2>f, <3>1, <3>2
    <3>3. CASE j.pc # "ack" /\ \E k : JobBecomes(j, k) /\ k.event = j.event
      <4>1. PICK k : JobBecomes(j, k) /\ k.event = j.event
        BY <3>3
      <4>2. ~(j.event.conv = c /\ j.event.turn = n)
        BY <2>0, <3>3
      <4> QED BY <2>0, <2>f, <3>1, <4>1, <4>2 DEF JobBecomes
    <3> QED BY <2>4, <3>2, <3>3, JobMoves
  <2>5. CASE (\E r \in requests : Publish(r)) \/ Deliver
    BY <2>1, <2>5 DEF Publish, Deliver
  <2> QED BY <2>1, <2>2, <2>3, <2>4, <2>5, ReliableSteps
<1> QED BY <1>a, <1>b DEF Done
----------------------------------------------------------------------------
(* No replies fit any turns.                                               *)
LEMMA FitsEmpty == \A D : Fits(<< >>, D)
<1>1. 1 .. Len(<< >>) = {}
  OBVIOUS
<1>2. ReplyIndexes(<< >>) = {}
  BY <1>1 DEF ReplyIndexes
<1> QED BY <1>2 DEF Fits

(* What fits keeps fitting when more turns are done.                       *)
LEMMA FitsMonotone ==
  ASSUME NEW msgs, NEW D, NEW E, D \subseteq E, Fits(msgs, D)
  PROVE  Fits(msgs, E)
BY DEF Fits

(* The replies of a copy to which a message was appended.                  *)
LEMMA ReplyIndexesOfAppend ==
  ASSUME NEW msgs \in Seq(Message), NEW m \in Message
  PROVE  /\ m.kind \in ReplyKinds =>
              ReplyIndexes(Append(msgs, m)) = ReplyIndexes(msgs) \cup {Len(msgs) + 1}
         /\ m.kind \notin ReplyKinds =>
              ReplyIndexes(Append(msgs, m)) = ReplyIndexes(msgs)
         /\ \A i \in ReplyIndexes(msgs) : Append(msgs, m)[i] = msgs[i]
         /\ Append(msgs, m)[Len(msgs) + 1] = m
BY DEF ReplyIndexes

(* A question or a thinking message is no reply.                           *)
LEMMA FitsAppend ==
  ASSUME NEW msgs \in Seq(Message), NEW D, NEW m \in Message,
         m.kind \notin ReplyKinds, Fits(msgs, D)
  PROVE  Fits(Append(msgs, m), D)
<1> DEFINE s == Append(msgs, m)
<1>1. /\ ReplyIndexes(s) = ReplyIndexes(msgs)
      /\ \A i \in ReplyIndexes(msgs) : s[i] = msgs[i]
  BY ReplyIndexesOfAppend
<1> HIDE DEF s
<1>2. Fits(s, D)
  BY <1>1 DEF Fits
<1> QED BY <1>2 DEF s

(* A reply to a turn that was not done goes into a copy that fits.         *)
LEMMA FitsReply ==
  ASSUME NEW msgs \in Seq(Message), NEW D, NEW E, NEW m \in Message,
         m.kind \in ReplyKinds, m.turn \notin D, m.turn \in E, D \subseteq E,
         Fits(msgs, D)
  PROVE  Fits(Append(msgs, m), E)
<1> DEFINE s == Append(msgs, m)
           l == Len(msgs) + 1
<1>1. /\ ReplyIndexes(s) = ReplyIndexes(msgs) \cup {l}
      /\ \A i \in ReplyIndexes(msgs) : s[i] = msgs[i]
      /\ s[l] = m
  BY ReplyIndexesOfAppend
<1> HIDE DEF s, l
<1>2. \A i \in ReplyIndexes(msgs) : s[i].turn \in D /\ s[i].turn # m.turn
  BY <1>1 DEF Fits
<1>3. \A i, j \in ReplyIndexes(s) : s[i].turn = s[j].turn => i = j
  BY <1>1, <1>2 DEF Fits
<1>4. \A i \in ReplyIndexes(s) : s[i].turn \in E
  BY <1>1, <1>2
<1>5. Fits(s, E)
  BY <1>3, <1>4 DEF Fits
<1> QED BY <1>5 DEF s

(* The ticket-agent's re-serialised messages fit as before.                *)
LEMMA FitsWithoutNodes ==
  ASSUME NEW msgs \in Seq(Message), NEW D, Fits(msgs, D)
  PROVE  Fits(WithoutNodes(msgs), D)
<1> DEFINE w == WithoutNodes(msgs)
<1>1. Len(msgs) \in Nat /\ \A i \in 1 .. Len(msgs) : msgs[i] \in Message
  OBVIOUS
<1>2. \A i \in 1 .. Len(msgs) : w[i] = [msgs[i] EXCEPT !.node = "none"]
  BY DEF WithoutNodes
<1>3. \A i \in 1 .. Len(msgs) : w[i].kind = msgs[i].kind /\ w[i].turn = msgs[i].turn
  BY <1>1, <1>2 DEF Message
<1>4. Len(w) = Len(msgs)
  BY <1>1 DEF WithoutNodes
<1> HIDE DEF w
<1>5. /\ ReplyIndexes(w) = ReplyIndexes(msgs)
      /\ ReplyIndexes(msgs) \subseteq 1 .. Len(msgs)
  BY <1>3, <1>4 DEF ReplyIndexes
<1>6. Fits(w, D)
  BY <1>3, <1>5 DEF Fits
<1> QED BY <1>6 DEF w
----------------------------------------------------------------------------
(* A step that gives no reply: every copy fits what was done before it.    *)
StillFit ==
  /\ \A c \in Conv : /\ Fits(redis'[c].messages, DoneTurns(c))
                     /\ Fits(db'[c].messages, DoneTurns(c))
  /\ \A r \in requests' : Fits(r.messages, DoneTurns(r.conv))
  /\ \A t \in tasks' : Fits(t.messages, DoneTurns(t.event.conv))
  /\ \A j \in jobs' : Fits(j.messages, DoneTurns(j.event.conv))

(* Turns stay done, so those copies fit what is done after the step.       *)
LEMMA StillFits ==
  ASSUME TypeOK', StillFit, \A c \in Conv : DoneTurns(c) \subseteq DoneTurns(c)'
  PROVE  CopiesFit'
<1>1. /\ \A r \in requests' : r.conv \in Conv
      /\ \A t \in tasks' : t.event.conv \in Conv
      /\ \A j \in jobs' : j.event.conv \in Conv
  BY DEF TypeOK, Request, Task, ChatEvent, Job, AcceptEvent
<1>2. ASSUME NEW c \in Conv
      PROVE  /\ Fits(redis'[c].messages, DoneTurns(c)')
             /\ Fits(db'[c].messages, DoneTurns(c)')
  BY FitsMonotone DEF StillFit
<1>3. ASSUME NEW r \in requests' PROVE Fits(r.messages, DoneTurns(r.conv)')
  BY <1>1, FitsMonotone DEF StillFit
<1>4. ASSUME NEW t \in tasks' PROVE Fits(t.messages, DoneTurns(t.event.conv)')
  BY <1>1, FitsMonotone DEF StillFit
<1>5. ASSUME NEW j \in jobs' PROVE Fits(j.messages, DoneTurns(j.event.conv)')
  BY <1>1, FitsMonotone DEF StillFit
<1> QED BY <1>2, <1>3, <1>4, <1>5 DEF CopiesFit

(* Copies in K: what is true of every copy of a conversation, wherever it  *)
(* is held, as the set K[c] of the messages it is true of.  A step that    *)
(* gives no reply keeps the copies in K when K holds the empty copy and is *)
(* closed under appending a question, and holds what the tasks' thinking   *)
(* makes of their copies.                                                  *)
CopiesIn(K) ==
  /\ \A c \in Conv : redis[c].messages \in K[c] /\ db[c].messages \in K[c]
  /\ \A r \in requests : r.messages \in K[r.conv]
  /\ \A t \in tasks : t.messages \in K[t.event.conv]
  /\ \A j \in jobs : j.messages \in K[j.event.conv]

Closed(K) ==
  /\ \A c \in Conv : /\ << >> \in K[c]
                     /\ \A msgs \in K[c], n \in Turn : Append(msgs, Ask(n)) \in K[c]
  /\ \A t \in tasks, node \in Nodes :
       t.pc # "load" => Append(t.messages, Thinking(node, t.event.turn))
                          \in K[t.event.conv]

StillIn(K) ==
  /\ \A c \in Conv : redis'[c].messages \in K[c] /\ db'[c].messages \in K[c]
  /\ \A r \in requests' : r.messages \in K[r.conv]
  /\ \A t \in tasks' : t.messages \in K[t.event.conv]
  /\ \A j \in jobs' : j.messages \in K[j.event.conv]

(* A property that no message but a reply can break is one of those.       *)
LEMMA GenerallyClosed ==
  ASSUME TypeOK, NEW K, CopiesIn(K),
         \A c \in Conv : /\ << >> \in K[c]
                        /\ \A msgs \in K[c], m \in Message :
                             m.kind \notin ReplyKinds => Append(msgs, m) \in K[c]
  PROVE  Closed(K)
<1>1. ASSUME NEW n \in Turn
      PROVE  /\ Ask(n) \in Message /\ Ask(n).kind \notin ReplyKinds
             /\ \A node \in Nodes : /\ Thinking(node, n) \in Message
                                    /\ Thinking(node, n).kind \notin ReplyKinds
  BY MessageTypes DEF Ask, Thinking, ReplyKinds
<1>2. \A t \in tasks : /\ t.event.conv \in Conv /\ t.event.turn \in Turn
                       /\ t.messages \in K[t.event.conv]
  BY DEF TypeOK, Task, ChatEvent, CopiesIn
<1> QED BY <1>1, <1>2 DEF Closed

(* A SET writes one copy.                                                  *)
LEMMA SetCopies ==
  ASSUME TypeOK, NEW K, CopiesIn(K), NEW c \in Conv, NEW msgs, NEW status,
         NEW ttl, SetChat(c, msgs, status, ttl), msgs \in K[c]
  PROVE  \A d \in Conv : redis'[d].messages \in K[d]
<1>1. /\ \A d \in Conv : d # c => redis'[d] = redis[d]
      /\ redis'[c].messages = msgs
  BY DEF SetChat, TypeOK
<1> QED BY <1>1 DEF CopiesIn
----------------------------------------------------------------------------
(* The backend copies, and appends questions.                              *)
LEMMA BackendCopies ==
  ASSUME TypeOK, NEW K, Closed(K), CopiesIn(K), NEW r \in requests, BackendStep(r)
  PROVE  StillIn(K)
<1> USE DEF storeVars, brokerVars, userVars
<1>r. r \in Request /\ r.conv \in Conv /\ r.messages \in Seq(Message)
  BY OrderTypes DEF TypeOK
<1>o. /\ r.messages \in K[r.conv]
      /\ redis[r.conv].messages \in K[r.conv]
      /\ db[r.conv].messages \in K[r.conv]
  BY <1>r DEF CopiesIn
<1>c. \A c \in Conv : << >> \in K[c]
  BY DEF Closed
<1>f. /\ UNCHANGED redis => \A c \in Conv : redis'[c].messages \in K[c]
      /\ UNCHANGED db => \A c \in Conv : db'[c].messages \in K[c]
      /\ UNCHANGED tasks => \A t \in tasks' : t.messages \in K[t.event.conv]
      /\ UNCHANGED jobs => \A j \in jobs' : j.messages \in K[j.event.conv]
  BY DEF CopiesIn
<1>e. ASSUME requests' = requests \ {r}
      PROVE  \A q \in requests' : q.messages \in K[q.conv]
  BY <1>e DEF CopiesIn
<1>s. ASSUME NEW pc, NEW msgs, Step(r, pc, msgs), msgs \in K[r.conv]
      PROVE  \A q \in requests' : q.messages \in K[q.conv]
  <2> DEFINE u == [r EXCEPT !.pc = pc, !.messages = msgs]
  <2>1. u.conv = r.conv /\ u.messages = msgs
    BY <1>r DEF Request
  <2>2. requests' = (requests \ {r}) \cup {u}
    BY <1>s DEF Step
  <2> HIDE DEF u
  <2> QED BY <1>s, <2>1, <2>2 DEF CopiesIn
<1>m. ASSUME Persist(r)
      PROVE  \A c \in Conv : db'[c].messages \in K[c]
  <2>1. \A c \in Conv : \/ db'[c].messages = db[c].messages
                        \/ c = r.conv /\ db'[c].messages = r.messages
    BY <1>r, <1>m DEF Persist, TypeOK, Row
  <2> QED BY <1>o, <2>1 DEF CopiesIn
<1>a. ASSUME NEW msgs \in Seq(Message), NEW n \in Turn, msgs \in K[r.conv]
      PROVE  Append(msgs, Ask(n)) \in K[r.conv]
  BY <1>a, <1>r DEF Closed
<1>1. CASE NewInsert(r)
  <2>1. /\ Step(r, "set", << >>) /\ UNCHANGED <<redis, tasks, jobs>>
        /\ r.turn \in Turn
    BY <1>1, <1>r DEF NewInsert, Request
  <2>2. <<Ask(r.turn)>> \in K[r.conv]
    <3>1. << >> \in Seq(Message) /\ Append(<< >>, Ask(r.turn)) = <<Ask(r.turn)>>
      OBVIOUS
    <3>2. Append(<< >>, Ask(r.turn)) \in K[r.conv]
      BY <1>a, <1>c, <1>r, <2>1, <3>1
    <3> QED BY <3>1, <3>2
  <2>3. \A c \in Conv : \/ db'[c] = db[c]
                        \/ c = r.conv /\ db'[c].messages = <<Ask(r.turn)>>
    BY <1>1, <1>r DEF NewInsert, FirstRow, TypeOK
  <2>4. \A c \in Conv : db'[c].messages \in K[c]
    BY <2>2, <2>3 DEF CopiesIn
  <2> QED BY <1>c, <1>r, <1>f, <1>s, <2>1, <2>4 DEF StillIn
<1>2. CASE ContinueGet(r)
  <2>1. UNCHANGED <<redis, db, tasks, jobs>>
    BY <1>2 DEF ContinueGet
  <2>2. \E pc \in {"set", "find"}, msgs \in {redis[r.conv].messages, << >>} :
          Step(r, pc, msgs)
    BY <1>2 DEF ContinueGet
  <2> QED BY <1>c, <1>r, <1>f, <1>o, <1>s, <2>1, <2>2 DEF StillIn
<1>3. CASE ContinueFind(r)
  <2>1. /\ UNCHANGED <<redis, db, tasks, jobs>>
        /\ \/ Step(r, "set", db[r.conv].messages)
           \/ requests' = requests \ {r}
    BY <1>3 DEF ContinueFind, Responds, Ends
  <2> QED BY <1>e, <1>f, <1>o, <1>s, <2>1 DEF StillIn
<1>4. CASE SetThinking(r)
  <2>1. /\ Step(r, "publish", r.messages) /\ UNCHANGED <<db, tasks, jobs>>
        /\ SetChat(r.conv, Asked(r), "isThinking", TRUE)
        /\ r.turn \in Turn
    BY <1>4, <1>r DEF SetThinking, Request
  <2>2. Asked(r) \in K[r.conv]
    BY <1>a, <1>o, <1>r, <2>1 DEF Asked
  <2>3. \A c \in Conv : redis'[c].messages \in K[c]
    BY <1>r, <2>1, <2>2, SetCopies
  <2> QED BY <1>f, <1>o, <1>s, <2>1, <2>3 DEF StillIn
<1>5. CASE Publish(r)
  <2>1. requests' = requests \ {r} /\ UNCHANGED <<redis, db, tasks, jobs>>
    BY <1>5 DEF Publish, Responds, Ends
  <2> QED BY <1>e, <1>f, <2>1 DEF StillIn
<1>6. CASE StopGet(r) \/ GetRead(r)
  <2>1. /\ UNCHANGED <<redis, db, tasks, jobs>>
        /\ \/ requests' = requests \ {r}
           \/ \E pc : Step(r, pc, redis[r.conv].messages)
    BY <1>6 DEF StopGet, GetRead, Ends
  <2> QED BY <1>e, <1>f, <1>o, <1>s, <2>1 DEF StillIn
<1>7. CASE StopSave(r)
  <2>1. /\ Persist(r) /\ Step(r, "del", r.messages)
        /\ UNCHANGED <<redis, tasks, jobs>>
    BY <1>7 DEF StopSave
  <2> QED BY <1>f, <1>m, <1>o, <1>s, <2>1 DEF StillIn
<1>8. CASE StopDel(r)
  <2>1. requests' = requests \ {r} /\ UNCHANGED <<db, tasks, jobs>>
    BY <1>8 DEF StopDel, Ends
  <2>2. \A c \in Conv : redis'[c] = redis[c] \/ redis'[c].messages = << >>
    BY <1>8, <1>r DEF StopDel, NoChat, TypeOK
  <2>3. \A c \in Conv : redis'[c].messages \in K[c]
    BY <1>c, <2>2 DEF CopiesIn
  <2> QED BY <1>e, <1>f, <2>1, <2>3 DEF StillIn
<1>9. CASE GetUpdate(r)
  <2>1. /\ Persist(r) /\ requests' = requests \ {r}
        /\ UNCHANGED <<redis, tasks, jobs>>
    BY <1>9 DEF GetUpdate, Ends
  <2> QED BY <1>e, <1>f, <1>m, <2>1 DEF StillIn
<1> QED BY <1>1, <1>2, <1>3, <1>4, <1>5, <1>6, <1>7, <1>8, <1>9 DEF BackendStep

(* One pass of the astream loop appends a thinking message.                *)
LEMMA ThinkAloudCopies ==
  ASSUME TypeOK, NEW K, Closed(K), CopiesIn(K), NEW t \in tasks, NEW node \in Nodes,
         NEW next \in Task, next.event = t.event, ThinkAloud(t, node, next),
         t.pc # "load", UNCHANGED <<db, requests, jobs>>
  PROVE  StillIn(K)
<1> DEFINE msgs == Append(t.messages, Thinking(node, t.event.turn))
           good == [next EXCEPT !.messages = msgs]
           bad  == [next EXCEPT !.messages = msgs, !.pc = "settle", !.error = TRUE]
<1>1. t.event.conv \in Conv /\ t.event.turn \in Turn /\ t.messages \in Seq(Message)
  BY DEF TypeOK, Task, ChatEvent
<1>2. msgs \in K[t.event.conv]
  BY DEF Closed
<1>3. /\ good.event = t.event /\ good.messages = msgs
      /\ bad.event = t.event /\ bad.messages = msgs
  BY DEF Task
<1>4. /\ SetChat(t.event.conv, msgs, "isThinking", FALSE) \/ UNCHANGED redis
      /\ Becomes(t, good) \/ Becomes(t, bad)
  BY DEF ThinkAloud
<1> HIDE DEF msgs, good, bad
<1>5. \A c \in Conv : redis'[c].messages \in K[c]
  BY <1>1, <1>2, <1>4, SetCopies DEF CopiesIn
<1>6. \A u \in tasks' : u.messages \in K[u.event.conv]
  BY <1>2, <1>3, <1>4 DEF Becomes, CopiesIn
<1> QED BY <1>5, <1>6 DEF StillIn, CopiesIn

(* Before its reply a task does no more than that.                         *)
LEMMA TaskCopies ==
  ASSUME TypeOK, NEW K, Closed(K), CopiesIn(K), NEW t \in tasks,
         TaskStep(t) \/ GraphFails(t) \/ TaskFails(t), ~TaskReply(t)
  PROVE  StillIn(K)
<1> USE DEF storeVars, brokerVars, userVars
<1>t. /\ t \in Task /\ t.event.conv \in Conv /\ t.event.turn \in Turn
      /\ t.messages \in Seq(Message)
  BY DEF TypeOK, Task, ChatEvent
<1>o. /\ t.messages \in K[t.event.conv]
      /\ redis[t.event.conv].messages \in K[t.event.conv]
  BY <1>t DEF CopiesIn
<1>b. ASSUME NEW u, Becomes(t, u), u.event = t.event,
             u.messages \in {t.messages, redis[t.event.conv].messages},
             \A c \in Conv : redis'[c].messages \in K[c],
             UNCHANGED <<db, requests, jobs>>
      PROVE  StillIn(K)
  <2>1. \A v \in tasks' : v.messages \in K[v.event.conv]
    BY <1>b, <1>o DEF Becomes, CopiesIn
  <2> QED BY <1>b, <2>1 DEF StillIn, CopiesIn
<1>f. ASSUME tasks' = tasks \ {t}, UNCHANGED <<redis, db, requests, jobs>>
      PROVE  StillIn(K)
  BY <1>f DEF StillIn, CopiesIn
<1>u. UNCHANGED redis => \A c \in Conv : redis'[c].messages \in K[c]
  BY DEF CopiesIn
<1>1. CASE TaskLoad(t)
  <2>1. UNCHANGED <<redis, db, requests, jobs>>
    BY <1>1 DEF TaskLoad
  <2>2. CASE redis[t.event.conv].here
    <3> DEFINE u == [t EXCEPT !.pc = "mark",
                              !.messages = redis[t.event.conv].messages]
    <3>1. u.event = t.event /\ u.messages = redis[t.event.conv].messages
      BY <1>t DEF Task
    <3>2. Becomes(t, u)
      BY <1>1, <2>2 DEF TaskLoad
    <3> HIDE DEF u
    <3> QED BY <1>b, <1>u, <2>1, <3>1, <3>2
  <2>3. CASE ~redis[t.event.conv].here
    BY <1>1, <1>f, <2>1, <2>3 DEF TaskLoad, Finishes
  <2> QED BY <2>2, <2>3
<1>2. CASE TaskMark(t)
  <2>1. \A c \in Conv : redis'[c].messages \in K[c]
    BY <1>2, <1>o, <1>t, SetCopies DEF TaskMark
  <2> DEFINE u == [t EXCEPT !.pc = "intent"]
  <2>2. u.event = t.event /\ u.messages = t.messages
    BY <1>t DEF Task
  <2>3. Becomes(t, u) /\ UNCHANGED <<db, requests, jobs>>
    BY <1>2 DEF TaskMark
  <2> HIDE DEF u
  <2> QED BY <1>b, <2>1, <2>2, <2>3
<1>3. CASE TaskIntent(t)
  <2>1. PICK i \in Intents \ {"accept"} :
          ThinkAloud(t, "intent_node",
            [t EXCEPT !.intent = i,
                      !.prior = IF i = "refine" THEN LatestPlan(t.event.history)
                                                ELSE {},
                      !.pc = IF i = "undefined" THEN "settle" ELSE "work"])
    BY <1>3 DEF TaskIntent
  <2> DEFINE next == [t EXCEPT !.intent = i,
                      !.prior = IF i = "refine" THEN LatestPlan(t.event.history)
                                                ELSE {},
                      !.pc = IF i = "undefined" THEN "settle" ELSE "work"]
  <2>2. next \in Task /\ next.event = t.event
    <3>1. LatestPlan(t.event.history) \in SUBSET Message
      BY <1>t, LatestPlanType DEF Task, ChatEvent
    <3> QED BY <1>t, <3>1, ChatAssumption DEF Task
  <2>3. ThinkAloud(t, "intent_node", next)
    BY <2>1
  <2>4. "intent_node" \in Nodes /\ t.pc # "load" /\ UNCHANGED <<db, requests, jobs>>
    BY <1>3 DEF TaskIntent, Nodes
  <2> HIDE DEF next
  <2> QED BY <2>2, <2>3, <2>4, ThinkAloudCopies
<1>4. CASE TaskAccept(t)
  <2> DEFINE u == [t EXCEPT !.pc = IF LatestPlan(t.event.history) = {}
                                     THEN "note" ELSE "publish"]
  <2>1. u.event = t.event /\ u.messages = t.messages
    BY <1>t DEF Task
  <2>2. Becomes(t, u) /\ UNCHANGED <<redis, db, requests, jobs>>
    BY <1>4 DEF TaskAccept
  <2> HIDE DEF u
  <2> QED BY <1>b, <1>u, <2>1, <2>2
<1>5. CASE TaskPublish(t) \/ GraphFails(t)
  <2> DEFINE u == [t EXCEPT !.pc = "note"]
             v == [t EXCEPT !.pc = "settle", !.error = TRUE]
  <2>1. /\ u.event = t.event /\ u.messages = t.messages
        /\ v.event = t.event /\ v.messages = t.messages
    BY <1>t DEF Task
  <2>2. /\ Becomes(t, u) \/ Becomes(t, v)
        /\ UNCHANGED <<redis, db, requests, jobs>>
    BY <1>5 DEF TaskPublish, GraphFails
  <2> HIDE DEF u, v
  <2> QED BY <1>b, <1>u, <2>1, <2>2
<1>6. CASE TaskNote(t)
  <2> DEFINE next == [t EXCEPT !.intent = "accept", !.pc = "settle"]
  <2>1. next \in Task /\ next.event = t.event
    BY <1>t DEF Task, IntentKinds
  <2>2. /\ "intent_node" \in Nodes /\ ThinkAloud(t, "intent_node", next)
        /\ t.pc # "load" /\ UNCHANGED <<db, requests, jobs>>
    BY <1>6 DEF TaskNote, Nodes
  <2> HIDE DEF next
  <2> QED BY <2>1, <2>2, ThinkAloudCopies
<1>7. CASE TaskWork(t)
  <2>1. PICK last \in BOOLEAN :
          ThinkAloud(t, IF last THEN "reply_node" ELSE "work_node",
                     [t EXCEPT !.updates = @ + 1,
                               !.pc = IF last THEN "settle" ELSE "work"])
    BY <1>7 DEF TaskWork
  <2> DEFINE next == [t EXCEPT !.updates = @ + 1,
                               !.pc = IF last THEN "settle" ELSE "work"]
             node == IF last THEN "reply_node" ELSE "work_node"
  <2>2. next \in Task /\ next.event = t.event
    <3>1. t.updates + 1 \in Nat
      BY <1>t DEF Task
    <3>2. ASSUME NEW n \in Nat
          PROVE  /\ [t EXCEPT !.updates = n, !.pc = "settle"] \in Task
                 /\ [t EXCEPT !.updates = n, !.pc = "work"] \in Task
      BY <1>t DEF Task
    <3>3. next.event = t.event
      BY <1>t DEF Task
    <3>4. CASE last
      BY <3>1, <3>2, <3>3, <3>4
    <3>5. CASE ~last
      BY <3>1, <3>2, <3>3, <3>5
    <3> QED BY <3>4, <3>5
  <2>3. ThinkAloud(t, node, next)
    BY <2>1
  <2>4. node \in Nodes /\ t.pc # "load" /\ UNCHANGED <<db, requests, jobs>>
    BY <1>7 DEF TaskWork, Nodes
  <2> HIDE DEF next, node
  <2> QED BY <2>2, <2>3, <2>4, ThinkAloudCopies
<1>8. CASE TaskReturn(t) \/ TaskFails(t)
  BY <1>8, <1>f DEF TaskReturn, TaskFails, Finishes
<1> QED BY <1>1, <1>2, <1>3, <1>4, <1>5, <1>6, <1>7, <1>8 DEF TaskStep

(* Before its reply a job only copies.                                     *)
LEMMA JobCopies ==
  ASSUME TypeOK, NEW K, Closed(K), CopiesIn(K), NEW j \in jobs,
         JobStep(j) \/ TicketGraphFails(j) \/ TicketFails(j), ~TicketReply(j)
  PROVE  StillIn(K)
<1> USE DEF storeVars, brokerVars, userVars
<1>t. j \in Job /\ j.event.conv \in Conv
  BY DEF TypeOK, Job, AcceptEvent
<1>o. /\ j.messages \in K[j.event.conv]
      /\ redis[j.event.conv].messages \in K[j.event.conv]
  BY <1>t DEF CopiesIn
<1>b. ASSUME NEW k, JobBecomes(j, k), k.event = j.event,
             k.messages \in {j.messages, redis[j.event.conv].messages},
             UNCHANGED <<redis, db, requests, tasks>>
      PROVE  StillIn(K)
  <2>1. \A i \in jobs' : i.messages \in K[i.event.conv]
    BY <1>b, <1>o DEF JobBecomes, CopiesIn
  <2> QED BY <1>b, <2>1 DEF StillIn, CopiesIn
<1> DEFINE a == [j EXCEPT !.pc = "ack"]
           k == [j EXCEPT !.pc = "create", !.messages = redis[j.event.conv].messages]
           l == [j EXCEPT !.pc = "reply"]
           m == [j EXCEPT !.pc = "reply", !.error = TRUE]
<1>1. /\ a.event = j.event /\ a.messages = j.messages
      /\ k.event = j.event /\ k.messages = redis[j.event.conv].messages
      /\ l.event = j.event /\ l.messages = j.messages
      /\ m.event = j.event /\ m.messages = j.messages
  BY <1>t DEF Job
<1>2. /\ TicketLoad(j) => /\ JobBecomes(j, k) \/ JobBecomes(j, a)
                          /\ UNCHANGED <<redis, db, requests, tasks>>
      /\ TicketCreate(j) => /\ JobBecomes(j, l)
                            /\ UNCHANGED <<redis, db, requests, tasks>>
      /\ TicketGraphFails(j) => /\ JobBecomes(j, m)
                                /\ UNCHANGED <<redis, db, requests, tasks>>
      /\ TicketFails(j) => /\ JobBecomes(j, a)
                           /\ UNCHANGED <<redis, db, requests, tasks>>
  BY DEF TicketLoad, TicketCreate, TicketGraphFails, TicketFails
<1> HIDE DEF a, k, l, m
<1>3. CASE TicketAck(j)
  BY <1>3 DEF TicketAck, StillIn, CopiesIn
<1> QED BY <1>b, <1>1, <1>2, <1>3 DEF JobStep

(* The queues, the other faults and the user's actions write nothing new.  *)
LEMMA OtherCopies ==
  ASSUME TypeOK, TypeOK', NEW K, Closed(K), CopiesIn(K),
         \/ Deliver \/ Ack \/ TicketDeliver
         \/ BackendCrash \/ ArchitectCrash \/ ConsumerDisconnect \/ TicketCrash
         \/ \E r \in requests : RequestFails(r)
         \/ \E c \in Conv : User(c) \/ ReceiveReply(c) \/ Expire(c)
         \/ UNCHANGED vars
  PROVE  StillIn(K)
<1> USE DEF storeVars, brokerVars, userVars
<1>c. \A c \in Conv : << >> \in K[c]
  BY DEF Closed
<1>v. /\ \A r \in requests' : r \in requests \/ r.conv \in Conv
      /\ \A t \in tasks' : t \in tasks \/ t.event.conv \in Conv
      /\ \A j \in jobs' : j \in jobs \/ j.event.conv \in Conv
  BY DEF TypeOK, Request, Task, Job, ChatEvent, AcceptEvent
<1>1. CASE \/ Deliver \/ Ack \/ TicketDeliver
           \/ BackendCrash \/ ArchitectCrash \/ ConsumerDisconnect \/ TicketCrash
           \/ \E r \in requests : RequestFails(r)
  <2>1. UNCHANGED <<redis, db>> /\ \A r \in requests' : r \in requests
    BY <1>1 DEF Deliver, Ack, TicketDeliver, BackendCrash, ArchitectCrash,
                ConsumerDisconnect, TicketCrash, RequestFails, Responds, Ends
  <2>2. \A t \in tasks' : t \in tasks \/ t.messages = << >>
    BY <1>1 DEF Deliver, NewTask, Ack, TicketDeliver, BackendCrash, ArchitectCrash,
                ConsumerDisconnect, TicketCrash, RequestFails
  <2>3. \A j \in jobs' : j \in jobs \/ j.messages = << >>
    BY <1>1 DEF Deliver, Ack, TicketDeliver, BackendCrash, ArchitectCrash,
                ConsumerDisconnect, TicketCrash, RequestFails
  <2> QED BY <1>c, <1>v, <2>1, <2>2, <2>3 DEF StillIn, CopiesIn
<1>2. ASSUME NEW c \in Conv, User(c) \/ ReceiveReply(c)
      PROVE  StillIn(K)
  <2>1. UNCHANGED <<redis, db, tasks, jobs>>
    BY <1>2 DEF User, SendMessage, OpenChat, Leave, ReceiveReply
  <2>2. \A r \in requests' : r \in requests \/ r.messages = << >>
    BY <1>2 DEF User, SendMessage, OpenChat, Leave, ReceiveReply, Sends
  <2> QED BY <1>c, <1>v, <2>1, <2>2 DEF StillIn, CopiesIn
<1>3. ASSUME NEW c \in Conv, Expire(c)
      PROVE  StillIn(K)
  <2>1. \A d \in Conv : redis'[d] = redis[d] \/ redis'[d].messages = << >>
    BY <1>3 DEF Expire, NoChat, TypeOK
  <2>2. UNCHANGED <<db, requests, tasks, jobs>>
    BY <1>3 DEF Expire
  <2> QED BY <1>c, <1>v, <2>1, <2>2 DEF StillIn, CopiesIn
<1>4. CASE UNCHANGED vars
  BY <1>4 DEF vars, StillIn, CopiesIn
<1> QED BY <1>1, <1>2, <1>3, <1>4

(* Hence every step of the system but a reply.                             *)
LEMMA CopySteps ==
  ASSUME TypeOK, TypeOK', NEW K, Closed(K), CopiesIn(K), [Next]_vars
  PROVE  \/ StillIn(K)
         \/ \E t \in tasks : TaskReply(t)
         \/ \E j \in jobs : TicketReply(j)
<1>1. ASSUME NEW t \in tasks, TaskStep(t) \/ GraphFails(t) \/ TaskFails(t)
      PROVE  StillIn(K) \/ TaskReply(t)
  BY <1>1, TaskCopies
<1>2. ASSUME NEW j \in jobs, JobStep(j) \/ TicketGraphFails(j) \/ TicketFails(j)
      PROVE  StillIn(K) \/ TicketReply(j)
  BY <1>2, JobCopies
<1>3. CASE Fault
  BY <1>1, <1>2, <1>3, OtherCopies DEF Fault
<1>4. CASE System
  BY <1>1, <1>2, <1>4, OtherCopies, BackendCopies DEF System
<1>5. CASE (\E c \in Conv : User(c)) \/ UNCHANGED vars
  BY <1>5, OtherCopies
<1> QED BY <1>3, <1>4, <1>5 DEF Next
----------------------------------------------------------------------------
(* A SET that adds the reply to a turn which becomes done with it.         *)
LEMMA ReplyFits ==
  ASSUME TypeOK, TypeOK', CopiesFit, NEW c \in Conv, NEW msgs, NEW status, NEW ttl,
         SetChat(c, msgs, status, ttl), Fits(msgs, DoneTurns(c)'),
         \A d \in Conv : DoneTurns(d) \subseteq DoneTurns(d)',
         UNCHANGED <<db, requests>>,
         \A t \in tasks' : t \in tasks,
         \A j \in jobs' : \E i \in jobs : i.event = j.event /\ i.messages = j.messages
  PROVE  CopiesFit'
<1>1. /\ \A d \in Conv : d # c => redis'[d] = redis[d]
      /\ redis'[c].messages = msgs
  BY DEF SetChat, TypeOK
<1>2. /\ \A r \in requests' : r.conv \in Conv
      /\ \A t \in tasks' : t.event.conv \in Conv
      /\ \A j \in jobs' : j.event.conv \in Conv
  BY DEF TypeOK, Request, Task, ChatEvent, Job, AcceptEvent
<1>3. ASSUME NEW d \in Conv
      PROVE  /\ Fits(redis'[d].messages, DoneTurns(d)')
             /\ Fits(db'[d].messages, DoneTurns(d)')
  BY <1>1, FitsMonotone DEF CopiesFit
<1>4. ASSUME NEW r \in requests' PROVE Fits(r.messages, DoneTurns(r.conv)')
  BY <1>2, FitsMonotone DEF CopiesFit
<1>5. ASSUME NEW t \in tasks' PROVE Fits(t.messages, DoneTurns(t.event.conv)')
  BY <1>2, FitsMonotone DEF CopiesFit
<1>6. ASSUME NEW j \in jobs' PROVE Fits(j.messages, DoneTurns(j.event.conv)')
  BY <1>2, FitsMonotone DEF CopiesFit
<1> QED BY <1>3, <1>4, <1>5, <1>6 DEF CopiesFit

(* The architect-agent's reply: its turn was published and not left to the *)
(* ticket-agent, so no copy holds a reply to it.                           *)
LEMMA TaskReplyFits ==
  ASSUME TypeOK, TypeOK', TurnInv, AcceptInv, CopiesFit,
         NEW t \in tasks, TaskReply(t),
         \A d \in Conv : DoneTurns(d) \subseteq DoneTurns(d)'
  PROVE  CopiesFit'
<1> USE DEF brokerVars
<1>0. PICK c, n : c = t.event.conv /\ n = t.event.turn
  OBVIOUS
<1>t. t \in Task /\ c \in Conv /\ n \in Turn /\ t.messages \in Seq(Message)
  BY <1>0 DEF TypeOK, Task, ChatEvent
<1>1. ~Handing(t)
  BY DEF TaskReply, Replies, Handing
<1>2. fate[c][n] = "published" /\ ~Handed(c, n)
  BY <1>0, <1>1, NotYetHanded DEF TurnInv
<1>3. n \notin DoneTurns(c)
  BY <1>2 DEF DoneTurns, Done
<1>4. n \in DoneTurns(c)'
  <2>1. fate'[c][n] = "processed"
    BY <1>0, <1>t DEF TaskReply, Finishes, TypeOK
  <2> QED BY <1>t, <2>1 DEF DoneTurns, Done
<1>5. /\ ReplyOf(t) \in Message /\ ReplyOf(t).kind \in ReplyKinds
      /\ ReplyOf(t).turn = n
  BY <1>0, <1>t, MessageTypes DEF ReplyOf, Reply, ReplyKinds, Nodes
<1>6. Fits(t.messages, DoneTurns(c))
  BY <1>0 DEF CopiesFit
<1>7. Fits(Append(t.messages, ReplyOf(t)), DoneTurns(c)')
  BY <1>t, <1>3, <1>4, <1>5, <1>6, FitsReply
<1>8. /\ SetChat(c, Append(t.messages, ReplyOf(t)), "hasReplied", FALSE)
      /\ UNCHANGED <<db, requests, jobs>> /\ \A u \in tasks' : u \in tasks
  BY <1>0 DEF TaskReply, Finishes
<1> QED BY <1>t, <1>7, <1>8, ReplyFits

(* The ticket-agent's reply: its turn was handed to it, so the other agent *)
(* never answers it, and there is no second accept event of the turn.      *)
LEMMA TicketReplyFits ==
  ASSUME TypeOK, TypeOK', OneJob, TurnInv, AcceptInv, CopiesFit,
         NEW j \in jobs, TicketReply(j),
         \A d \in Conv : DoneTurns(d) \subseteq DoneTurns(d)'
  PROVE  CopiesFit'
<1> USE DEF brokerVars
<1>0. PICK c, n : c = j.event.conv /\ n = j.event.turn
  OBVIOUS
<1>t. j \in Job /\ c \in Conv /\ n \in Turn /\ j.messages \in Seq(Message)
  BY <1>0 DEF TypeOK, Job, AcceptEvent
<1>1. Handed(c, n) /\ Pending(c, n)
  BY <1>0 DEF AcceptInv, Pending, TicketReply
<1>2. fate[c][n] # "processed"
  BY <1>1 DEF Handed, TurnInv
<1>3. n \notin DoneTurns(c)
  BY <1>1, <1>2 DEF DoneTurns, Done
<1> DEFINE a == [j EXCEPT !.pc = "ack"]
<1>a. a.event = j.event /\ a.messages = j.messages /\ a.pc = "ack"
  BY <1>t DEF Job
<1>4. /\ SetChat(c, Replied(j), "hasReplied", FALSE)
      /\ jobs' = (jobs \ {j}) \cup {a}
      /\ UNCHANGED <<db, requests, tasks, acceptQueue, fate>>
  BY <1>0 DEF TicketReply, JobBecomes
<1> HIDE DEF a
<1>5. n \in DoneTurns(c)'
  <2>1. Handed(c, n)'
    BY <1>1, <1>4 DEF Handed
  <2>2. ~Has(acceptQueue, c, n)
    BY <1>0, <1>t DEF AcceptInv
  <2>3. \A k \in jobs' : k = a
    BY <1>4 DEF OneJob
  <2>4. ~Pending(c, n)'
    BY <1>4, <1>a, <2>2, <2>3 DEF Pending, Has
  <2> QED BY <1>t, <2>1, <2>4 DEF DoneTurns, Done
<1> DEFINE m == Reply(IF j.error THEN "error" ELSE "tickets", "none", j.event.turn)
<1>6. m \in Message /\ m.kind \in ReplyKinds /\ m.turn = n
  BY <1>0, <1>t, MessageTypes DEF Reply, ReplyKinds, Nodes
<1>7. Replied(j) = Append(WithoutNodes(j.messages), m)
  BY DEF Replied
<1> HIDE DEF m
<1>8. /\ WithoutNodes(j.messages) \in Seq(Message)
      /\ Fits(WithoutNodes(j.messages), DoneTurns(c))
  BY <1>0, <1>t, WithoutNodesType, FitsWithoutNodes DEF CopiesFit
<1>9. Fits(Replied(j), DoneTurns(c)')
  BY SMTT(30), <1>t, <1>3, <1>5, <1>6, <1>7, <1>8, FitsReply
<1>10. \A k \in jobs' : \E i \in jobs : i.event = k.event /\ i.messages = k.messages
  BY <1>4, <1>a
<1> QED BY <1>t, <1>4, <1>9, <1>10, ReplyFits

(* The copies that fit, as a set of messages.                              *)
LEMMA FittingCopies ==
  ASSUME TypeOK, CopiesFit
  PROVE  LET K == [c \in Conv |-> {msgs \in Seq(Message) : Fits(msgs, DoneTurns(c))}]
         IN  Closed(K) /\ CopiesIn(K) /\ (TypeOK' /\ StillIn(K) => StillFit)
<1> DEFINE K == [c \in Conv |-> {msgs \in Seq(Message) : Fits(msgs, DoneTurns(c))}]
<1>1. \A c \in Conv : \A msgs : msgs \in K[c] <=>
                        msgs \in Seq(Message) /\ Fits(msgs, DoneTurns(c))
  OBVIOUS
<1> HIDE DEF K
<1>2. CopiesIn(K)
  <2>1. /\ \A c \in Conv : /\ redis[c].messages \in Seq(Message)
                            /\ db[c].messages \in Seq(Message)
        /\ \A r \in requests : r.conv \in Conv /\ r.messages \in Seq(Message)
        /\ \A t \in tasks : t.event.conv \in Conv /\ t.messages \in Seq(Message)
        /\ \A j \in jobs : j.event.conv \in Conv /\ j.messages \in Seq(Message)
    BY OrderTypes DEF TypeOK, Task, Job, ChatEvent, AcceptEvent
  <2> QED BY <1>1, <2>1 DEF CopiesIn, CopiesFit
<1>3. Closed(K)
  <2>1. << >> \in Seq(Message)
    OBVIOUS
  <2>2. \A msgs \in Seq(Message), m \in Message : Append(msgs, m) \in Seq(Message)
    OBVIOUS
  <2> QED BY <1>1, <1>2, <2>1, <2>2, FitsEmpty, FitsAppend, GenerallyClosed
<1>4. ASSUME TypeOK', StillIn(K) PROVE StillFit
  <2>1. /\ \A r \in requests' : r.conv \in Conv
        /\ \A t \in tasks' : t.event.conv \in Conv
        /\ \A j \in jobs' : j.event.conv \in Conv
    BY <1>4 DEF TypeOK, Request, Task, ChatEvent, Job, AcceptEvent
  <2> QED BY <1>1, <1>4, <2>1 DEF StillIn, StillFit
<1> QED BY <1>2, <1>3, <1>4 DEF K

(* CopiesFit is inductive.                                                 *)
LEMMA FitStep ==
  ASSUME Reliable, TypeOK, TypeOK', OneJob, TurnInv, AcceptInv, CopiesFit,
         [Next]_vars
  PROVE  CopiesFit'
<1>d. \A c \in Conv : DoneTurns(c) \subseteq DoneTurns(c)'
  BY DoneStep
<1>1. CASE StillFit
  BY <1>1, <1>d, StillFits
<1>2. ASSUME NEW t \in tasks, TaskReply(t) PROVE CopiesFit'
  BY <1>2, <1>d, TaskReplyFits
<1>3. ASSUME NEW j \in jobs, TicketReply(j) PROVE CopiesFit'
  BY <1>3, <1>d, TicketReplyFits
<1>4. PICK K : Closed(K) /\ CopiesIn(K) /\ (StillIn(K) => StillFit)
  BY FittingCopies
<1> QED BY <1>1, <1>2, <1>3, <1>4, CopySteps

(* What holds of the events, turns and replies of a reliable system.       *)
EventInv == OrderInv /\ OneJob /\ TurnInv /\ AcceptInv /\ CopiesFit

(* It does hold in every state.                                            *)
LEMMA EventsInvariant ==
  ASSUME Reliable
  PROVE  Spec => []EventInv
<1> USE DEF EventInv
<1>1. Init => EventInv
  <2> SUFFICES ASSUME Init PROVE EventInv
    OBVIOUS
  <2>1. OrderInv
    BY OrderInit
  <2>2. /\ OneJob /\ requests = {} /\ tasks = {} /\ jobs = {}
        /\ chatQueue = << >> /\ acceptQueue = << >>
    BY DEF Init, OneJob
  <2>3. \A c \in Conv : /\ \A n \in Turn : fate[c][n] = "unsent"
                        /\ redis[c].messages = << >> /\ db[c].messages = << >>
    BY DEF Init, NoChat, NoRow
  <2>4. TurnInv
    BY <2>2, <2>3, NothingQueued DEF TurnInv
  <2>5. AcceptInv
    BY <2>2, NothingQueued DEF AcceptInv
  <2>6. CopiesFit
    BY <2>2, <2>3, FitsEmpty DEF CopiesFit
  <2> QED BY <2>1, <2>2, <2>4, <2>5, <2>6
<1>2. TypeOK /\ TypeOK' /\ EventInv /\ [Next]_vars => EventInv'
  BY OrderStep, OneJobStep, TurnStep, AcceptStep, FitStep
<1> HIDE DEF EventInv
<1> QED BY <1>1, <1>2, TypeCorrect, PTL DEF Spec

(* As long as no store call fails, no publisher confirm is lost, no process*)
(* dies and no consumer loses its connection (so nothing is redelivered),  *)
(* no copy of a conversation ever holds two replies to one question: on    *)
(* accept the two agents never both answer, however their whole-object     *)
(* writes, the stops and the expiries interleave, and although publishes   *)
(* and the LLM may fail.                                                   *)
THEOREM OneReplyEach ==
  ASSUME Reliable
  PROVE  Spec => []OneReplyPerTurn
<1>1. EventInv => OneReplyPerTurn
  BY DEF EventInv, CopiesFit, Fits, OneReplyPerTurn, HeldMessages
<1> QED BY <1>1, EventsInvariant, PTL
=============================================================================
