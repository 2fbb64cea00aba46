------------------------- MODULE ChatSystemProofs -------------------------
(***************************************************************************)
(* Safety of the composed system for every number of conversations, turns, *)
(* graph updates and faults: type correctness, a conversation row behind   *)
(* every key, a reply at the end of every chat marked hasReplied, and the  *)
(* order of the questions in every copy of a conversation.                 *)
(* Each theorem has one lemma per process, with one step per action.       *)
(***************************************************************************)
EXTENDS ChatSystem, TLAPS, Integers

(* Appending an element of S to a sequence over S gives one.               *)
LEMMA AppendType ==
  ASSUME NEW S, NEW s \in Seq(S), NEW e \in S
  PROVE  Append(s, e) \in Seq(S)
OBVIOUS

(* The three message constructors build messages.                          *)
LEMMA MessageTypes ==
  ASSUME NEW t \in Turn
  PROVE  /\ Ask(t) \in Message
         /\ \A n \in Nodes : Thinking(n, t) \in Message
         /\ \A k \in ReplyKinds, n \in Nodes : Reply(k, n, t) \in Message
BY DEF Ask, Thinking, Reply, Message, Kinds, ReplyKinds, Nodes

(* What the ticket-agent re-serialises (WithoutNodes) is still a sequence  *)
(* of messages.                                                            *)
LEMMA WithoutNodesType ==
  ASSUME NEW msgs \in Seq(Message)
  PROVE  WithoutNodes(msgs) \in Seq(Message)
<1> DEFINE W(i) == [msgs[i] EXCEPT !.node = "none"]
<1>1. Len(msgs) \in Nat /\ \A i \in 1 .. Len(msgs) : msgs[i] \in Message
  OBVIOUS
<1>2. ASSUME NEW m \in Message
      PROVE  [m EXCEPT !.node = "none"] \in Message
  BY DEF Message, Nodes
<1>3. \A i \in 1 .. Len(msgs) : W(i) \in Message
  BY <1>1, <1>2
<1> HIDE DEF W
<1>4. [i \in 1 .. Len(msgs) |-> W(i)] \in Seq(Message)
  BY <1>1, <1>3
<1> QED BY <1>4 DEF WithoutNodes, W

(* What IntentNode finds in a history is a message of it.                  *)
LEMMA LatestPlanType ==
  ASSUME NEW history \in Seq(Message)
  PROVE  LatestPlan(history) \subseteq Message
BY DEF LatestPlan, PlanIndexes

(* What the tab displays is a message of the chat it polled.               *)
LEMMA LatestReplyType ==
  ASSUME NEW msgs \in Seq(Message)
  PROVE  LatestReply(msgs) \subseteq Message
BY DEF LatestReply, ReplyIndexes

(* A SET of well-formed messages leaves well-formed chats in Redis.        *)
LEMMA SetChatType ==
  ASSUME TypeOK, NEW c \in Conv, NEW msgs \in Seq(Message),
         NEW status \in ChatStatus, NEW ttl \in BOOLEAN,
         SetChat(c, msgs, status, ttl)
  PROVE  redis' \in [Conv -> Chat]
BY DEF TypeOK, SetChat, Chat

(* The empty system is well-formed.                                        *)
LEMMA InitType == Init => TypeOK
BY ChatAssumption DEF Init, TypeOK, NoChat, NoRow, Chat, Row, ChatStatus, Fates

(* A handler that moves to its next await stays a request.                 *)
LEMMA StepType ==
  ASSUME TypeOK, NEW r \in requests, NEW pc \in RequestPc,
         NEW msgs \in Seq(Message), Step(r, pc, msgs)
  PROVE  requests' \subseteq Request
BY DEF TypeOK, Step, Request

(* Every step of the backend's handlers keeps the types.                   *)
LEMMA BackendType ==
  ASSUME TypeOK, NEW r \in requests, BackendStep(r)
  PROVE  TypeOK'
<1> USE DEF storeVars, brokerVars, userVars
<1>r. r \in Request /\ r.conv \in Conv /\ r.messages \in Seq(Message)
  BY DEF TypeOK, Request
<1>n. r.op \in {"new", "continue"} => r.turn \in Turn
  BY <1>r DEF Request
<1>q. << >> \in Seq(Message)
  OBVIOUS
<1>e. Ends(r) => requests' \subseteq Request
  BY DEF Ends, TypeOK
<1>1. CASE NewInsert(r)
  <2>1. <<Ask(r.turn)>> \in Seq(Message)
    BY <1>1, <1>n, MessageTypes DEF NewInsert
  <2>2. db' \in [Conv -> Row]
    BY <1>1, <1>r, <2>1 DEF NewInsert, FirstRow, TypeOK, Row
  <2>3. requests' \subseteq Request
    BY <1>1, <1>q, StepType DEF NewInsert, RequestPc
  <2> QED BY <1>1, <2>2, <2>3 DEF NewInsert, TypeOK
<1>2. CASE ContinueGet(r)
  <2>1. redis[r.conv].messages \in Seq(Message)
    BY <1>r DEF TypeOK, Chat
  <2>2. requests' \subseteq Request
    BY <1>2, <1>q, <2>1, StepType DEF ContinueGet, RequestPc
  <2> QED BY <1>2, <2>2 DEF ContinueGet, TypeOK
<1>3. CASE ContinueFind(r)
  <2>1. db[r.conv].messages \in Seq(Message)
    BY <1>r DEF TypeOK, Row
  <2>2. requests' \subseteq Request
    BY <1>3, <1>e, <2>1, StepType DEF ContinueFind, RequestPc, Responds
  <2>3. client' \in [Conv -> {"idle", "sending", "waiting"}]
    BY <1>3 DEF ContinueFind, Responds, TypeOK
  <2> QED BY <1>3, <2>2, <2>3 DEF ContinueFind, TypeOK
<1>4. CASE SetThinking(r)
  <2>1. Asked(r) \in Seq(Message)
    BY <1>4, <1>r, <1>n, MessageTypes DEF SetThinking, Asked
  <2>2. redis' \in [Conv -> Chat]
    BY <1>4, <1>r, <2>1, SetChatType DEF SetThinking, ChatStatus
  <2>3. requests' \subseteq Request
    BY <1>4, <1>r, StepType DEF SetThinking, RequestPc
  <2> QED BY <1>4, <2>2, <2>3 DEF SetThinking, TypeOK
<1>5. CASE Publish(r)
  <2>1. [conv |-> r.conv, turn |-> r.turn, history |-> r.messages,
         delivery |-> 0] \in ChatEvent
    BY <1>5, <1>r, <1>n DEF Publish, ChatEvent
  <2>2. chatQueue' \in Seq(ChatEvent)
    <3>1. chatQueue \in Seq(ChatEvent)
      BY DEF TypeOK
    <3>2. \/ chatQueue' = Append(chatQueue, [conv |-> r.conv, turn |-> r.turn,
                                             history |-> r.messages,
                                             delivery |-> 0])
          \/ chatQueue' = chatQueue
      BY <1>5 DEF Publish
    <3> QED BY <2>1, <3>1, <3>2, AppendType
  <2>3. fate' \in [Conv -> [Turn -> Fates]]
    <3>1. fate \in [Conv -> [Turn -> Fates]]
      BY DEF TypeOK
    <3> QED BY SMTT(30), <1>5, <1>r, <1>n, <3>1 DEF Publish, Fates
  <2>4. faults' \in Nat
    BY <1>5 DEF Publish, Fails, TypeOK
  <2>5. requests' \subseteq Request /\ client' \in [Conv -> {"idle", "sending", "waiting"}]
    BY <1>5, <1>e DEF Publish, Responds, TypeOK
  <2> QED BY <1>5, <2>2, <2>3, <2>4, <2>5 DEF Publish, TypeOK
<1>6. CASE StopGet(r)
  <2>1. redis[r.conv].messages \in Seq(Message)
    BY <1>r DEF TypeOK, Chat
  <2>2. requests' \subseteq Request
    BY <1>6, <1>e, <2>1, StepType DEF StopGet, RequestPc
  <2> QED BY <1>6, <2>2 DEF StopGet, TypeOK
<1>7. CASE StopSave(r)
  <2>1. db' \in [Conv -> Row]
    BY <1>7, <1>r DEF StopSave, Persist, TypeOK, Row
  <2>2. requests' \subseteq Request
    BY <1>7, <1>r, StepType DEF StopSave, RequestPc
  <2> QED BY <1>7, <2>1, <2>2 DEF StopSave, TypeOK
<1>8. CASE StopDel(r)
  <2>1. redis' \in [Conv -> Chat]
    BY <1>8, <1>r DEF StopDel, TypeOK, Chat, NoChat, ChatStatus
  <2> QED BY <1>8, <1>e, <2>1 DEF StopDel, TypeOK
<1>9. CASE GetRead(r)
  <2>1. redis[r.conv].messages \in Seq(Message)
    BY <1>r DEF TypeOK, Chat
  <2>2. requests' \subseteq Request
    BY <1>9, <1>e, <2>1, StepType DEF GetRead, RequestPc
  <2> QED BY <1>9, <2>2 DEF GetRead, TypeOK
<1>10. CASE GetUpdate(r)
  <2>1. db' \in [Conv -> Row]
    BY <1>10, <1>r DEF GetUpdate, Persist, TypeOK, Row
  <2> QED BY <1>10, <1>e, <2>1 DEF GetUpdate, TypeOK
<1> QED
  BY <1>1, <1>2, <1>3, <1>4, <1>5, <1>6, <1>7, <1>8, <1>9, <1>10 DEF BackendStep

(* A task of the architect-agent that takes a step stays a task.           *)
LEMMA BecomesType ==
  ASSUME TypeOK, NEW t \in tasks, NEW u \in Task, Becomes(t, u)
  PROVE  tasks' \subseteq Task
BY DEF TypeOK, Becomes

(* A task that ends leaves tasks and fates well-formed.                    *)
LEMMA FinishesType ==
  ASSUME TypeOK, NEW t \in tasks, NEW outcome \in Fates, Finishes(t, outcome)
  PROVE  /\ tasks' \subseteq Task
         /\ fate' \in [Conv -> [Turn -> Fates]]
<1>1. t.event.conv \in Conv /\ t.event.turn \in Turn
  BY DEF TypeOK, Task, ChatEvent
<1> QED BY <1>1 DEF TypeOK, Finishes

(* One pass of the astream loop (append and save) keeps the types.         *)
LEMMA ThinkAloudType ==
  ASSUME TypeOK, NEW t \in tasks, NEW node \in Nodes, NEW next \in Task,
         ThinkAloud(t, node, next)
  PROVE  /\ redis' \in [Conv -> Chat]
         /\ tasks' \subseteq Task
         /\ faults' \in Nat
<1> DEFINE msgs == Append(t.messages, Thinking(node, t.event.turn))
<1>1. t.event.conv \in Conv /\ t.event.turn \in Turn /\ t.messages \in Seq(Message)
  BY DEF TypeOK, Task, ChatEvent
<1>2. msgs \in Seq(Message)
  <2>1. Thinking(node, t.event.turn) \in Message
    BY <1>1, MessageTypes
  <2> QED BY <1>1, <2>1, AppendType
<1> HIDE DEF msgs
<1>3. /\ [next EXCEPT !.messages = msgs] \in Task
      /\ [next EXCEPT !.messages = msgs, !.pc = "settle", !.error = TRUE] \in Task
  BY <1>2 DEF Task
<1>4. CASE /\ SetChat(t.event.conv, msgs, "isThinking", FALSE)
           /\ Becomes(t, [next EXCEPT !.messages = msgs])
           /\ UNCHANGED faults
  <2>1. redis' \in [Conv -> Chat]
    BY <1>1, <1>2, <1>4, SetChatType DEF ChatStatus
  <2> QED BY <1>3, <1>4, <2>1, BecomesType DEF TypeOK
<1>5. CASE /\ Fails("store")
           /\ Becomes(t, [next EXCEPT !.messages = msgs, !.pc = "settle",
                                      !.error = TRUE])
           /\ UNCHANGED redis
  <2>1. faults' \in Nat
    BY <1>5 DEF Fails, TypeOK
  <2> QED BY <1>3, <1>5, <2>1, BecomesType DEF TypeOK
<1> QED BY <1>4, <1>5 DEF ThinkAloud, msgs

(* Every step of the architect-agent's tasks keeps the types.              *)
LEMMA TaskType ==
  ASSUME TypeOK, NEW t \in tasks, TaskStep(t)
  PROVE  TypeOK'
<1> USE DEF storeVars, brokerVars, userVars
<1>t. /\ t \in Task /\ t.event \in ChatEvent /\ t.event.conv \in Conv
      /\ t.event.turn \in Turn /\ t.event.history \in Seq(Message)
      /\ t.messages \in Seq(Message)
  BY DEF TypeOK, Task, ChatEvent
<1>1. CASE TaskLoad(t)
  <2>1. redis[t.event.conv].messages \in Seq(Message)
    BY <1>t DEF TypeOK, Chat
  <2>2. [t EXCEPT !.pc = "mark", !.messages = redis[t.event.conv].messages] \in Task
    BY <1>t, <2>1 DEF Task
  <2>3. tasks' \subseteq Task /\ fate' \in [Conv -> [Turn -> Fates]]
    <3>1. CASE redis[t.event.conv].here
      BY <1>1, <2>2, <3>1, BecomesType DEF TaskLoad, TypeOK
    <3>2. CASE ~redis[t.event.conv].here
      BY <1>1, <3>2, FinishesType DEF TaskLoad, Fates
    <3> QED BY <3>1, <3>2
  <2> QED BY <1>1, <2>3 DEF TaskLoad, TypeOK
<1>2. CASE TaskMark(t)
  <2>1. [t EXCEPT !.pc = "intent"] \in Task
    BY <1>t DEF Task
  <2>2. redis' \in [Conv -> Chat]
    BY <1>2, <1>t, SetChatType DEF TaskMark, ChatStatus
  <2>3. tasks' \subseteq Task
    BY <1>2, <2>1, BecomesType DEF TaskMark
  <2> QED BY <1>2, <2>2, <2>3 DEF TaskMark, TypeOK
<1>3. CASE TaskIntent(t)
  <2>1. PICK i \in Intents \ {"accept"} :
          ThinkAloud(t, "intent_node",
            [t EXCEPT !.intent = i,
                      !.prior = IF i = "refine" THEN LatestPlan(t.event.history)
                                                ELSE {},
                      !.pc = IF i = "undefined" THEN "settle" ELSE "work"])
    BY <1>3 DEF TaskIntent
  <2>2. LatestPlan(t.event.history) \in SUBSET Message
    BY <1>t, LatestPlanType
  <2>3. [t EXCEPT !.intent = i,
                  !.prior = IF i = "refine" THEN LatestPlan(t.event.history)
                                            ELSE {},
                  !.pc = IF i = "undefined" THEN "settle" ELSE "work"] \in Task
    BY <1>t, <2>2, ChatAssumption DEF Task
  <2>4. /\ redis' \in [Conv -> Chat]
        /\ tasks' \subseteq Task
        /\ faults' \in Nat
    BY <2>1, <2>3, ThinkAloudType DEF Nodes
  <2> QED BY <1>3, <2>4 DEF TaskIntent, TypeOK
<1>4. CASE TaskAccept(t)
  <2>1. [t EXCEPT !.pc = IF LatestPlan(t.event.history) = {}
                           THEN "note" ELSE "publish"] \in Task
    BY <1>t DEF Task
  <2>2. tasks' \subseteq Task
    BY <1>4, <2>1, BecomesType DEF TaskAccept
  <2> QED BY <1>4, <2>2 DEF TaskAccept, TypeOK
<1>5. CASE TaskPublish(t)
  <2>1. /\ [t EXCEPT !.pc = "note"] \in Task
        /\ [t EXCEPT !.pc = "settle", !.error = TRUE] \in Task
    BY <1>t DEF Task
  <2>2. tasks' \subseteq Task
    BY <1>5, <2>1, BecomesType DEF TaskPublish
  <2>3. acceptQueue' \in Seq(AcceptEvent)
    <3>1. acceptQueue \in Seq(AcceptEvent)
      BY DEF TypeOK
    <3>2. ASSUME NEW m \in LatestPlan(t.event.history)
          PROVE  [conv |-> t.event.conv, turn |-> t.event.turn, plan |-> m,
                  delivery |-> 0] \in AcceptEvent
      BY <1>t, LatestPlanType DEF AcceptEvent
    <3>3. CASE HandsOver(t)
      BY <3>1, <3>2, <3>3, AppendType DEF HandsOver
    <3>4. CASE acceptQueue' = acceptQueue
      BY <3>1, <3>4
    <3> QED BY <1>5, <3>3, <3>4 DEF TaskPublish
  <2>4. faults' \in Nat
    BY <1>5 DEF TaskPublish, Fails, TypeOK
  <2> QED BY <1>5, <2>2, <2>3, <2>4 DEF TaskPublish, TypeOK
<1>6. CASE TaskNote(t)
  <2>1. [t EXCEPT !.intent = "accept", !.pc = "settle"] \in Task
    BY <1>t DEF Task, IntentKinds
  <2>2. /\ redis' \in [Conv -> Chat]
        /\ tasks' \subseteq Task
        /\ faults' \in Nat
    BY <1>6, <2>1, ThinkAloudType DEF TaskNote, Nodes
  <2> QED BY <1>6, <2>2 DEF TaskNote, TypeOK
<1>7. CASE TaskWork(t)
  <2>1. PICK last \in BOOLEAN :
          ThinkAloud(t, IF last THEN "reply_node" ELSE "work_node",
                     [t EXCEPT !.updates = @ + 1,
                               !.pc = IF last THEN "settle" ELSE "work"])
    BY <1>7 DEF TaskWork
  <2>2. [t EXCEPT !.updates = @ + 1,
                  !.pc = IF last THEN "settle" ELSE "work"] \in Task
    <3>1. t.updates + 1 \in Nat
      BY <1>t DEF Task
    <3>2. ASSUME NEW n \in Nat
          PROVE  /\ [t EXCEPT !.updates = n, !.pc = "settle"] \in Task
                 /\ [t EXCEPT !.updates = n, !.pc = "work"] \in Task
      BY <1>t DEF Task
    <3>3. CASE last
      BY <3>1, <3>2, <3>3
    <3>4. CASE ~last
      BY <3>1, <3>2, <3>4
    <3> QED BY <3>3, <3>4
  <2>3. (IF last THEN "reply_node" ELSE "work_node") \in Nodes
    BY DEF Nodes
  <2>4. /\ redis' \in [Conv -> Chat]
        /\ tasks' \subseteq Task
        /\ faults' \in Nat
    BY <2>1, <2>2, <2>3, ThinkAloudType
  <2> QED BY <1>7, <2>4 DEF TaskWork, TypeOK
<1>8. CASE TaskReturn(t)
  <2>1. tasks' \subseteq Task /\ fate' \in [Conv -> [Turn -> Fates]]
    BY <1>8, FinishesType DEF TaskReturn, Fates
  <2> QED BY <1>8, <2>1 DEF TaskReturn, TypeOK
<1>9. CASE TaskReply(t)
  <2>1. ReplyOf(t) \in Message
    BY <1>t, MessageTypes DEF ReplyOf, ReplyKinds, Nodes
  <2>2. Append(t.messages, ReplyOf(t)) \in Seq(Message)
    BY <1>t, <2>1, AppendType
  <2>3. redis' \in [Conv -> Chat]
    BY <1>9, <1>t, <2>2, SetChatType DEF TaskReply, ChatStatus
  <2>4. tasks' \subseteq Task /\ fate' \in [Conv -> [Turn -> Fates]]
    BY <1>9, FinishesType DEF TaskReply, Fates
  <2> QED BY <1>9, <2>3, <2>4 DEF TaskReply, TypeOK
<1> QED
  BY <1>1, <1>2, <1>3, <1>4, <1>5, <1>6, <1>7, <1>8, <1>9 DEF TaskStep

(* A redelivered event is an event, of either queue.                       *)
LEMMA RedeliveredType ==
  ASSUME NEW n \in Nat
  PROVE  /\ \A e \in ChatEvent : [e EXCEPT !.delivery = n] \in ChatEvent
         /\ \A e \in AcceptEvent : [e EXCEPT !.delivery = n] \in AcceptEvent
BY DEF ChatEvent, AcceptEvent

(* An unacked chat event that goes back to its queue keeps the types.      *)
LEMMA RequeueType ==
  ASSUME TypeOK, Requeue
  PROVE  unacked' \subseteq ChatEvent /\ chatQueue' \in Seq(ChatEvent)
<1>1. chatQueue \in Seq(ChatEvent) /\ unacked \subseteq ChatEvent
  BY DEF TypeOK
<1>2. ASSUME NEW e \in unacked
      PROVE  <<[e EXCEPT !.delivery = @ + 1]>> \o chatQueue \in Seq(ChatEvent)
  <2>1. e.delivery + 1 \in Nat
    BY <1>1 DEF ChatEvent
  <2>2. [e EXCEPT !.delivery = @ + 1] \in ChatEvent
    BY <1>1, <2>1, RedeliveredType
  <2> QED BY <1>1, <2>2
<1>3. chatQueue' \in Seq(ChatEvent)
  BY <1>1, <1>2 DEF Requeue
<1> QED BY <1>3 DEF Requeue

(* Every step and fault of the architect-agent's consumer keeps the types. *)
LEMMA ConsumerType ==
  ASSUME TypeOK,
         Deliver \/ Ack \/ ArchitectCrash \/ ConsumerDisconnect
  PROVE  TypeOK'
<1> USE DEF storeVars, userVars
<1>1. CASE Deliver
  <2>1. Head(chatQueue) \in ChatEvent /\ Tail(chatQueue) \in Seq(ChatEvent)
    BY <1>1 DEF Deliver, TypeOK
  <2>2. NewTask(Head(chatQueue)) \in Task
    BY <2>1 DEF NewTask, Task
  <2> QED BY <1>1, <2>1, <2>2 DEF Deliver, TypeOK
<1>2. CASE Ack
  BY <1>2 DEF Ack, TypeOK
<1>3. CASE ArchitectCrash
  <2>1. unacked' \subseteq ChatEvent /\ chatQueue' \in Seq(ChatEvent)
    BY <1>3, RequeueType DEF ArchitectCrash
  <2>2. faults' \in Nat
    BY <1>3 DEF ArchitectCrash, Fails, TypeOK
  <2> QED BY <1>3, <2>1, <2>2 DEF ArchitectCrash, TypeOK
<1>4. CASE ConsumerDisconnect
  <2>1. unacked' \subseteq ChatEvent /\ chatQueue' \in Seq(ChatEvent)
    BY <1>4, RequeueType DEF ConsumerDisconnect
  <2>2. faults' \in Nat
    BY <1>4 DEF ConsumerDisconnect, Fails, TypeOK
  <2> QED BY <1>4, <2>1, <2>2 DEF ConsumerDisconnect, TypeOK
<1> QED BY <1>1, <1>2, <1>3, <1>4

(* A failing node and a rejected save of the architect-agent keep the      *)
(* types.                                                                  *)
LEMMA TaskFaultType ==
  ASSUME TypeOK, NEW t \in tasks, GraphFails(t) \/ TaskFails(t)
  PROVE  TypeOK'
<1> USE DEF storeVars, brokerVars, userVars
<1>1. CASE GraphFails(t)
  <2>1. [t EXCEPT !.pc = "settle", !.error = TRUE] \in Task
    BY DEF TypeOK, Task
  <2>2. tasks' \subseteq Task
    BY <1>1, <2>1, BecomesType DEF GraphFails
  <2>3. faults' \in Nat
    BY <1>1 DEF GraphFails, Fails, TypeOK
  <2> QED BY <1>1, <2>2, <2>3 DEF GraphFails, TypeOK
<1>2. CASE TaskFails(t)
  <2>1. tasks' \subseteq Task /\ fate' \in [Conv -> [Turn -> Fates]]
    BY <1>2, FinishesType DEF TaskFails, Fates
  <2>2. faults' \in Nat
    BY <1>2 DEF TaskFails, Fails, TypeOK
  <2> QED BY <1>2, <2>1, <2>2 DEF TaskFails, TypeOK
<1> QED BY <1>1, <1>2

(* A failing or dying backend keeps the types.                             *)
LEMMA BackendFaultType ==
  ASSUME TypeOK, BackendCrash \/ \E r \in requests : RequestFails(r)
  PROVE  TypeOK'
<1> USE DEF storeVars, brokerVars, userVars
<1>1. CASE BackendCrash
  <2>1. faults' \in Nat
    BY <1>1 DEF BackendCrash, Fails, TypeOK
  <2>2. client' \in [Conv -> {"idle", "sending", "waiting"}]
    BY <1>1 DEF BackendCrash, TypeOK
  <2> QED BY <1>1, <2>1, <2>2 DEF BackendCrash, TypeOK
<1>2. ASSUME NEW r \in requests, RequestFails(r)
      PROVE  TypeOK'
  <2>1. faults' \in Nat
    BY <1>2 DEF RequestFails, Fails, TypeOK
  <2>2. requests' \subseteq Request
    BY <1>2 DEF RequestFails, Responds, Ends, TypeOK
  <2>3. client' \in [Conv -> {"idle", "sending", "waiting"}]
    BY <1>2 DEF RequestFails, Responds, TypeOK
  <2> QED BY <1>2, <2>1, <2>2, <2>3 DEF RequestFails, TypeOK
<1> QED BY <1>1, <1>2

(* The ticket-agent's job that takes a step stays a job.                   *)
LEMMA JobBecomesType ==
  ASSUME TypeOK, NEW j \in jobs, NEW k \in Job, JobBecomes(j, k)
  PROVE  jobs' \subseteq Job
BY DEF TypeOK, JobBecomes

(* Every step and failure of the ticket-agent keeps the types.             *)
LEMMA TicketType ==
  ASSUME TypeOK, NEW j \in jobs,
         JobStep(j) \/ TicketGraphFails(j) \/ TicketFails(j)
  PROVE  TypeOK'
<1> USE DEF storeVars, brokerVars, userVars
<1>t. /\ j \in Job /\ j.event.conv \in Conv /\ j.event.turn \in Turn
      /\ j.event.plan \in Message /\ j.event.plan.turn \in Turn
      /\ j.messages \in Seq(Message)
  BY DEF TypeOK, Job, AcceptEvent, Message
<1>a. [j EXCEPT !.pc = "ack"] \in Job
  BY <1>t DEF Job
<1>1. CASE TicketLoad(j)
  <2>1. redis[j.event.conv].messages \in Seq(Message)
    BY <1>t DEF TypeOK, Chat
  <2>2. [j EXCEPT !.pc = "create", !.messages = redis[j.event.conv].messages] \in Job
    BY <1>t, <2>1 DEF Job
  <2>3. jobs' \subseteq Job
    BY <1>1, <1>a, <2>2, JobBecomesType DEF TicketLoad
  <2> QED BY <1>1, <2>3 DEF TicketLoad, TypeOK
<1>2. CASE TicketCreate(j)
  <2>1. [j EXCEPT !.pc = "reply"] \in Job
    BY <1>t DEF Job
  <2>2. jobs' \subseteq Job
    BY <1>2, <2>1, JobBecomesType DEF TicketCreate
  <2>3. epics' \subseteq Conv \X Turn
    BY <1>2, <1>t DEF TicketCreate, EpicOf, TypeOK
  <2> QED BY <1>2, <2>2, <2>3 DEF TicketCreate, TypeOK
<1>3. CASE TicketReply(j)
  <2> DEFINE m == Reply(IF j.error THEN "error" ELSE "tickets", "none",
                        j.event.turn)
  <2>2. m \in Message
    BY <1>t, MessageTypes DEF ReplyKinds, Nodes
  <2>3. Replied(j) \in Seq(Message)
    BY <1>t, <2>2, WithoutNodesType, AppendType DEF Replied
  <2>4. redis' \in [Conv -> Chat]
    BY <1>3, <1>t, <2>3, SetChatType DEF TicketReply, ChatStatus
  <2>5. jobs' \subseteq Job
    BY <1>3, <1>a, JobBecomesType DEF TicketReply
  <2> QED BY <1>3, <2>4, <2>5 DEF TicketReply, TypeOK
<1>4. CASE TicketAck(j)
  BY <1>4 DEF TicketAck, TypeOK
<1>5. CASE TicketGraphFails(j)
  <2>1. [j EXCEPT !.pc = "reply", !.error = TRUE] \in Job
    BY <1>t DEF Job
  <2>2. jobs' \subseteq Job
    BY <1>5, <2>1, JobBecomesType DEF TicketGraphFails
  <2>3. faults' \in Nat
    BY <1>5 DEF TicketGraphFails, Fails, TypeOK
  <2> QED BY <1>5, <2>2, <2>3 DEF TicketGraphFails, TypeOK
<1>6. CASE TicketFails(j)
  <2>1. jobs' \subseteq Job
    BY <1>6, <1>a, JobBecomesType DEF TicketFails
  <2>2. faults' \in Nat
    BY <1>6 DEF TicketFails, Fails, TypeOK
  <2> QED BY <1>6, <2>1, <2>2 DEF TicketFails, TypeOK
<1> QED BY <1>1, <1>2, <1>3, <1>4, <1>5, <1>6 DEF JobStep

(* Taking an accept event and its redelivery keep the types.               *)
LEMMA TicketQueueType ==
  ASSUME TypeOK, TicketDeliver \/ TicketCrash
  PROVE  TypeOK'
<1> USE DEF storeVars, userVars
<1>1. CASE TicketDeliver
  <2>1. Head(acceptQueue) \in AcceptEvent /\ Tail(acceptQueue) \in Seq(AcceptEvent)
    BY <1>1 DEF TicketDeliver, TypeOK
  <2>2. jobs' \subseteq Job
    BY <1>1, <2>1 DEF TicketDeliver, Job
  <2> QED BY <1>1, <2>1, <2>2 DEF TicketDeliver, TypeOK
<1>2. CASE TicketCrash
  <2>1. PICK j \in jobs :
          acceptQueue' = <<[j.event EXCEPT !.delivery = @ + 1]>> \o acceptQueue
    BY <1>2 DEF TicketCrash
  <2>2. [j.event EXCEPT !.delivery = @ + 1] \in AcceptEvent
    <3>1. j.event \in AcceptEvent
      BY DEF TypeOK, Job
    <3>2. j.event.delivery + 1 \in Nat
      BY <3>1 DEF AcceptEvent
    <3> QED BY <3>1, <3>2, RedeliveredType
  <2>3. acceptQueue \in Seq(AcceptEvent)
    BY DEF TypeOK
  <2>4. acceptQueue' \in Seq(AcceptEvent)
    BY <2>1, <2>2, <2>3
  <2>5. faults' \in Nat
    BY <1>2 DEF TicketCrash, Fails, TypeOK
  <2> QED BY <1>2, <2>4, <2>5 DEF TicketCrash, TypeOK
<1> QED BY <1>1, <1>2

(* A request the tab sends is a request.                                   *)
LEMMA SendsType ==
  ASSUME TypeOK, NEW op, NEW c \in Conv, NEW turn, NEW pc \in RequestPc,
         \/ op \in {"new", "continue"} /\ turn \in Turn
         \/ op \in {"stop", "get"} /\ turn \in 0 .. MaxTurns,
         Sends(op, c, turn, pc)
  PROVE  requests' \subseteq Request
<1>1. [op |-> op, conv |-> c, turn |-> turn, pc |-> pc, messages |-> << >>]
        \in Request
  <2>1. << >> \in Seq(Message)
    OBVIOUS
  <2> QED BY <2>1 DEF Request
<1> QED BY <1>1 DEF TypeOK, Sends

(* The user's actions, a successful poll and an expiry keep the types.     *)
LEMMA ClientType ==
  ASSUME TypeOK, NEW c \in Conv, User(c) \/ ReceiveReply(c) \/ Expire(c)
  PROVE  TypeOK'
<1> USE DEF storeVars, brokerVars, userVars
<1>1. CASE SendMessage(c)
  <2>1. sent[c] \in 0 .. MaxTurns /\ MaxTurns \in Nat /\ sent[c] < MaxTurns
    BY <1>1, ChatAssumption DEF SendMessage, TypeOK
  <2>2. sent[c] + 1 \in Turn /\ (sent[c] = 0 => 1 \in Turn)
    BY <2>1 DEF Turn
  <2>3. requests' \subseteq Request
    BY <1>1, <2>2, SendsType DEF SendMessage, RequestPc
  <2>4. sent' \in [Conv -> 0 .. MaxTurns]
    BY <1>1, <2>1 DEF SendMessage, TypeOK
  <2>5. client' \in [Conv -> {"idle", "sending", "waiting"}]
    BY <1>1 DEF SendMessage, TypeOK
  <2> QED BY <1>1, <2>3, <2>4, <2>5 DEF SendMessage, TypeOK
<1>2. CASE OpenChat(c)
  <2>1. requests' \subseteq Request
    BY <1>2, SendsType DEF OpenChat, RequestPc, TypeOK
  <2>2. opens' \in Nat
    BY <1>2 DEF OpenChat, TypeOK
  <2> QED BY <1>2, <2>1, <2>2 DEF OpenChat, TypeOK
<1>3. CASE Leave(c)
  BY <1>3 DEF Leave, TypeOK
<1>4. CASE ReceiveReply(c)
  <2>1. redis[c].messages \in Seq(Message)
    BY DEF TypeOK, Chat
  <2>2. PICK m \in LatestReply(redis[c].messages) :
          answers' = [answers EXCEPT ![c] = Append(@, m)]
    BY <1>4 DEF ReceiveReply
  <2>3. m \in Message
    BY <2>1, LatestReplyType
  <2>4. Append(answers[c], m) \in Seq(Message)
    BY <2>3, AppendType DEF TypeOK
  <2>5. answers' \in [Conv -> Seq(Message)]
    BY <2>2, <2>4 DEF TypeOK
  <2>6. requests' \subseteq Request
    BY <1>4, SendsType DEF ReceiveReply, RequestPc, TypeOK
  <2>7. client' \in [Conv -> {"idle", "sending", "waiting"}]
    BY <1>4 DEF ReceiveReply, TypeOK
  <2> QED BY <1>4, <2>5, <2>6, <2>7 DEF ReceiveReply, TypeOK
<1>5. CASE Expire(c)
  <2>1. redis' \in [Conv -> Chat]
    BY <1>5 DEF Expire, TypeOK, Chat, NoChat, ChatStatus
  <2>2. faults' \in Nat
    BY <1>5 DEF Expire, Fails, TypeOK
  <2> QED BY <1>5, <2>1, <2>2 DEF Expire, TypeOK
<1> QED BY <1>1, <1>2, <1>3, <1>4, <1>5 DEF User

(* Every variable keeps its type: stored objects are chat objects, and     *)
(* what the processes hold between two awaits has the declared shapes.     *)
THEOREM TypeCorrect == Spec => []TypeOK
<1>1. TypeOK /\ [Next]_vars => TypeOK'
  <2> SUFFICES ASSUME TypeOK, [Next]_vars PROVE TypeOK'
    OBVIOUS
  <2>1. CASE Fault
    BY <2>1, BackendFaultType, ConsumerType, TaskFaultType, TicketType,
       TicketQueueType, ClientType DEF Fault
  <2>2. CASE System
    BY <2>2, ClientType, BackendType, ConsumerType, TaskType,
       TicketQueueType, TicketType DEF System
  <2>3. CASE \E c \in Conv : User(c)
    BY <2>3, ClientType
  <2>4. CASE UNCHANGED vars
    BY <2>4 DEF vars, TypeOK
  <2> QED BY <2>1, <2>2, <2>3, <2>4 DEF Next
<1> QED BY <1>1, InitType, PTL DEF Spec
----------------------------------------------------------------------------
(* KeyHasRow is not inductive: a handler, a task or a job that has read    *)
(* the chat writes it later, when the key may have expired meanwhile, so   *)
(* the row must stand behind everything that is still going to write.      *)
RowInv ==
  /\ KeyHasRow
  /\ \A r \in requests :
       r.op \in {"new", "continue"} /\ r.pc = "set" => db[r.conv].here
  /\ \A t \in tasks : t.pc # "load" => db[t.event.conv].here
  /\ \A j \in jobs : j.pc \in {"create", "reply"} => db[j.event.conv].here

(* A SET for a conversation that has a row leaves every key with a row.    *)
LEMMA SetChatRow ==
  ASSUME TypeOK, KeyHasRow, NEW c \in Conv, NEW msgs, NEW status, NEW ttl,
         db[c].here, SetChat(c, msgs, status, ttl)
  PROVE  \A d \in Conv : redis'[d].here => db[d].here
BY DEF TypeOK, KeyHasRow, SetChat

(* Every step of the backend's handlers keeps RowInv.                      *)
LEMMA BackendRow ==
  ASSUME TypeOK, RowInv, NEW r \in requests, BackendStep(r)
  PROVE  RowInv'
<1> USE DEF storeVars, brokerVars, userVars, RowInv, KeyHasRow
<1>r. r \in Request /\ r.conv \in Conv
  BY DEF TypeOK, Request
<1>t. /\ \A q \in requests : q.conv \in Conv
      /\ \A t \in tasks : t.event.conv \in Conv
      /\ \A j \in jobs : j.event.conv \in Conv
  BY DEF TypeOK, Request, Task, ChatEvent, Job, AcceptEvent
<1>s. ASSUME NEW pc \in RequestPc, NEW msgs, Step(r, pc, msgs),
             \A q \in requests : db[q.conv].here => db'[q.conv].here,
             \/ pc \in {"find", "publish"}
             \/ db'[r.conv].here
      PROVE  /\ \A q \in requests' :
                  q.pc \in {"save", "del", "update"} => db'[q.conv].here
             /\ \A q \in requests' :
                  q.op \in {"new", "continue"} /\ q.pc = "set" => db'[q.conv].here
  <2> DEFINE u == [r EXCEPT !.pc = pc, !.messages = msgs]
  <2>1. u.op = r.op /\ u.conv = r.conv /\ u.pc = pc
    BY <1>r DEF Request
  <2>2. requests' = (requests \ {r}) \cup {u}
    BY <1>s DEF Step
  <2> HIDE DEF u
  <2> QED BY <1>s, <2>1, <2>2
<1>e. ASSUME Ends(r),
             \A q \in requests : db[q.conv].here => db'[q.conv].here
      PROVE  /\ \A q \in requests' :
                  q.pc \in {"save", "del", "update"} => db'[q.conv].here
             /\ \A q \in requests' :
                  q.op \in {"new", "continue"} /\ q.pc = "set" => db'[q.conv].here
  BY <1>e DEF Ends
<1>m. ASSUME db' = [db EXCEPT ![r.conv].messages = r.messages]
      PROVE  \A c \in Conv : db'[c].here = db[c].here
  BY <1>m, <1>r DEF TypeOK, Row
<1>1. CASE NewInsert(r)
  <2>1. \A c \in Conv : db[c].here => db'[c].here
    BY <1>1, <1>r DEF NewInsert, FirstRow, TypeOK
  <2>2. db'[r.conv].here
    BY <1>1, <1>r DEF NewInsert, FirstRow, TypeOK
  <2> QED BY <1>1, <1>s, <1>t, <2>1, <2>2 DEF NewInsert, RequestPc
<1>2. CASE ContinueGet(r)
  BY <1>2, <1>r, <1>s DEF ContinueGet, RequestPc
<1>3. CASE ContinueFind(r)
  BY <1>3, <1>s, <1>e DEF ContinueFind, Responds, RequestPc
<1>4. CASE SetThinking(r)
  <2>1. db[r.conv].here
    BY <1>4 DEF SetThinking
  <2>2. \A d \in Conv : redis'[d].here => db[d].here
    BY <1>4, <1>r, <2>1, SetChatRow DEF SetThinking
  <2> QED BY <1>4, <1>s, <2>2 DEF SetThinking, RequestPc
<1>5. CASE Publish(r)
  BY <1>5, <1>e DEF Publish, Responds
<1>6. CASE StopGet(r)
  BY <1>6, <1>r, <1>s, <1>e DEF StopGet, RequestPc
<1>7. CASE StopSave(r)
  BY <1>7, <1>r, <1>t, <1>s, <1>m DEF StopSave, Persist, RequestPc
<1>8. CASE StopDel(r)
  <2>1. \A c \in Conv : redis'[c].here => redis[c].here
    BY <1>8, <1>r DEF StopDel, NoChat, TypeOK
  <2> QED BY <1>8, <1>e, <2>1 DEF StopDel
<1>9. CASE GetRead(r)
  BY <1>9, <1>r, <1>s, <1>e DEF GetRead, RequestPc
<1>10. CASE GetUpdate(r)
  BY <1>10, <1>t, <1>e, <1>m DEF GetUpdate, Persist
<1> QED
  BY <1>1, <1>2, <1>3, <1>4, <1>5, <1>6, <1>7, <1>8, <1>9, <1>10 DEF BackendStep

(* Every step of the architect-agent's tasks keeps RowInv.                 *)
LEMMA TaskRow ==
  ASSUME TypeOK, RowInv, NEW t \in tasks,
         TaskStep(t) \/ GraphFails(t) \/ TaskFails(t)
  PROVE  RowInv'
<1> USE DEF storeVars, brokerVars, userVars, RowInv, KeyHasRow
<1>t. t \in Task /\ t.event.conv \in Conv
  BY DEF TypeOK, Task, ChatEvent
<1>f. ASSUME NEW outcome, Finishes(t, outcome), UNCHANGED <<storeVars, requests, jobs>>
      PROVE  RowInv'
  BY <1>f DEF Finishes
<1>b. ASSUME NEW u, Becomes(t, u), u.event = t.event, db[t.event.conv].here,
             \A d \in Conv : redis'[d].here => db[d].here,
             UNCHANGED <<db, requests, jobs>>
      PROVE  RowInv'
  BY <1>b DEF Becomes
<1>a. ASSUME NEW node, NEW next \in Task, next.event = t.event,
             ThinkAloud(t, node, next), t.pc # "load",
             UNCHANGED <<db, requests, jobs>>
      PROVE  RowInv'
  <2> DEFINE msgs == Append(t.messages, Thinking(node, t.event.turn))
             good == [next EXCEPT !.messages = msgs]
             bad  == [next EXCEPT !.messages = msgs, !.pc = "settle",
                                  !.error = TRUE]
  <2>1. good.event = t.event /\ bad.event = t.event
    BY <1>a DEF Task
  <2>2. db[t.event.conv].here
    BY <1>a
  <2> HIDE DEF msgs
  <2>3. CASE SetChat(t.event.conv, msgs, "isThinking", FALSE) /\ Becomes(t, good)
    <3>1. \A d \in Conv : redis'[d].here => db[d].here
      BY <1>t, <2>2, <2>3, SetChatRow
    <3> HIDE DEF good
    <3> QED BY <1>a, <1>b, <2>1, <2>2, <2>3, <3>1
  <2>4. CASE Becomes(t, bad) /\ UNCHANGED redis
    <3> HIDE DEF bad
    <3> QED BY <1>a, <1>b, <2>1, <2>2, <2>4
  <2> QED BY <1>a, <2>3, <2>4 DEF ThinkAloud, msgs
<1>1. CASE TaskLoad(t)
  <2>1. CASE redis[t.event.conv].here
    <3>1. [t EXCEPT !.pc = "mark",
                    !.messages = redis[t.event.conv].messages].event = t.event
      BY <1>t DEF Task
    <3> QED BY <1>1, <1>b, <1>t, <2>1, <3>1 DEF TaskLoad
  <2>2. CASE ~redis[t.event.conv].here
    BY <1>1, <1>f, <2>2 DEF TaskLoad
  <2> QED BY <2>1, <2>2
<1>2. CASE TaskMark(t)
  <2>1. db[t.event.conv].here
    BY <1>2 DEF TaskMark
  <2>2. \A d \in Conv : redis'[d].here => db[d].here
    BY <1>2, <1>t, <2>1, SetChatRow DEF TaskMark
  <2>3. [t EXCEPT !.pc = "intent"].event = t.event
    BY <1>t DEF Task
  <2> QED BY <1>2, <1>b, <2>1, <2>2, <2>3 DEF TaskMark
<1>3. CASE TaskIntent(t)
  <2>1. PICK i \in Intents \ {"accept"} :
          ThinkAloud(t, "intent_node",
            [t EXCEPT !.intent = i,
                      !.prior = IF i = "refine" THEN LatestPlan(t.event.history)
                                                ELSE {},
                      !.pc = IF i = "undefined" THEN "settle" ELSE "work"])
    BY <1>3 DEF TaskIntent
  <2> DEFINE next == [t EXCEPT !.intent = i,
                      !.prior = IF i = "refine" THEN LatestPlan(t.event.history)
                                                ELSE {},
                      !.pc = IF i = "undefined" THEN "settle" ELSE "work"]
  <2>2. next \in Task /\ next.event = t.event
    <3>1. LatestPlan(t.event.history) \in SUBSET Message
      BY <1>t, LatestPlanType DEF Task, ChatEvent
    <3> QED BY <1>t, <3>1, ChatAssumption DEF Task
  <2>3. ThinkAloud(t, "intent_node", next)
    BY <2>1
  <2> HIDE DEF next
  <2> QED BY <1>3, <1>a, <2>2, <2>3 DEF TaskIntent
<1>4. CASE TaskAccept(t)
  <2>1. [t EXCEPT !.pc = IF LatestPlan(t.event.history) = {}
                           THEN "note" ELSE "publish"].event = t.event
    BY <1>t DEF Task
  <2> QED BY <1>4, <1>b, <2>1 DEF TaskAccept
<1>5. CASE TaskPublish(t)
  <2>1. /\ [t EXCEPT !.pc = "note"].event = t.event
        /\ [t EXCEPT !.pc = "settle", !.error = TRUE].event = t.event
    BY <1>t DEF Task
  <2> QED BY <1>5, <1>b, <2>1 DEF TaskPublish
<1>6. CASE TaskNote(t)
  <2>1. /\ [t EXCEPT !.intent = "accept", !.pc = "settle"] \in Task
        /\ [t EXCEPT !.intent = "accept", !.pc = "settle"].event = t.event
    BY <1>t DEF Task, IntentKinds
  <2> QED BY <1>6, <1>a, <2>1 DEF TaskNote
<1>7. CASE TaskWork(t)
  <2>1. PICK last \in BOOLEAN :
          ThinkAloud(t, IF last THEN "reply_node" ELSE "work_node",
                     [t EXCEPT !.updates = @ + 1,
                               !.pc = IF last THEN "settle" ELSE "work"])
    BY <1>7 DEF TaskWork
  <2> DEFINE next == [t EXCEPT !.updates = @ + 1,
                               !.pc = IF last THEN "settle" ELSE "work"]
  <2>2. next \in Task /\ next.event = t.event
    <3>1. t.updates + 1 \in Nat
      BY <1>t DEF Task
    <3>2. ASSUME NEW n \in Nat
          PROVE  /\ [t EXCEPT !.updates = n, !.pc = "settle"] \in Task
                 /\ [t EXCEPT !.updates = n, !.pc = "work"] \in Task
      BY <1>t DEF Task
    <3>3. next.event = t.event
      BY <1>t DEF Task
    <3>4. CASE last
      BY <3>1, <3>2, <3>3, <3>4
    <3>5. CASE ~last
      BY <3>1, <3>2, <3>3, <3>5
    <3> QED BY <3>4, <3>5
  <2>3. ThinkAloud(t, IF last THEN "reply_node" ELSE "work_node", next)
    BY <2>1
  <2> HIDE DEF next
  <2> QED BY <1>7, <1>a, <2>2, <2>3 DEF TaskWork
<1>8. CASE TaskReturn(t)
  BY <1>8, <1>f DEF TaskReturn
<1>9. CASE TaskReply(t)
  <2>1. db[t.event.conv].here
    BY <1>9 DEF TaskReply
  <2>2. \A d \in Conv : redis'[d].here => db[d].here
    BY <1>9, <1>t, <2>1, SetChatRow DEF TaskReply
  <2> QED BY <1>9, <2>2 DEF TaskReply, Finishes
<1>10. CASE GraphFails(t)
  <2>1. [t EXCEPT !.pc = "settle", !.error = TRUE].event = t.event
    BY <1>t DEF Task
  <2> QED BY <1>10, <1>b, <2>1 DEF GraphFails
<1>11. CASE TaskFails(t)
  BY <1>11, <1>f DEF TaskFails
<1> QED
  BY <1>1, <1>2, <1>3, <1>4, <1>5, <1>6, <1>7, <1>8, <1>9, <1>10, <1>11 DEF TaskStep

(* Every step of the ticket-agent's job keeps RowInv.                      *)
LEMMA JobRow ==
  ASSUME TypeOK, RowInv, NEW j \in jobs,
         JobStep(j) \/ TicketGraphFails(j) \/ TicketFails(j)
  PROVE  RowInv'
<1> USE DEF storeVars, brokerVars, userVars, RowInv, KeyHasRow
<1>t. j \in Job /\ j.event.conv \in Conv
  BY DEF TypeOK, Job, AcceptEvent
<1>b. ASSUME NEW k, JobBecomes(j, k), k.event = j.event,
             k.pc \in {"create", "reply"} => db[j.event.conv].here,
             \A d \in Conv : redis'[d].here => db[d].here,
             UNCHANGED <<db, requests, tasks>>
      PROVE  RowInv'
  BY <1>b DEF JobBecomes
<1>a. /\ [j EXCEPT !.pc = "ack"].event = j.event
      /\ [j EXCEPT !.pc = "ack"].pc = "ack"
  BY <1>t DEF Job
<1>1. CASE TicketLoad(j)
  <2>1. CASE redis[j.event.conv].here
    <3>1. [j EXCEPT !.pc = "create",
                    !.messages = redis[j.event.conv].messages].event = j.event
      BY <1>t DEF Job
    <3> QED BY <1>1, <1>b, <1>t, <2>1, <3>1 DEF TicketLoad
  <2>2. CASE ~redis[j.event.conv].here
    BY <1>1, <1>a, <1>b, <2>2 DEF TicketLoad
  <2> QED BY <2>1, <2>2
<1>2. CASE TicketCreate(j)
  <2>1. [j EXCEPT !.pc = "reply"].event = j.event
    BY <1>t DEF Job
  <2> QED BY <1>2, <1>b, <2>1 DEF TicketCreate
<1>3. CASE TicketReply(j)
  <2>1. db[j.event.conv].here
    BY <1>3 DEF TicketReply
  <2>2. \A d \in Conv : redis'[d].here => db[d].here
    BY <1>3, <1>t, <2>1, SetChatRow DEF TicketReply
  <2> QED BY <1>3, <1>a, <1>b, <2>2 DEF TicketReply
<1>4. CASE TicketAck(j)
  BY <1>4 DEF TicketAck
<1>5. CASE TicketGraphFails(j)
  <2>1. [j EXCEPT !.pc = "reply", !.error = TRUE].event = j.event
    BY <1>t DEF Job
  <2> QED BY <1>5, <1>b, <2>1 DEF TicketGraphFails
<1>6. CASE TicketFails(j)
  BY <1>6, <1>a, <1>b DEF TicketFails
<1> QED BY <1>1, <1>2, <1>3, <1>4, <1>5, <1>6 DEF JobStep

(* Deliveries, acks, redeliveries and dying agents keep RowInv.            *)
LEMMA QueueRow ==
  ASSUME TypeOK, RowInv,
         \/ Deliver \/ Ack \/ ArchitectCrash \/ ConsumerDisconnect
         \/ TicketDeliver \/ TicketCrash
  PROVE  RowInv'
<1> USE DEF storeVars, userVars, RowInv, KeyHasRow
<1>1. CASE Deliver
  BY <1>1 DEF Deliver, NewTask
<1>2. CASE TicketDeliver
  BY <1>2 DEF TicketDeliver
<1>3. CASE Ack \/ ConsumerDisconnect
  BY <1>3 DEF Ack, ConsumerDisconnect
<1>4. CASE ArchitectCrash
  BY <1>4 DEF ArchitectCrash
<1>5. CASE TicketCrash
  BY <1>5 DEF TicketCrash
<1> QED BY <1>1, <1>2, <1>3, <1>4, <1>5

(* The user's actions, a successful poll and an expiry keep RowInv.        *)
LEMMA ClientRow ==
  ASSUME TypeOK, RowInv, NEW c \in Conv, User(c) \/ ReceiveReply(c) \/ Expire(c)
  PROVE  RowInv'
<1> USE DEF storeVars, brokerVars, userVars, RowInv, KeyHasRow
<1>s. ASSUME NEW op, NEW turn, NEW pc \in {"insert", "get"},
             Sends(op, c, turn, pc), UNCHANGED <<redis, db, tasks, jobs>>
      PROVE  RowInv'
  BY <1>s DEF Sends
<1>1. CASE SendMessage(c)
  BY <1>1, <1>s DEF SendMessage
<1>2. CASE OpenChat(c)
  BY <1>2, <1>s DEF OpenChat
<1>3. CASE Leave(c)
  BY <1>3 DEF Leave
<1>4. CASE ReceiveReply(c)
  BY <1>4, <1>s DEF ReceiveReply
<1>5. CASE Expire(c)
  <2>1. \A d \in Conv : redis'[d].here => redis[d].here
    BY <1>5 DEF Expire, NoChat, TypeOK
  <2> QED BY <1>5, <2>1 DEF Expire
<1> QED BY <1>1, <1>2, <1>3, <1>4, <1>5 DEF User

(* A failing or dying backend keeps RowInv.                                *)
LEMMA BackendFaultRow ==
  ASSUME TypeOK, RowInv, BackendCrash \/ \E r \in requests : RequestFails(r)
  PROVE  RowInv'
<1> USE DEF storeVars, brokerVars, RowInv, KeyHasRow
<1>1. CASE BackendCrash
  BY <1>1 DEF BackendCrash
<1>2. CASE \E r \in requests : RequestFails(r)
  BY <1>2 DEF RequestFails, Responds, Ends
<1> QED BY <1>1, <1>2

(* A chat in Redis, and every stop or getChat about to write the row, has  *)
(* a conversation row, so repository.save never inserts one.               *)
THEOREM RowsBehindKeys == Spec => []KeyHasRow
<1>1. Init => RowInv
  BY DEF Init, RowInv, KeyHasRow, NoChat
<1>2. TypeOK /\ RowInv /\ [Next]_vars => RowInv'
  <2> SUFFICES ASSUME TypeOK, RowInv, [Next]_vars PROVE RowInv'
    OBVIOUS
  <2>1. CASE Fault
    BY <2>1, BackendFaultRow, QueueRow, TaskRow, JobRow, ClientRow DEF Fault
  <2>2. CASE System
    BY <2>2, ClientRow, BackendRow, QueueRow, TaskRow, JobRow DEF System
  <2>3. CASE \E c \in Conv : User(c)
    BY <2>3, ClientRow
  <2>4. CASE UNCHANGED vars
    BY <2>4 DEF vars, RowInv, KeyHasRow
  <2> QED BY <2>1, <2>2, <2>3, <2>4 DEF Next
<1>3. RowInv => KeyHasRow
  BY DEF RowInv
<1> QED BY <1>1, <1>2, <1>3, TypeCorrect, PTL DEF Spec
----------------------------------------------------------------------------
(* RepliedEndsInReply speaks of one copy at a time: a finished copy is one *)
(* that ends with a reply.                                                 *)
EndsInReply(msgs) == msgs # << >> /\ msgs[Len(msgs)].kind \in ReplyKinds

(* A copy to which a reply was appended ends with a reply.                 *)
LEMMA ReplyAppended ==
  ASSUME NEW msgs \in Seq(Message), NEW m \in Message, m.kind \in ReplyKinds
  PROVE  EndsInReply(Append(msgs, m))
<1>1. Append(msgs, m) \in Seq(Message) /\ Len(Append(msgs, m)) = Len(msgs) + 1
  BY AppendType
<1>2. Append(msgs, m)[Len(msgs) + 1] = m
  OBVIOUS
<1> QED BY <1>1, <1>2 DEF EndsInReply

(* RepliedEndsInReply, said with EndsInReply.                              *)
LEMMA RepliedForm ==
  RepliedEndsInReply <=>
    /\ \A c \in Conv :
         redis[c].agentStatus = "hasReplied" => EndsInReply(redis[c].messages)
    /\ \A r \in requests :
         r.op = "get" /\ r.pc = "update" => EndsInReply(r.messages)
BY DEF RepliedEndsInReply, EndsInReply

(* A SET keeps RepliedEndsInReply when it marks hasReplied only a copy     *)
(* that ends with a reply.                                                 *)
LEMMA SetChatReplied ==
  ASSUME TypeOK, RepliedEndsInReply, NEW c \in Conv, NEW msgs, NEW status, NEW ttl,
         SetChat(c, msgs, status, ttl),
         status = "hasReplied" => EndsInReply(msgs),
         UNCHANGED requests
  PROVE  RepliedEndsInReply'
<1>1. \A d \in Conv : redis'[d].agentStatus = "hasReplied" =>
                         EndsInReply(redis'[d].messages)
  <2> SUFFICES ASSUME NEW d \in Conv, redis'[d].agentStatus = "hasReplied"
               PROVE  EndsInReply(redis'[d].messages)
    OBVIOUS
  <2>1. CASE d = c
    BY <2>1 DEF SetChat, TypeOK
  <2>2. CASE d # c
    <3>1. redis'[d] = redis[d]
      BY <2>2 DEF SetChat, TypeOK
    <3> QED BY <3>1, RepliedForm
  <2> QED BY <2>1, <2>2
<1>2. \A r \in requests' : r.op = "get" /\ r.pc = "update" =>
                             EndsInReply(r.messages)
  BY RepliedForm
<1> QED BY <1>1, <1>2 DEF RepliedEndsInReply, EndsInReply

(* A SET that marks the chat isThinking keeps RepliedEndsInReply.          *)
LEMMA ThinkingReplied ==
  ASSUME TypeOK, RepliedEndsInReply, NEW c \in Conv, NEW msgs, NEW ttl,
         SetChat(c, msgs, "isThinking", ttl), UNCHANGED requests
  PROVE  RepliedEndsInReply'
<1>1. \A d \in Conv : redis'[d].agentStatus = "hasReplied" => redis'[d] = redis[d]
  BY DEF SetChat, TypeOK
<1> QED BY <1>1 DEF RepliedEndsInReply

(* Every step of the backend's handlers keeps RepliedEndsInReply.          *)
LEMMA BackendReplied ==
  ASSUME TypeOK, RepliedEndsInReply, NEW r \in requests, BackendStep(r)
  PROVE  RepliedEndsInReply'
<1> USE DEF storeVars, brokerVars, userVars
<1>r. r \in Request /\ r.conv \in Conv
  BY DEF TypeOK, Request
<1>q. ASSUME UNCHANGED redis,
             \A q \in requests' : q \in requests \/ q.op # "get" \/ q.pc # "update"
      PROVE  RepliedEndsInReply'
  BY <1>q DEF RepliedEndsInReply
<1>s. ASSUME NEW pc, NEW msgs, Step(r, pc, msgs)
      PROVE  \A q \in requests' : \/ q \in requests
                                  \/ q.op = r.op /\ q.pc = pc /\ q.messages = msgs
  BY <1>r, <1>s DEF Step, Request
<1>e. ASSUME Ends(r)
      PROVE  requests' \subseteq requests
  BY <1>e DEF Ends
<1>1. CASE NewInsert(r) \/ ContinueGet(r) \/ ContinueFind(r) \/ Publish(r)
  BY <1>1, <1>q, <1>s, <1>e
     DEF NewInsert, ContinueGet, ContinueFind, Publish, Responds
<1>2. CASE SetThinking(r)
  <2>1. \A c \in Conv : redis'[c].agentStatus = "hasReplied" => redis'[c] = redis[c]
    BY <1>2, <1>r DEF SetThinking, SetChat, TypeOK
  <2>2. \A q \in requests' : q \in requests \/ q.op # "get"
    BY <1>2, <1>s DEF SetThinking
  <2> QED BY <2>1, <2>2 DEF RepliedEndsInReply
<1>3. CASE StopGet(r) \/ StopSave(r)
  BY <1>3, <1>q, <1>s, <1>e DEF StopGet, StopSave
<1>4. CASE StopDel(r)
  <2>1. \A c \in Conv : redis'[c].agentStatus = "hasReplied" => redis'[c] = redis[c]
    BY <1>4, <1>r DEF StopDel, NoChat, TypeOK
  <2>2. requests' \subseteq requests
    BY <1>4, <1>e DEF StopDel
  <2> QED BY <2>1, <2>2 DEF RepliedEndsInReply
<1>5. CASE GetRead(r)
  <2>1. CASE redis[r.conv].agentStatus = "hasReplied" /\ redis[r.conv].here
    <3>1. EndsInReply(redis[r.conv].messages)
      BY <1>r, <2>1, RepliedForm
    <3>2. \A q \in requests' : q \in requests \/ q.messages = redis[r.conv].messages
      BY <1>5, <1>s, <2>1 DEF GetRead
    <3> QED BY <1>5, <3>1, <3>2 DEF GetRead, RepliedEndsInReply, EndsInReply
  <2>2. CASE ~(redis[r.conv].agentStatus = "hasReplied" /\ redis[r.conv].here)
    BY <1>5, <1>q, <1>e, <2>2 DEF GetRead
  <2> QED BY <2>1, <2>2
<1>6. CASE GetUpdate(r)
  BY <1>6, <1>q, <1>e DEF GetUpdate
<1> QED BY <1>1, <1>2, <1>3, <1>4, <1>5, <1>6 DEF BackendStep

(* One pass of the astream loop keeps RepliedEndsInReply.                  *)
LEMMA ThinkAloudReplied ==
  ASSUME TypeOK, RepliedEndsInReply, NEW t \in tasks, NEW node, NEW next,
         ThinkAloud(t, node, next), UNCHANGED requests
  PROVE  RepliedEndsInReply'
<1>1. t.event.conv \in Conv
  BY DEF TypeOK, Task, ChatEvent
<1>2. CASE UNCHANGED redis
  BY <1>2 DEF RepliedEndsInReply
<1>3. ASSUME NEW msgs, SetChat(t.event.conv, msgs, "isThinking", FALSE)
      PROVE  RepliedEndsInReply'
  BY <1>1, <1>3, ThinkingReplied
<1> QED BY <1>2, <1>3 DEF ThinkAloud

(* Every step of the architect-agent's tasks keeps RepliedEndsInReply.     *)
LEMMA TaskReplied ==
  ASSUME TypeOK, RepliedEndsInReply, NEW t \in tasks, TaskStep(t)
  PROVE  RepliedEndsInReply'
<1> USE DEF storeVars, brokerVars, userVars
<1>t. /\ t.event.conv \in Conv /\ t.event.turn \in Turn
      /\ t.messages \in Seq(Message)
  BY DEF TypeOK, Task, ChatEvent
<1>1. CASE TaskLoad(t) \/ TaskAccept(t) \/ TaskPublish(t) \/ TaskReturn(t)
  <2>1. UNCHANGED <<redis, requests>>
    BY <1>1 DEF TaskLoad, TaskAccept, TaskPublish, TaskReturn
  <2> QED BY <2>1 DEF RepliedEndsInReply
<1>2. CASE TaskMark(t)
  BY <1>2, <1>t, ThinkingReplied DEF TaskMark
<1>3. CASE TaskIntent(t)
  BY <1>3, ThinkAloudReplied DEF TaskIntent
<1>4. CASE TaskNote(t)
  BY <1>4, ThinkAloudReplied DEF TaskNote
<1>5. CASE TaskWork(t)
  BY <1>5, ThinkAloudReplied DEF TaskWork
<1>6. CASE TaskReply(t)
  <2>1. ReplyOf(t) \in Message /\ ReplyOf(t).kind \in ReplyKinds
    BY <1>t, MessageTypes DEF ReplyOf, Reply, ReplyKinds, Nodes
  <2>2. EndsInReply(Append(t.messages, ReplyOf(t)))
    BY <1>t, <2>1, ReplyAppended
  <2> QED BY <1>6, <1>t, <2>2, SetChatReplied DEF TaskReply
<1> QED BY <1>1, <1>2, <1>3, <1>4, <1>5, <1>6 DEF TaskStep

(* Every step of the ticket-agent's job keeps RepliedEndsInReply.          *)
LEMMA JobReplied ==
  ASSUME TypeOK, RepliedEndsInReply, NEW j \in jobs, JobStep(j)
  PROVE  RepliedEndsInReply'
<1> USE DEF storeVars, brokerVars, userVars
<1>t. /\ j.event.conv \in Conv /\ j.event.turn \in Turn
      /\ j.messages \in Seq(Message)
  BY DEF TypeOK, Job, AcceptEvent
<1>1. CASE TicketLoad(j) \/ TicketCreate(j) \/ TicketAck(j)
  <2>1. UNCHANGED <<redis, requests>>
    BY <1>1 DEF TicketLoad, TicketCreate, TicketAck
  <2> QED BY <2>1 DEF RepliedEndsInReply
<1>2. CASE TicketReply(j)
  <2> DEFINE m == Reply(IF j.error THEN "error" ELSE "tickets", "none",
                        j.event.turn)
  <2>1. m \in Message /\ m.kind \in ReplyKinds
    BY <1>t, MessageTypes DEF Reply, ReplyKinds, Nodes
  <2>2. EndsInReply(Replied(j))
    BY <1>t, <2>1, WithoutNodesType, ReplyAppended DEF Replied
  <2> QED BY <1>2, <1>t, <2>2, SetChatReplied DEF TicketReply
<1> QED BY <1>1, <1>2 DEF JobStep

(* Deliveries, faults, the user's actions and a successful poll keep       *)
(* RepliedEndsInReply.                                                     *)
LEMMA QuietReplied ==
  ASSUME TypeOK, RepliedEndsInReply,
         \/ Deliver \/ Ack \/ TicketDeliver
         \/ Fault
         \/ \E c \in Conv : User(c) \/ ReceiveReply(c)
  PROVE  RepliedEndsInReply'
<1> USE DEF storeVars, brokerVars, userVars
<1>q. ASSUME UNCHANGED redis,
             \A q \in requests' : q \in requests \/ q.pc # "update"
      PROVE  RepliedEndsInReply'
  BY <1>q DEF RepliedEndsInReply
<1>1. CASE Deliver \/ Ack \/ TicketDeliver
  BY <1>1, <1>q DEF Deliver, Ack, TicketDeliver
<1>2. CASE Fault
  <2>1. CASE ArchitectCrash \/ ConsumerDisconnect \/ TicketCrash
    BY <1>q, <2>1 DEF ArchitectCrash, ConsumerDisconnect, TicketCrash
  <2>2. CASE BackendCrash \/ \E r \in requests : RequestFails(r)
    BY <1>q, <2>2 DEF BackendCrash, RequestFails, Responds, Ends
  <2>3. CASE \E t \in tasks : GraphFails(t) \/ TaskFails(t)
    BY <1>q, <2>3 DEF GraphFails, TaskFails
  <2>4. CASE \E j \in jobs : TicketGraphFails(j) \/ TicketFails(j)
    BY <1>q, <2>4 DEF TicketGraphFails, TicketFails
  <2>5. CASE \E c \in Conv : Expire(c)
    <3>1. PICK c \in Conv : Expire(c)
      BY <2>5
    <3>2. \A d \in Conv : redis'[d].agentStatus = "hasReplied" =>
                           redis'[d] = redis[d]
      BY <3>1 DEF Expire, NoChat, TypeOK
    <3> QED BY <3>1, <3>2 DEF Expire, RepliedEndsInReply
  <2> QED BY <1>2, <2>1, <2>2, <2>3, <2>4, <2>5 DEF Fault
<1>3. CASE \E c \in Conv : User(c) \/ ReceiveReply(c)
  BY <1>3, <1>q DEF User, SendMessage, OpenChat, Leave, ReceiveReply, Sends
<1> QED BY <1>1, <1>2, <1>3

(* Whoever wrote the chat last, a chat marked hasReplied ends with a       *)
(* reply, and so does the copy a getChat is about to persist.              *)
THEOREM RepliedChatsAreAnswered == Spec => []RepliedEndsInReply
<1>1. Init => RepliedEndsInReply
  BY DEF Init, RepliedEndsInReply, NoChat
<1>2. TypeOK /\ RepliedEndsInReply /\ [Next]_vars => RepliedEndsInReply'
  <2> SUFFICES ASSUME TypeOK, RepliedEndsInReply, [Next]_vars
               PROVE  RepliedEndsInReply'
    OBVIOUS
  <2>1. CASE Fault
    BY <2>1, QuietReplied
  <2>2. CASE System
    BY <2>2, QuietReplied, BackendReplied, TaskReplied, JobReplied DEF System
  <2>3. CASE \E c \in Conv : User(c)
    BY <2>3, QuietReplied
  <2>4. CASE UNCHANGED vars
    BY <2>4 DEF vars, RepliedEndsInReply
  <2> QED BY <2>1, <2>2, <2>3, <2>4 DEF Next
<1> QED BY <1>1, <1>2, TypeCorrect, PTL DEF Spec
----------------------------------------------------------------------------
(* Copies are stale in both directions, so order alone is not inductive:   *)
(* the question that continueChat appends must be newer than all those of  *)
(* the copy it read.  OrderedTo bounds a copy's questions from above; Seen *)
(* is the bound: every question sent, except one that a continueChat still *)
(* has to set.                                                             *)
OrderedTo(msgs, n) ==
  /\ \A i, j \in AskIndexes(msgs) : i < j => msgs[i].turn < msgs[j].turn
  /\ \A i \in AskIndexes(msgs) : msgs[i].turn <= n

Posting(r) == r.op \in {"new", "continue"}
Carrying(r) == r.op = "continue" /\ r.pc \in {"get", "find", "set"}
Asking(c) == \E r \in requests : r.conv = c /\ Carrying(r)
Seen(c)   == IF Asking(c) THEN sent[c] - 1 ELSE sent[c]

(* A tab has one POST in flight, for the turn it sent last; newChat starts *)
(* from nothing.                                                           *)
PostInv ==
  /\ \A r \in requests : Posting(r) =>
       /\ client[r.conv] = "sending"
       /\ r.turn = sent[r.conv]
       /\ r.op = "new" => r.messages = << >>
  /\ \A r, q \in requests : Posting(r) /\ Posting(q) /\ r.conv = q.conv => r = q

CopiesInOrder ==
  /\ \A c \in Conv : /\ OrderedTo(redis[c].messages, Seen(c))
                     /\ OrderedTo(db[c].messages, Seen(c))
  /\ \A r \in requests : OrderedTo(r.messages, Seen(r.conv))
  /\ \A t \in tasks : OrderedTo(t.messages, Seen(t.event.conv))
  /\ \A j \in jobs : OrderedTo(j.messages, Seen(j.event.conv))

OrderInv == PostInv /\ CopiesInOrder
----------------------------------------------------------------------------
(* No questions are in order.                                              *)
LEMMA OrderedEmpty == \A n : OrderedTo(<< >>, n)
<1>1. 1 .. Len(<< >>) = {}
  OBVIOUS
<1>2. AskIndexes(<< >>) = {}
  BY <1>1 DEF AskIndexes
<1> QED BY <1>2 DEF OrderedTo

(* The questions of a copy, and their turns.                               *)
LEMMA AskTurns ==
  ASSUME NEW msgs \in Seq(Message)
  PROVE  \A i \in AskIndexes(msgs) : msgs[i].turn \in Int
<1>1. \A i \in AskIndexes(msgs) : msgs[i] \in Message
  BY DEF AskIndexes
<1>2. Turn \subseteq Int
  BY DEF Turn
<1> QED BY <1>1, <1>2 DEF Message

(* More questions may have been sent than a copy holds.                    *)
LEMMA OrderedMonotone ==
  ASSUME NEW msgs \in Seq(Message), NEW m \in Int, NEW n \in Int, m <= n,
         OrderedTo(msgs, m)
  PROVE  OrderedTo(msgs, n)
<1>1. \A i \in AskIndexes(msgs) : msgs[i].turn \in Int
  BY AskTurns
<1>2. \A i \in AskIndexes(msgs) : msgs[i].turn <= m
  BY DEF OrderedTo
<1>3. \A i \in AskIndexes(msgs) : msgs[i].turn <= n
  BY <1>1, <1>2
<1> QED BY <1>3 DEF OrderedTo

(* The questions of a copy to which a message was appended.                *)
LEMMA AskIndexesOfAppend ==
  ASSUME NEW msgs \in Seq(Message), NEW m \in Message
  PROVE  /\ m.kind = "ask" =>
              AskIndexes(Append(msgs, m)) = AskIndexes(msgs) \cup {Len(msgs) + 1}
         /\ m.kind # "ask" => AskIndexes(Append(msgs, m)) = AskIndexes(msgs)
         /\ \A i \in AskIndexes(msgs) : /\ Append(msgs, m)[i] = msgs[i]
                                        /\ i \in Nat /\ i < Len(msgs) + 1
         /\ Append(msgs, m)[Len(msgs) + 1] = m
BY DEF AskIndexes

(* What the agents append is no question.                                  *)
LEMMA OrderedAppend ==
  ASSUME NEW msgs \in Seq(Message), NEW n, NEW m \in Message, m.kind # "ask",
         OrderedTo(msgs, n)
  PROVE  OrderedTo(Append(msgs, m), n)
<1> DEFINE s == Append(msgs, m)
<1>1. AskIndexes(s) = AskIndexes(msgs) /\ \A i \in AskIndexes(msgs) : s[i] = msgs[i]
  BY AskIndexesOfAppend
<1> HIDE DEF s
<1>2. OrderedTo(s, n)
  BY <1>1 DEF OrderedTo
<1> QED BY <1>2 DEF s

(* A question newer than all others goes to the end (Asked).               *)
LEMMA OrderedAsk ==
  ASSUME NEW msgs \in Seq(Message), NEW n \in Turn, OrderedTo(msgs, n - 1)
  PROVE  OrderedTo(Append(msgs, Ask(n)), n)
<1> DEFINE s == Append(msgs, Ask(n))
           A == AskIndexes(msgs)
<1>n. n \in Int
  BY DEF Turn
<1>1. Ask(n) \in Message /\ Ask(n).kind = "ask" /\ Ask(n).turn = n
  BY MessageTypes DEF Ask
<1>2. /\ AskIndexes(s) = A \cup {Len(msgs) + 1}
      /\ \A i \in A : s[i] = msgs[i] /\ i \in Nat /\ i < Len(msgs) + 1
      /\ s[Len(msgs) + 1].turn = n
  BY <1>1, AskIndexesOfAppend
<1>3. \A i \in A : msgs[i].turn \in Int
  BY AskTurns
<1>4. \A i \in A : msgs[i].turn <= n - 1
  BY DEF OrderedTo
<1>5. \A i \in A : msgs[i].turn < n
  BY <1>n, <1>3, <1>4
<1>6. \A i, j \in A : i < j => msgs[i].turn < msgs[j].turn
  BY DEF OrderedTo
<1>l. Len(msgs) + 1 \in Nat
  OBVIOUS
<1> HIDE DEF s, A
<1> DEFINE l == Len(msgs) + 1
<1>7. /\ AskIndexes(s) = A \cup {l}
      /\ \A i \in A : s[i] = msgs[i] /\ i \in Nat /\ i < l
      /\ s[l].turn = n /\ l \in Nat
  BY <1>2, <1>l
<1> HIDE DEF l
<1>8. \A i, j \in AskIndexes(s) : i < j => s[i].turn < s[j].turn
  <2> SUFFICES ASSUME NEW i \in A \cup {l}, NEW j \in A \cup {l}, i < j
               PROVE  s[i].turn < s[j].turn
    BY <1>7
  <2>1. i \in A
    BY <1>7
  <2>2. CASE j \in A
    BY <1>6, <1>7, <2>1, <2>2
  <2>3. CASE j = l
    BY <1>5, <1>7, <2>1, <2>3
  <2> QED BY <2>2, <2>3
<1>9. \A i \in AskIndexes(s) : s[i].turn <= n
  <2> SUFFICES ASSUME NEW i \in A \cup {l} PROVE s[i].turn <= n
    BY <1>7
  <2>1. CASE i \in A
    BY <1>n, <1>3, <1>5, <1>7, <2>1
  <2>2. CASE i = l
    BY <1>n, <1>7, <2>2
  <2> QED BY <2>1, <2>2
<1> QED BY <1>8, <1>9 DEF OrderedTo, s

(* The ticket-agent's re-serialised messages are as ordered as before.     *)
LEMMA OrderedWithoutNodes ==
  ASSUME NEW msgs \in Seq(Message), NEW n, OrderedTo(msgs, n)
  PROVE  OrderedTo(WithoutNodes(msgs), n)
<1> DEFINE w == WithoutNodes(msgs)
<1>1. Len(msgs) \in Nat /\ \A i \in 1 .. Len(msgs) : msgs[i] \in Message
  OBVIOUS
<1>2. \A i \in 1 .. Len(msgs) : w[i] = [msgs[i] EXCEPT !.node = "none"]
  BY DEF WithoutNodes
<1>3. \A i \in 1 .. Len(msgs) : w[i].kind = msgs[i].kind /\ w[i].turn = msgs[i].turn
  BY <1>1, <1>2 DEF Message
<1>4. Len(w) = Len(msgs)
  BY <1>1 DEF WithoutNodes
<1> HIDE DEF w
<1>5. AskIndexes(w) = AskIndexes(msgs) /\ AskIndexes(msgs) \subseteq 1 .. Len(msgs)
  BY <1>3, <1>4 DEF AskIndexes
<1>6. OrderedTo(w, n)
  BY <1>3, <1>5 DEF OrderedTo
<1> QED BY <1>6 DEF w
----------------------------------------------------------------------------
(* Types of what the lemmas below look at.                                 *)
LEMMA OrderTypes ==
  ASSUME TypeOK
  PROVE  /\ \A c \in Conv : /\ sent[c] \in Int /\ Seen(c) \in Int
                             /\ redis[c].messages \in Seq(Message)
                             /\ db[c].messages \in Seq(Message)
         /\ \A r \in requests : r.conv \in Conv /\ r.messages \in Seq(Message)
         /\ \A t \in tasks : t.event.conv \in Conv /\ t.messages \in Seq(Message)
         /\ \A j \in jobs : j.event.conv \in Conv /\ j.messages \in Seq(Message)
<1>1. \A c \in Conv : /\ sent[c] \in Int
                     /\ redis[c].messages \in Seq(Message)
                     /\ db[c].messages \in Seq(Message)
  BY ChatAssumption DEF TypeOK, Chat, Row
<1>2. ASSUME NEW c \in Conv PROVE Seen(c) \in Int
  <2>1. sent[c] \in Int /\ sent[c] - 1 \in Int
    BY <1>1
  <2> QED BY <2>1 DEF Seen
<1>3. \A r \in requests : r.conv \in Conv /\ r.messages \in Seq(Message)
  BY DEF TypeOK, Request
<1>4. \A t \in tasks : t.event.conv \in Conv /\ t.messages \in Seq(Message)
  BY DEF TypeOK, Task, ChatEvent
<1>5. \A j \in jobs : j.event.conv \in Conv /\ j.messages \in Seq(Message)
  BY DEF TypeOK, Job, AcceptEvent
<1> QED BY <1>1, <1>2, <1>3, <1>4, <1>5

(* A step keeps the copies in order when each new copy is.                 *)
LEMMA CopiesFrame ==
  ASSUME TypeOK, TypeOK', CopiesInOrder,
         \A c \in Conv : Seen(c) <= Seen(c)',
         \A c \in Conv : \/ redis'[c].messages = redis[c].messages
                         \/ OrderedTo(redis'[c].messages, Seen(c)'),
         \A c \in Conv : \/ db'[c].messages = db[c].messages
                         \/ OrderedTo(db'[c].messages, Seen(c)'),
         \A r \in requests' : \/ r \in requests
                              \/ OrderedTo(r.messages, Seen(r.conv)'),
         \A t \in tasks' : \/ t \in tasks
                           \/ OrderedTo(t.messages, Seen(t.event.conv)'),
         \A j \in jobs' : \/ j \in jobs
                          \/ OrderedTo(j.messages, Seen(j.event.conv)')
  PROVE  CopiesInOrder'
<1>1. \A c \in Conv : Seen(c) \in Int /\ Seen(c)' \in Int
  <2>1. \A c \in Conv : Seen(c) \in Int
    BY OrderTypes
  <2>2. ASSUME NEW c \in Conv PROVE Seen(c)' \in Int
    <3>1. sent'[c] \in Int /\ sent'[c] - 1 \in Int
      BY ChatAssumption DEF TypeOK
    <3> QED BY <3>1 DEF Seen
  <2> QED BY <2>1, <2>2
<1>2. ASSUME NEW c \in Conv, NEW msgs \in Seq(Message), OrderedTo(msgs, Seen(c))
      PROVE  OrderedTo(msgs, Seen(c)')
  BY <1>1, <1>2, OrderedMonotone
<1>3. ASSUME NEW c \in Conv
      PROVE  OrderedTo(redis'[c].messages, Seen(c)') /\ OrderedTo(db'[c].messages, Seen(c)')
  BY <1>2, <1>3, OrderTypes DEF CopiesInOrder
<1>4. ASSUME NEW r \in requests' PROVE OrderedTo(r.messages, Seen(r.conv)')
  BY <1>2, <1>4, OrderTypes DEF CopiesInOrder
<1>5. ASSUME NEW t \in tasks' PROVE OrderedTo(t.messages, Seen(t.event.conv)')
  BY <1>2, <1>5, OrderTypes DEF CopiesInOrder
<1>6. ASSUME NEW j \in jobs' PROVE OrderedTo(j.messages, Seen(j.event.conv)')
  BY <1>2, <1>6, OrderTypes DEF CopiesInOrder
<1> QED BY <1>3, <1>4, <1>5, <1>6 DEF CopiesInOrder

(* What may still be asked is the same when no request and no count moves. *)
LEMMA SeenStays ==
  ASSUME TypeOK, UNCHANGED <<requests, sent>>
  PROVE  \A c \in Conv : Seen(c)' = Seen(c) /\ Seen(c) <= Seen(c)'
<1>1. \A c \in Conv : Seen(c)' = Seen(c)
  BY DEF Seen, Asking
<1> QED BY <1>1, OrderTypes

(* It grows when a continueChat has set its question, or fails.            *)
LEMMA SeenGrows ==
  ASSUME TypeOK, UNCHANGED sent,
         \A q \in requests' : q \in requests \/ (Carrying(q) => Asking(q.conv))
  PROVE  \A c \in Conv : Seen(c) <= Seen(c)'
<1> SUFFICES ASSUME NEW c \in Conv PROVE Seen(c) <= Seen(c)'
  OBVIOUS
<1>1. Asking(c)' => Asking(c)
  BY DEF Asking
<1>2. sent[c] \in Int
  BY OrderTypes
<1>3. CASE Asking(c)
  <2>1. Seen(c) = sent[c] - 1 /\ (Seen(c)' = sent[c] - 1 \/ Seen(c)' = sent[c])
    BY <1>3 DEF Seen
  <2> QED BY <1>2, <2>1
<1>4. CASE ~Asking(c)
  <2>1. Seen(c) = sent[c] /\ Seen(c)' = sent[c]
    BY <1>1, <1>4 DEF Seen
  <2> QED BY <1>2, <2>1
<1> QED BY <1>3, <1>4

(* A handler that goes on keeps PostInv.                                   *)
LEMMA StepPost ==
  ASSUME TypeOK, PostInv, NEW r \in requests, NEW pc, NEW msgs,
         Step(r, pc, msgs), UNCHANGED <<client, sent>>,
         r.op = "new" => msgs = << >>
  PROVE  PostInv'
<1> DEFINE u == [r EXCEPT !.pc = pc, !.messages = msgs]
<1>1. u.op = r.op /\ u.conv = r.conv /\ u.turn = r.turn /\ u.messages = msgs
  BY DEF TypeOK, Request
<1>2. requests' = (requests \ {r}) \cup {u}
  BY DEF Step
<1> HIDE DEF u
<1>3. \A q \in requests' : Posting(q) =>
        /\ client'[q.conv] = "sending"
        /\ q.turn = sent'[q.conv]
        /\ q.op = "new" => q.messages = << >>
  BY <1>1, <1>2 DEF PostInv, Posting
<1>4. \A p, q \in requests' : Posting(p) /\ Posting(q) /\ p.conv = q.conv => p = q
  BY <1>1, <1>2 DEF PostInv, Posting
<1> QED BY <1>3, <1>4 DEF PostInv

(* A handler that ends keeps PostInv, and so does one that answers its     *)
(* tab: it was the only one the tab waited for.                            *)
LEMMA EndPost ==
  ASSUME TypeOK, PostInv, NEW r \in requests, UNCHANGED sent,
         \/ Ends(r) /\ UNCHANGED client
         \/ Posting(r) /\ \E status : Responds(r, status)
  PROVE  PostInv'
<1>1. requests' = requests \ {r}
  BY DEF Responds, Ends
<1>2. ASSUME NEW q \in requests', Posting(q)
      PROVE  client'[q.conv] = client[q.conv]
  <2>1. CASE UNCHANGED client
    BY <2>1
  <2>2. CASE Posting(r) /\ \E status : Responds(r, status)
    <3>1. q.conv # r.conv
      BY <1>1, <1>2, <2>2 DEF PostInv
    <3>2. q.conv \in Conv
      BY <1>1, OrderTypes
    <3> QED BY <2>2, <3>1, <3>2 DEF Responds, TypeOK
  <2> QED BY <2>1, <2>2
<1>3. \A q \in requests' : Posting(q) =>
        /\ client'[q.conv] = "sending"
        /\ q.turn = sent'[q.conv]
        /\ q.op = "new" => q.messages = << >>
  BY <1>1, <1>2 DEF PostInv
<1>4. \A p, q \in requests' : Posting(p) /\ Posting(q) /\ p.conv = q.conv => p = q
  BY <1>1 DEF PostInv
<1> QED BY <1>3, <1>4 DEF PostInv

(* With no request and no tab concerned, PostInv stays.                    *)
LEMMA QuietPost ==
  ASSUME PostInv, UNCHANGED <<requests, client, sent>>
  PROVE  PostInv'
BY DEF PostInv

(* A handler that goes on, with messages in order, keeps all in order.     *)
LEMMA StepOrder ==
  ASSUME TypeOK, TypeOK', OrderInv, NEW r \in requests, NEW pc, NEW msgs,
         Step(r, pc, msgs), UNCHANGED <<client, sent, tasks, jobs>>,
         r.op = "new" => msgs = << >>,
         pc \in {"get", "find", "set"} => Carrying(r) \/ r.op = "new",
         OrderedTo(msgs, Seen(r.conv)'),
         \A c \in Conv : \/ redis'[c].messages = redis[c].messages
                         \/ OrderedTo(redis'[c].messages, Seen(c)'),
         \A c \in Conv : \/ db'[c].messages = db[c].messages
                         \/ OrderedTo(db'[c].messages, Seen(c)')
  PROVE  OrderInv'
<1> DEFINE u == [r EXCEPT !.pc = pc, !.messages = msgs]
<1>1. u.op = r.op /\ u.conv = r.conv /\ u.pc = pc /\ u.messages = msgs
  BY DEF TypeOK, Request
<1>2. requests' = (requests \ {r}) \cup {u}
  BY DEF Step
<1> HIDE DEF u
<1>3. Carrying(u) => Asking(u.conv)
  BY <1>1 DEF Carrying, Asking
<1>4. \A c \in Conv : Seen(c) <= Seen(c)'
  BY <1>2, <1>3, SeenGrows
<1>5. \A q \in requests' : q \in requests \/ OrderedTo(q.messages, Seen(q.conv)')
  BY <1>1, <1>2
<1>6. CopiesInOrder'
  BY <1>4, <1>5, CopiesFrame DEF OrderInv
<1>7. PostInv'
  BY StepPost DEF OrderInv
<1> QED BY <1>6, <1>7 DEF OrderInv

(* A handler that ends leaves all in order.                                *)
LEMMA EndOrder ==
  ASSUME TypeOK, TypeOK', OrderInv, NEW r \in requests,
         UNCHANGED <<sent, tasks, jobs>>,
         \/ Ends(r) /\ UNCHANGED client
         \/ Posting(r) /\ \E status : Responds(r, status),
         \A c \in Conv : \/ redis'[c].messages = redis[c].messages
                         \/ OrderedTo(redis'[c].messages, Seen(c)'),
         \A c \in Conv : \/ db'[c].messages = db[c].messages
                         \/ OrderedTo(db'[c].messages, Seen(c)')
  PROVE  OrderInv'
<1>1. requests' = requests \ {r}
  BY DEF Responds, Ends
<1>2. \A c \in Conv : Seen(c) <= Seen(c)'
  BY <1>1, SeenGrows
<1>3. CopiesInOrder'
  BY <1>1, <1>2, CopiesFrame DEF OrderInv
<1>4. PostInv'
  BY EndPost DEF OrderInv
<1> QED BY <1>3, <1>4 DEF OrderInv
----------------------------------------------------------------------------
(* Every step of the backend's handlers keeps OrderInv.                    *)
LEMMA BackendOrder ==
  ASSUME TypeOK, TypeOK', OrderInv, NEW r \in requests, BackendStep(r)
  PROVE  OrderInv'
<1> USE DEF storeVars, brokerVars, userVars
<1>r. /\ r \in Request /\ r.conv \in Conv /\ r.messages \in Seq(Message)
      /\ sent[r.conv] \in Int
  BY OrderTypes DEF TypeOK
<1>o. /\ OrderedTo(r.messages, Seen(r.conv))
      /\ OrderedTo(redis[r.conv].messages, Seen(r.conv))
      /\ OrderedTo(db[r.conv].messages, Seen(r.conv))
  BY <1>r DEF OrderInv, CopiesInOrder
<1>p. Posting(r) => /\ r.turn = sent[r.conv] /\ r.turn \in Turn
                    /\ r.op = "new" => r.messages = << >>
  BY <1>r DEF OrderInv, PostInv, Posting, Request
<1>s. ASSUME NEW pc, NEW msgs, Step(r, pc, msgs), UNCHANGED sent,
             pc \in {"get", "find", "set"} => Carrying(r) \/ r.op = "new",
             NEW m, m = << >> \/ (m \in Seq(Message) /\ OrderedTo(m, Seen(r.conv)))
      PROVE  OrderedTo(m, Seen(r.conv)')
  <2> DEFINE u == [r EXCEPT !.pc = pc, !.messages = msgs]
  <2>1. u.op = r.op /\ u.conv = r.conv /\ u.pc = pc
    BY <1>r DEF Request
  <2>2. requests' = (requests \ {r}) \cup {u}
    BY <1>s DEF Step
  <2> HIDE DEF u
  <2>3. Carrying(u) => Asking(u.conv)
    BY <1>s, <2>1 DEF Carrying, Asking
  <2>4. Seen(r.conv) <= Seen(r.conv)'
    BY <1>r, <1>s, <2>2, <2>3, SeenGrows
  <2>5. Seen(r.conv) \in Int /\ Seen(r.conv)' \in Int
    <3>1. sent[r.conv] - 1 \in Int
      BY <1>r
    <3> QED BY <1>r, <1>s, <3>1 DEF Seen
  <2> QED BY <1>s, <2>4, <2>5, OrderedEmpty, OrderedMonotone
<1>m. ASSUME Persist(r), NEW n, OrderedTo(r.messages, n), NEW c \in Conv
      PROVE  \/ db'[c].messages = db[c].messages
             \/ c = r.conv /\ OrderedTo(db'[c].messages, n)
  BY <1>r, <1>m DEF Persist, TypeOK, Row
<1>1. CASE NewInsert(r)
  <2>1. Posting(r) /\ ~Carrying(r) /\ r.op = "new"
    BY <1>1 DEF NewInsert, Posting, Carrying
  <2>2. Step(r, "set", << >>) /\ UNCHANGED <<redis, client, sent, tasks, jobs>>
    BY <1>1 DEF NewInsert
  <2>3. Seen(r.conv)' = sent[r.conv]
    <3>1. PostInv' /\ r.op = "new"
      BY <2>1, <2>2, StepPost DEF OrderInv
    <3>2. \E q \in requests' : q.op = "new" /\ q.conv = r.conv
      <4> DEFINE u == [r EXCEPT !.pc = "set", !.messages = << >>]
      <4>1. u.op = "new" /\ u.conv = r.conv
        BY <1>r, <2>1 DEF Request
      <4>2. u \in requests'
        BY <2>2 DEF Step
      <4> HIDE DEF u
      <4> QED BY <4>1, <4>2
    <3>3. ~Asking(r.conv)'
      BY <3>1, <3>2 DEF PostInv, Posting, Carrying, Asking
    <3> QED BY <2>2, <3>3 DEF Seen
  <2>4. \A c \in Conv : \/ db'[c].messages = db[c].messages
                        \/ OrderedTo(db'[c].messages, Seen(c)')
    <3>1. OrderedTo(<<Ask(r.turn)>>, r.turn)
      <4>1. << >> \in Seq(Message) /\ Append(<< >>, Ask(r.turn)) = <<Ask(r.turn)>>
        OBVIOUS
      <4>2. r.turn \in Turn
        BY <1>p, <2>1
      <4>3. OrderedTo(<< >>, r.turn - 1)
        BY OrderedEmpty
      <4>4. OrderedTo(Append(<< >>, Ask(r.turn)), r.turn)
        BY <4>1, <4>2, <4>3, OrderedAsk
      <4> QED BY <4>1, <4>4
    <3>2. \A c \in Conv : \/ db'[c] = db[c]
                          \/ c = r.conv /\ db'[c].messages = <<Ask(r.turn)>>
      BY <1>1, <1>r DEF NewInsert, FirstRow, TypeOK
    <3> QED BY <1>p, <2>1, <2>3, <3>1, <3>2
  <2> QED BY <2>1, <2>2, <2>4, OrderedEmpty, StepOrder
<1>2. CASE ContinueGet(r)
  <2>1. Carrying(r) /\ r.op # "new" /\ UNCHANGED <<redis, db, client, sent, tasks, jobs>>
    BY <1>2 DEF ContinueGet, Carrying
  <2>2. \E pc \in {"set", "find"}, msgs \in {redis[r.conv].messages, << >>} :
          Step(r, pc, msgs)
    BY <1>2 DEF ContinueGet
  <2> QED BY <1>o, <1>r, <1>s, <2>1, <2>2, OrderTypes, StepOrder
<1>3. CASE ContinueFind(r)
  <2>1. Carrying(r) /\ Posting(r) /\ r.op # "new" /\ UNCHANGED <<redis, db, sent, tasks, jobs>>
    BY <1>3 DEF ContinueFind, Carrying, Posting
  <2>2. CASE db[r.conv].here
    <3>1. Step(r, "set", db[r.conv].messages) /\ UNCHANGED client
      BY <1>3, <2>2 DEF ContinueFind
    <3> QED BY <1>o, <1>r, <1>s, <2>1, <3>1, OrderTypes, StepOrder
  <2>3. CASE ~db[r.conv].here
    <3>1. Responds(r, "idle")
      BY <1>3, <2>3 DEF ContinueFind
    <3> QED BY <2>1, <3>1, EndOrder
  <2> QED BY <2>2, <2>3
<1>4. CASE SetThinking(r)
  <2>1. /\ Posting(r) /\ r.pc = "set" /\ Step(r, "publish", r.messages)
        /\ SetChat(r.conv, Asked(r), "isThinking", TRUE)
        /\ UNCHANGED <<db, client, sent, tasks, jobs>>
    BY <1>4 DEF SetThinking, Posting
  <2>2. OrderedTo(r.messages, r.turn - 1)
    <3>1. CASE r.op = "new"
      BY <1>p, <2>1, <3>1, OrderedEmpty
    <3>2. CASE r.op = "continue"
      <4>1. Asking(r.conv)
        BY <2>1, <3>2 DEF Asking, Carrying
      <4> QED BY <1>o, <1>p, <2>1, <4>1 DEF Seen
    <3> QED BY <2>1, <3>1, <3>2 DEF Posting
  <2>3. OrderedTo(Asked(r), r.turn)
    BY <1>p, <1>r, <2>1, <2>2, OrderedAsk DEF Asked
  <2>4. Seen(r.conv)' = sent[r.conv]
    <3>1. PostInv'
      BY <1>p, <2>1, StepPost DEF OrderInv
    <3>2. \E q \in requests' : Posting(q) /\ ~Carrying(q) /\ q.conv = r.conv
      <4> DEFINE u == [r EXCEPT !.pc = "publish", !.messages = r.messages]
      <4>1. u.op = r.op /\ u.conv = r.conv /\ u.pc = "publish"
        BY <1>r DEF Request
      <4>2. u \in requests'
        BY <2>1 DEF Step
      <4> HIDE DEF u
      <4>3. Posting(u) /\ ~Carrying(u)
        BY <2>1, <4>1 DEF Posting, Carrying
      <4> QED BY <4>1, <4>2, <4>3
    <3>3. ~Asking(r.conv)'
      BY <3>1, <3>2 DEF PostInv, Posting, Carrying, Asking
    <3> QED BY <2>1, <3>3 DEF Seen
  <2>5. \A c \in Conv : \/ redis'[c].messages = redis[c].messages
                        \/ OrderedTo(redis'[c].messages, Seen(c)')
    <3>1. \A c \in Conv : \/ redis'[c] = redis[c]
                          \/ c = r.conv /\ redis'[c].messages = Asked(r)
      BY <1>r, <2>1 DEF SetChat, TypeOK
    <3> QED BY <1>p, <2>1, <2>3, <2>4, <3>1
  <2>6. OrderedTo(r.messages, Seen(r.conv)')
    BY <1>o, <1>r, <1>s, <2>1
  <2> QED BY <1>p, <2>1, <2>5, <2>6, StepOrder
<1>5. CASE Publish(r)
  <2>1. Posting(r) /\ Responds(r, "waiting") /\ UNCHANGED <<redis, db, sent, tasks, jobs>>
    BY <1>5 DEF Publish, Posting
  <2> QED BY <2>1, EndOrder
<1>6. CASE StopGet(r) \/ GetRead(r)
  <2>1. r.op # "new" /\ UNCHANGED <<redis, db, client, sent, tasks, jobs>>
    BY <1>6 DEF StopGet, GetRead
  <2>2. CASE Ends(r)
    BY <2>1, <2>2, EndOrder
  <2>3. CASE \E pc \in {"save", "update"} : Step(r, pc, redis[r.conv].messages)
    BY <1>o, <1>r, <1>s, <2>1, <2>3, OrderTypes, StepOrder
  <2> QED BY <1>6, <2>2, <2>3 DEF StopGet, GetRead
<1>7. CASE StopSave(r)
  <2>1. /\ r.op # "new" /\ Persist(r) /\ Step(r, "del", r.messages)
        /\ UNCHANGED <<redis, client, sent, tasks, jobs>>
    BY <1>7 DEF StopSave
  <2>2. OrderedTo(r.messages, Seen(r.conv)')
    BY <1>o, <1>r, <1>s, <2>1
  <2> QED BY <1>m, <2>1, <2>2, StepOrder
<1>8. CASE StopDel(r)
  <2>1. Ends(r) /\ UNCHANGED <<db, client, sent, tasks, jobs>>
    BY <1>8 DEF StopDel
  <2>2. \A c \in Conv : redis'[c] = redis[c] \/ redis'[c].messages = << >>
    BY <1>8, <1>r DEF StopDel, NoChat, TypeOK
  <2> QED BY <2>1, <2>2, OrderedEmpty, EndOrder
<1>9. CASE GetUpdate(r)
  <2>1. Persist(r) /\ Ends(r) /\ UNCHANGED <<redis, client, sent, tasks, jobs>>
    BY <1>9 DEF GetUpdate
  <2>2. OrderedTo(r.messages, Seen(r.conv)')
    <3>1. Seen(r.conv) <= Seen(r.conv)'
      BY <1>r, <2>1, SeenGrows DEF Ends
    <3>2. Seen(r.conv) \in Int /\ Seen(r.conv)' \in Int
      <4>1. sent[r.conv] - 1 \in Int
        BY <1>r
      <4> QED BY <1>r, <2>1, <4>1 DEF Seen
    <3> QED BY <1>o, <1>r, <3>1, <3>2, OrderedMonotone
  <2> QED BY <1>m, <2>1, <2>2, EndOrder
<1> QED BY <1>1, <1>2, <1>3, <1>4, <1>5, <1>6, <1>7, <1>8, <1>9 DEF BackendStep
----------------------------------------------------------------------------
(* A step of the agents or of the queues keeps all in order when each new  *)
(* copy is.                                                                *)
LEMMA QuietOrder ==
  ASSUME TypeOK, TypeOK', OrderInv, UNCHANGED <<db, requests, client, sent>>,
         \A c \in Conv : \/ redis'[c].messages = redis[c].messages
                         \/ OrderedTo(redis'[c].messages, Seen(c)),
         \A t \in tasks' : \/ t \in tasks
                           \/ OrderedTo(t.messages, Seen(t.event.conv)),
         \A j \in jobs' : \/ j \in jobs
                          \/ OrderedTo(j.messages, Seen(j.event.conv))
  PROVE  OrderInv'
<1>1. \A c \in Conv : Seen(c)' = Seen(c) /\ Seen(c) <= Seen(c)'
  BY SeenStays
<1>2. /\ \A t \in tasks' : t.event.conv \in Conv
      /\ \A j \in jobs' : j.event.conv \in Conv
  BY DEF TypeOK, Task, ChatEvent, Job, AcceptEvent
<1>3. \A t \in tasks' : t \in tasks \/ OrderedTo(t.messages, Seen(t.event.conv)')
  BY <1>1, <1>2
<1>4. \A j \in jobs' : j \in jobs \/ OrderedTo(j.messages, Seen(j.event.conv)')
  BY <1>1, <1>2
<1>5. \A c \in Conv : \/ redis'[c].messages = redis[c].messages
                      \/ OrderedTo(redis'[c].messages, Seen(c)')
  BY <1>1
<1>6. CopiesInOrder'
  BY <1>1, <1>3, <1>4, <1>5, CopiesFrame DEF OrderInv
<1>7. PostInv'
  BY QuietPost DEF OrderInv
<1> QED BY <1>6, <1>7 DEF OrderInv

(* A SET of messages in order leaves every chat in Redis in order.         *)
LEMMA SetOrder ==
  ASSUME TypeOK, NEW c \in Conv, NEW msgs, NEW status, NEW ttl,
         SetChat(c, msgs, status, ttl), OrderedTo(msgs, Seen(c))
  PROVE  \A d \in Conv : \/ redis'[d].messages = redis[d].messages
                         \/ OrderedTo(redis'[d].messages, Seen(d))
<1>1. /\ \A d \in Conv : d # c => redis'[d] = redis[d]
      /\ redis'[c].messages = msgs
  BY DEF SetChat, TypeOK
<1>2. \A d \in Conv : d # c => redis'[d].messages = redis[d].messages
  BY <1>1
<1>3. OrderedTo(redis'[c].messages, Seen(c))
  BY <1>1
<1> QED BY <1>2, <1>3

(* One pass of the astream loop appends no question.                       *)
LEMMA ThinkAloudOrder ==
  ASSUME TypeOK, TypeOK', OrderInv, NEW t \in tasks, NEW node \in Nodes,
         NEW next \in Task, next.event = t.event, ThinkAloud(t, node, next),
         UNCHANGED <<db, requests, client, sent, jobs>>
  PROVE  OrderInv'
<1> DEFINE msgs == Append(t.messages, Thinking(node, t.event.turn))
           good == [next EXCEPT !.messages = msgs]
           bad  == [next EXCEPT !.messages = msgs, !.pc = "settle", !.error = TRUE]
<1>1. t.event.conv \in Conv /\ t.event.turn \in Turn /\ t.messages \in Seq(Message)
  BY DEF TypeOK, Task, ChatEvent
<1>2. OrderedTo(msgs, Seen(t.event.conv))
  <2>1. /\ Thinking(node, t.event.turn) \in Message
        /\ Thinking(node, t.event.turn).kind # "ask"
    BY <1>1, MessageTypes DEF Thinking
  <2>2. OrderedTo(t.messages, Seen(t.event.conv))
    BY DEF OrderInv, CopiesInOrder
  <2> QED BY <1>1, <2>1, <2>2, OrderedAppend
<1>3. /\ good.event = t.event /\ good.messages = msgs
      /\ bad.event = t.event /\ bad.messages = msgs
  BY DEF Task
<1>4. /\ SetChat(t.event.conv, msgs, "isThinking", FALSE) \/ UNCHANGED redis
      /\ Becomes(t, good) \/ Becomes(t, bad)
  BY DEF ThinkAloud
<1> HIDE DEF msgs, good, bad
<1>5. \A c \in Conv : \/ redis'[c].messages = redis[c].messages
                      \/ OrderedTo(redis'[c].messages, Seen(c))
  BY <1>1, <1>2, <1>4, SetOrder
<1>6. \A u \in tasks' : u \in tasks \/ OrderedTo(u.messages, Seen(u.event.conv))
  BY <1>2, <1>3, <1>4 DEF Becomes
<1> QED BY <1>5, <1>6, QuietOrder

(* Every step of the architect-agent's tasks keeps OrderInv.               *)
LEMMA TaskOrder ==
  ASSUME TypeOK, TypeOK', OrderInv, NEW t \in tasks,
         TaskStep(t) \/ GraphFails(t) \/ TaskFails(t)
  PROVE  OrderInv'
<1> USE DEF storeVars, brokerVars, userVars
<1>t. /\ t \in Task /\ t.event.conv \in Conv /\ t.event.turn \in Turn
      /\ t.messages \in Seq(Message)
  BY DEF TypeOK, Task, ChatEvent
<1>o. /\ OrderedTo(t.messages, Seen(t.event.conv))
      /\ OrderedTo(redis[t.event.conv].messages, Seen(t.event.conv))
  BY <1>t DEF OrderInv, CopiesInOrder
<1>b. ASSUME NEW u, Becomes(t, u), u.event = t.event,
             u.messages \in {t.messages, redis[t.event.conv].messages},
             \A c \in Conv : \/ redis'[c].messages = redis[c].messages
                             \/ OrderedTo(redis'[c].messages, Seen(c)),
             UNCHANGED <<db, requests, client, sent, jobs>>
      PROVE  OrderInv'
  <2>1. \A v \in tasks' : v \in tasks \/ OrderedTo(v.messages, Seen(v.event.conv))
    BY <1>b, <1>o DEF Becomes
  <2> QED BY <1>b, <2>1, QuietOrder
<1>f. ASSUME NEW outcome, Finishes(t, outcome),
             \A c \in Conv : \/ redis'[c].messages = redis[c].messages
                             \/ OrderedTo(redis'[c].messages, Seen(c)),
             UNCHANGED <<db, requests, client, sent, jobs>>
      PROVE  OrderInv'
  <2>1. \A v \in tasks' : v \in tasks
    BY <1>f DEF Finishes
  <2> QED BY <1>f, <2>1, QuietOrder
<1>1. CASE TaskLoad(t)
  <2>1. UNCHANGED <<redis, db, requests, client, sent, jobs>>
    BY <1>1 DEF TaskLoad
  <2>2. CASE redis[t.event.conv].here
    <3> DEFINE u == [t EXCEPT !.pc = "mark",
                              !.messages = redis[t.event.conv].messages]
    <3>1. u.event = t.event /\ u.messages = redis[t.event.conv].messages
      BY <1>t DEF Task
    <3>2. Becomes(t, u)
      BY <1>1, <2>2 DEF TaskLoad
    <3> HIDE DEF u
    <3> QED BY <1>b, <2>1, <3>1, <3>2
  <2>3. CASE ~redis[t.event.conv].here
    BY <1>1, <1>f, <2>1, <2>3 DEF TaskLoad
  <2> QED BY <2>2, <2>3
<1>2. CASE TaskMark(t)
  <2>1. \A c \in Conv : \/ redis'[c].messages = redis[c].messages
                        \/ OrderedTo(redis'[c].messages, Seen(c))
    BY <1>2, <1>o, <1>t, SetOrder DEF TaskMark
  <2> DEFINE u == [t EXCEPT !.pc = "intent"]
  <2>2. u.event = t.event /\ u.messages = t.messages
    BY <1>t DEF Task
  <2>3. Becomes(t, u) /\ UNCHANGED <<db, requests, client, sent, jobs>>
    BY <1>2 DEF TaskMark
  <2> HIDE DEF u
  <2> QED BY <1>b, <2>1, <2>2, <2>3
<1>3. CASE TaskIntent(t)
  <2>1. PICK i \in Intents \ {"accept"} :
          ThinkAloud(t, "intent_node",
            [t EXCEPT !.intent = i,
                      !.prior = IF i = "refine" THEN LatestPlan(t.event.history)
                                                ELSE {},
                      !.pc = IF i = "undefined" THEN "settle" ELSE "work"])
    BY <1>3 DEF TaskIntent
  <2> DEFINE next == [t EXCEPT !.intent = i,
                      !.prior = IF i = "refine" THEN LatestPlan(t.event.history)
                                                ELSE {},
                      !.pc = IF i = "undefined" THEN "settle" ELSE "work"]
  <2>2. next \in Task /\ next.event = t.event
    <3>1. LatestPlan(t.event.history) \in SUBSET Message
      BY <1>t, LatestPlanType DEF Task, ChatEvent
    <3> QED BY <1>t, <3>1, ChatAssumption DEF Task
  <2>3. ThinkAloud(t, "intent_node", next)
    BY <2>1
  <2>4. "intent_node" \in Nodes /\ UNCHANGED <<db, requests, client, sent, jobs>>
    BY <1>3 DEF TaskIntent, Nodes
  <2> HIDE DEF next
  <2> QED BY <2>2, <2>3, <2>4, ThinkAloudOrder
<1>4. CASE TaskAccept(t)
  <2> DEFINE u == [t EXCEPT !.pc = IF LatestPlan(t.event.history) = {}
                                     THEN "note" ELSE "publish"]
  <2>1. u.event = t.event /\ u.messages = t.messages
    BY <1>t DEF Task
  <2>2. Becomes(t, u) /\ UNCHANGED <<redis, db, requests, client, sent, jobs>>
    BY <1>4 DEF TaskAccept
  <2> HIDE DEF u
  <2> QED BY <1>b, <2>1, <2>2
<1>5. CASE TaskPublish(t) \/ GraphFails(t)
  <2> DEFINE u == [t EXCEPT !.pc = "note"]
             v == [t EXCEPT !.pc = "settle", !.error = TRUE]
  <2>1. /\ u.event = t.event /\ u.messages = t.messages
        /\ v.event = t.event /\ v.messages = t.messages
    BY <1>t DEF Task
  <2>2. /\ Becomes(t, u) \/ Becomes(t, v)
        /\ UNCHANGED <<redis, db, requests, client, sent, jobs>>
    BY <1>5 DEF TaskPublish, GraphFails
  <2> HIDE DEF u, v
  <2> QED BY <1>b, <2>1, <2>2
<1>6. CASE TaskNote(t)
  <2> DEFINE next == [t EXCEPT !.intent = "accept", !.pc = "settle"]
  <2>1. next \in Task /\ next.event = t.event
    BY <1>t DEF Task, IntentKinds
  <2>2. /\ "intent_node" \in Nodes /\ ThinkAloud(t, "intent_node", next)
        /\ UNCHANGED <<db, requests, client, sent, jobs>>
    BY <1>6 DEF TaskNote, Nodes
  <2> HIDE DEF next
  <2> QED BY <2>1, <2>2, ThinkAloudOrder
<1>7. CASE TaskWork(t)
  <2>1. PICK last \in BOOLEAN :
          ThinkAloud(t, IF last THEN "reply_node" ELSE "work_node",
                     [t EXCEPT !.updates = @ + 1,
                               !.pc = IF last THEN "settle" ELSE "work"])
    BY <1>7 DEF TaskWork
  <2> DEFINE next == [t EXCEPT !.updates = @ + 1,
                               !.pc = IF last THEN "settle" ELSE "work"]
             node == IF last THEN "reply_node" ELSE "work_node"
  <2>2. next \in Task /\ next.event = t.event
    <3>1. t.updates + 1 \in Nat
      BY <1>t DEF Task
    <3>2. ASSUME NEW n \in Nat
          PROVE  /\ [t EXCEPT !.updates = n, !.pc = "settle"] \in Task
                 /\ [t EXCEPT !.updates = n, !.pc = "work"] \in Task
      BY <1>t DEF Task
    <3>3. next.event = t.event
      BY <1>t DEF Task
    <3>4. CASE last
      BY <3>1, <3>2, <3>3, <3>4
    <3>5. CASE ~last
      BY <3>1, <3>2, <3>3, <3>5
    <3> QED BY <3>4, <3>5
  <2>3. ThinkAloud(t, node, next)
    BY <2>1
  <2>4. node \in Nodes /\ UNCHANGED <<db, requests, client, sent, jobs>>
    BY <1>7 DEF TaskWork, Nodes
  <2> HIDE DEF next, node
  <2> QED BY <2>2, <2>3, <2>4, ThinkAloudOrder
<1>8. CASE TaskReturn(t) \/ TaskFails(t)
  BY <1>8, <1>f DEF TaskReturn, TaskFails
<1>9. CASE TaskReply(t)
  <2>1. ReplyOf(t) \in Message /\ ReplyOf(t).kind # "ask"
    BY <1>t, MessageTypes DEF ReplyOf, Reply, ReplyKinds, Nodes
  <2>2. OrderedTo(Append(t.messages, ReplyOf(t)), Seen(t.event.conv))
    BY <1>o, <1>t, <2>1, OrderedAppend
  <2>3. \A c \in Conv : \/ redis'[c].messages = redis[c].messages
                        \/ OrderedTo(redis'[c].messages, Seen(c))
    BY <1>9, <1>t, <2>2, SetOrder DEF TaskReply
  <2> QED BY <1>9, <1>f, <2>3 DEF TaskReply
<1> QED BY <1>1, <1>2, <1>3, <1>4, <1>5, <1>6, <1>7, <1>8, <1>9 DEF TaskStep

(* Every step of the ticket-agent's job keeps OrderInv.                    *)
LEMMA JobOrder ==
  ASSUME TypeOK, TypeOK', OrderInv, NEW j \in jobs,
         JobStep(j) \/ TicketGraphFails(j) \/ TicketFails(j)
  PROVE  OrderInv'
<1> USE DEF storeVars, brokerVars, userVars
<1>t. /\ j \in Job /\ j.event.conv \in Conv /\ j.event.turn \in Turn
      /\ j.messages \in Seq(Message)
  BY DEF TypeOK, Job, AcceptEvent
<1>o. /\ OrderedTo(j.messages, Seen(j.event.conv))
      /\ OrderedTo(redis[j.event.conv].messages, Seen(j.event.conv))
  BY <1>t DEF OrderInv, CopiesInOrder
<1>b. ASSUME NEW k, JobBecomes(j, k), k.event = j.event,
             k.messages \in {j.messages, redis[j.event.conv].messages},
             \A c \in Conv : \/ redis'[c].messages = redis[c].messages
                             \/ OrderedTo(redis'[c].messages, Seen(c)),
             UNCHANGED <<db, requests, client, sent, tasks>>
      PROVE  OrderInv'
  <2>1. \A i \in jobs' : i \in jobs \/ OrderedTo(i.messages, Seen(i.event.conv))
    BY <1>b, <1>o DEF JobBecomes
  <2> QED BY <1>b, <2>1, QuietOrder
<1>a. /\ [j EXCEPT !.pc = "ack"].event = j.event
      /\ [j EXCEPT !.pc = "ack"].messages = j.messages
  BY <1>t DEF Job
<1>1. CASE TicketLoad(j)
  <2> DEFINE k == [j EXCEPT !.pc = "create",
                            !.messages = redis[j.event.conv].messages]
  <2>1. k.event = j.event /\ k.messages = redis[j.event.conv].messages
    BY <1>t DEF Job
  <2>2. /\ JobBecomes(j, k) \/ JobBecomes(j, [j EXCEPT !.pc = "ack"])
        /\ UNCHANGED <<redis, db, requests, client, sent, tasks>>
    BY <1>1 DEF TicketLoad
  <2> HIDE DEF k
  <2> QED BY <1>a, <1>b, <2>1, <2>2
<1>2. CASE TicketCreate(j) \/ TicketGraphFails(j)
  <2> DEFINE k == [j EXCEPT !.pc = "reply"]
             l == [j EXCEPT !.pc = "reply", !.error = TRUE]
  <2>1. /\ k.event = j.event /\ k.messages = j.messages
        /\ l.event = j.event /\ l.messages = j.messages
    BY <1>t DEF Job
  <2>2. /\ JobBecomes(j, k) \/ JobBecomes(j, l)
        /\ UNCHANGED <<redis, db, requests, client, sent, tasks>>
    BY <1>2 DEF TicketCreate, TicketGraphFails
  <2> HIDE DEF k, l
  <2> QED BY <1>b, <2>1, <2>2
<1>3. CASE TicketReply(j)
  <2> DEFINE m == Reply(IF j.error THEN "error" ELSE "tickets", "none", j.event.turn)
  <2>1. m \in Message /\ m.kind # "ask"
    BY <1>t, MessageTypes DEF Reply, ReplyKinds, Nodes
  <2>2. /\ WithoutNodes(j.messages) \in Seq(Message)
        /\ OrderedTo(WithoutNodes(j.messages), Seen(j.event.conv))
    BY <1>o, <1>t, WithoutNodesType, OrderedWithoutNodes
  <2>3. Replied(j) = Append(WithoutNodes(j.messages), m)
    BY DEF Replied
  <2> HIDE DEF m
  <2>4. OrderedTo(Replied(j), Seen(j.event.conv))
    BY <2>1, <2>2, <2>3, OrderedAppend
  <2>5. \A c \in Conv : \/ redis'[c].messages = redis[c].messages
                        \/ OrderedTo(redis'[c].messages, Seen(c))
    BY <1>3, <1>t, <2>4, SetOrder DEF TicketReply
  <2> QED BY <1>3, <1>a, <1>b, <2>5 DEF TicketReply
<1>4. CASE TicketAck(j)
  <2>1. /\ UNCHANGED <<redis, db, requests, client, sent, tasks>>
        /\ \A i \in jobs' : i \in jobs
    BY <1>4 DEF TicketAck
  <2> QED BY <2>1, QuietOrder
<1>5. CASE TicketFails(j)
  BY <1>5, <1>a, <1>b DEF TicketFails
<1> QED BY <1>1, <1>2, <1>3, <1>4, <1>5 DEF JobStep

(* Deliveries, acks, redeliveries and dying agents keep OrderInv: a task   *)
(* or a job starts without a copy.                                         *)
LEMMA QueueOrder ==
  ASSUME TypeOK, TypeOK', OrderInv,
         \/ Deliver \/ Ack \/ ArchitectCrash \/ ConsumerDisconnect
         \/ TicketDeliver \/ TicketCrash
  PROVE  OrderInv'
<1> USE DEF storeVars, userVars
<1>1. UNCHANGED <<redis, db, requests, client, sent>>
  BY DEF Deliver, Ack, ArchitectCrash, ConsumerDisconnect, TicketDeliver, TicketCrash
<1>2. \A t \in tasks' : t \in tasks \/ t.messages = << >>
  BY DEF Deliver, NewTask, Ack, ArchitectCrash, ConsumerDisconnect, TicketDeliver,
         TicketCrash
<1>3. \A j \in jobs' : j \in jobs \/ j.messages = << >>
  BY DEF Deliver, Ack, ArchitectCrash, ConsumerDisconnect, TicketDeliver, TicketCrash
<1> QED BY <1>1, <1>2, <1>3, OrderedEmpty, QuietOrder

(* A failing or dying backend keeps OrderInv: the questions its handlers   *)
(* carried are never set.                                                  *)
LEMMA BackendFaultOrder ==
  ASSUME TypeOK, TypeOK', OrderInv,
         BackendCrash \/ \E r \in requests : RequestFails(r)
  PROVE  OrderInv'
<1> USE DEF storeVars, brokerVars
<1>1. CASE BackendCrash
  <2>1. requests' = {} /\ UNCHANGED <<redis, db, sent, tasks, jobs>>
    BY <1>1 DEF BackendCrash
  <2>2. \A c \in Conv : Seen(c) <= Seen(c)'
    BY <2>1, SeenGrows
  <2>3. CopiesInOrder'
    BY <2>1, <2>2, CopiesFrame DEF OrderInv
  <2>4. PostInv'
    BY <2>1 DEF PostInv
  <2> QED BY <2>3, <2>4 DEF OrderInv
<1>2. CASE \E r \in requests : RequestFails(r)
  <2>1. PICK r \in requests : RequestFails(r)
    BY <1>2
  <2>2. /\ UNCHANGED <<redis, db, sent, tasks, jobs>>
        /\ \/ Ends(r) /\ UNCHANGED client
           \/ Posting(r) /\ Responds(r, "idle")
    BY <2>1 DEF RequestFails, Posting
  <2> QED BY <2>2, EndOrder
<1> QED BY <1>1, <1>2

(* The user's actions, a successful poll and an expiry keep OrderInv: a    *)
(* question is sent only when no earlier one is still on its way to Redis. *)
LEMMA ClientOrder ==
  ASSUME TypeOK, TypeOK', OrderInv, NEW c \in Conv,
         User(c) \/ ReceiveReply(c) \/ Expire(c)
  PROVE  OrderInv'
<1> USE DEF storeVars, brokerVars, userVars
<1>i. ASSUME client[c] = "idle", NEW r \in requests, Posting(r)
      PROVE  r.conv # c
  BY <1>i DEF OrderInv, PostInv
<1>w. ASSUME client[c] = "waiting", NEW r \in requests, Posting(r)
      PROVE  r.conv # c
  BY <1>w DEF OrderInv, PostInv
<1>g. ASSUME NEW op \in {"stop", "get"}, NEW turn, Sends(op, c, turn, "get"),
             UNCHANGED <<redis, db, tasks, jobs, sent>>,
             \A d \in Conv : d # c => client'[d] = client[d],
             \A r \in requests : Posting(r) => r.conv # c
      PROVE  OrderInv'
  <2> DEFINE u == [op |-> op, conv |-> c, turn |-> turn, pc |-> "get",
                   messages |-> << >>]
  <2>1. u.op = op /\ u.conv = c /\ u.messages = << >> /\ ~Posting(u) /\ ~Carrying(u)
    BY <1>g DEF Posting, Carrying
  <2>2. requests' = requests \cup {u}
    BY <1>g DEF Sends
  <2> HIDE DEF u
  <2>3. \A d \in Conv : Seen(d) <= Seen(d)'
    BY <1>g, <2>1, <2>2, SeenGrows
  <2>4. \A r \in requests' : r \in requests \/ OrderedTo(r.messages, Seen(r.conv)')
    BY <2>1, <2>2, OrderedEmpty
  <2>5. CopiesInOrder'
    BY <1>g, <2>3, <2>4, CopiesFrame DEF OrderInv
  <2>6. \A r \in requests : Posting(r) => client'[r.conv] = client[r.conv]
    BY <1>g, OrderTypes
  <2>7. PostInv'
    BY <1>g, <2>1, <2>2, <2>6 DEF OrderInv, PostInv
  <2> QED BY <2>5, <2>7 DEF OrderInv
<1>1. CASE SendMessage(c)
  <2>1. PICK op \in {"new", "continue"}, pc \in {"insert", "get"} :
          Sends(op, c, sent[c] + 1, pc)
    BY <1>1 DEF SendMessage
  <2>2. /\ client[c] = "idle" /\ client' = [client EXCEPT ![c] = "sending"]
        /\ sent' = [sent EXCEPT ![c] = @ + 1]
        /\ UNCHANGED <<redis, db, tasks, jobs>>
    BY <1>1 DEF SendMessage
  <2>3. /\ \A d \in Conv : d # c => client'[d] = client[d] /\ sent'[d] = sent[d]
        /\ client'[c] = "sending" /\ sent'[c] = sent[c] + 1
    BY <2>2 DEF TypeOK
  <2> DEFINE u == [op |-> op, conv |-> c, turn |-> sent[c] + 1, pc |-> pc,
                   messages |-> << >>]
  <2>4. /\ u.conv = c /\ u.messages = << >> /\ u.turn = sent[c] + 1
        /\ requests' = requests \cup {u}
    BY <2>1 DEF Sends
  <2> HIDE DEF u
  <2>5. \A r \in requests : Posting(r) => r.conv # c /\ r.conv \in Conv
    BY <1>i, <2>2, OrderTypes
  <2>6. ASSUME NEW d \in Conv PROVE Seen(d) <= Seen(d)'
    <3>1. sent[d] \in Int /\ Seen(d) \in Int
      BY OrderTypes
    <3>2. CASE d = c
      <4>1. ~Asking(d)
        BY <2>5, <3>2 DEF Asking, Carrying, Posting
      <4>2. Seen(d) = sent[d]
        BY <4>1 DEF Seen
      <4>3. Seen(d)' \in {sent'[d] - 1, sent'[d]}
        BY DEF Seen
      <4>4. sent'[d] = sent[d] + 1
        BY <2>3, <3>2
      <4> QED BY <3>1, <4>2, <4>3, <4>4
    <3>3. CASE d # c
      <4>1. Asking(d)' <=> Asking(d)
        BY <2>4, <3>3 DEF Asking
      <4>2. Seen(d)' = Seen(d)
        BY <2>3, <3>3, <4>1 DEF Seen
      <4> QED BY <3>1, <4>2
    <3> QED BY <3>2, <3>3
  <2>7. \A r \in requests' : r \in requests \/ OrderedTo(r.messages, Seen(r.conv)')
    BY <2>4, OrderedEmpty
  <2>8. CopiesInOrder'
    BY <2>2, <2>6, <2>7, CopiesFrame DEF OrderInv
  <2>9. \A r \in requests' : Posting(r) =>
          /\ client'[r.conv] = "sending"
          /\ r.turn = sent'[r.conv]
          /\ r.op = "new" => r.messages = << >>
    BY <2>3, <2>4, <2>5 DEF OrderInv, PostInv
  <2>10. \A r, q \in requests' :
           Posting(r) /\ Posting(q) /\ r.conv = q.conv => r = q
    BY <2>4, <2>5 DEF OrderInv, PostInv
  <2> QED BY <2>8, <2>9, <2>10 DEF OrderInv, PostInv
<1>2. CASE OpenChat(c)
  BY <1>2, <1>g, <1>i DEF OpenChat
<1>3. CASE Leave(c)
  <2>1. /\ client[c] = "waiting" /\ client' = [client EXCEPT ![c] = "idle"]
        /\ UNCHANGED <<redis, db, requests, tasks, jobs, sent>>
    BY <1>3 DEF Leave
  <2>2. \A r \in requests : Posting(r) => client'[r.conv] = client[r.conv]
    BY <1>w, <2>1, OrderTypes DEF TypeOK
  <2>3. PostInv'
    BY <2>1, <2>2 DEF OrderInv, PostInv
  <2>4. \A d \in Conv : Seen(d) <= Seen(d)'
    BY <2>1, SeenStays
  <2>5. CopiesInOrder'
    BY <2>1, <2>4, CopiesFrame DEF OrderInv
  <2> QED BY <2>3, <2>5 DEF OrderInv
<1>4. CASE ReceiveReply(c)
  <2>1. /\ client[c] = "waiting" /\ client' = [client EXCEPT ![c] = "idle"]
        /\ Sends("stop", c, sent[c], "get")
        /\ UNCHANGED <<redis, db, tasks, jobs, sent>>
    BY <1>4 DEF ReceiveReply
  <2>2. \A d \in Conv : d # c => client'[d] = client[d]
    BY <2>1 DEF TypeOK
  <2> QED BY <1>g, <1>w, <2>1, <2>2
<1>5. CASE Expire(c)
  <2>1. \A d \in Conv : redis'[d] = redis[d] \/ redis'[d].messages = << >>
    BY <1>5 DEF Expire, NoChat, TypeOK
  <2>2. UNCHANGED <<db, requests, client, sent, tasks, jobs>>
    BY <1>5 DEF Expire
  <2> QED BY <2>1, <2>2, OrderedEmpty, QuietOrder
<1> QED BY <1>1, <1>2, <1>3, <1>4, <1>5 DEF User

(* OrderInv is inductive.                                                  *)
LEMMA OrderStep ==
  ASSUME TypeOK, TypeOK', OrderInv, [Next]_vars
  PROVE  OrderInv'
<1>1. CASE Fault
  BY <1>1, BackendFaultOrder, QueueOrder, TaskOrder, JobOrder, ClientOrder DEF Fault
<1>2. CASE System
  BY <1>2, ClientOrder, BackendOrder, QueueOrder, TaskOrder, JobOrder DEF System
<1>3. CASE \E c \in Conv : User(c)
  BY <1>3, ClientOrder
<1>4. CASE UNCHANGED vars
  BY <1>4 DEF vars, OrderInv, PostInv, CopiesInOrder, Seen, Asking
<1> QED BY <1>1, <1>2, <1>3, <1>4 DEF Next

(* It holds at the start, where nothing was asked.                         *)
LEMMA OrderInit == Init => OrderInv
<1> SUFFICES ASSUME Init PROVE OrderInv
  OBVIOUS
<1>1. PostInv
  BY DEF Init, PostInv
<1>2. \A c \in Conv : redis[c].messages = << >> /\ db[c].messages = << >>
  BY DEF Init, NoChat, NoRow
<1>3. CopiesInOrder
  BY <1>2, OrderedEmpty DEF Init, CopiesInOrder
<1> QED BY <1>1, <1>3 DEF OrderInv

(* In every copy of a conversation's messages, wherever it is held and     *)
(* however stale, the user's questions stand in the order they were sent,  *)
(* none twice, through every race of the whole-object reads and writes and *)
(* every fault.                                                            *)
THEOREM QuestionsStayInOrder == Spec => []AsksInOrder
<1>1. TypeOK /\ TypeOK' /\ OrderInv /\ [Next]_vars => OrderInv'
  BY OrderStep
<1>2. OrderInv => AsksInOrder
  BY DEF OrderInv, CopiesInOrder, OrderedTo, AsksInOrder, HeldMessages
<1> QED BY <1>1, <1>2, OrderInit, TypeCorrect, PTL DEF Spec
=============================================================================
