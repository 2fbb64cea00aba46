------------------------- MODULE ChatPromiseProofs -------------------------
(***************************************************************************)
(* The composed system keeps its promise: as long as no process dies, no   *)
(* consumer loses its connection, no call to a store fails, no publisher   *)
(* confirm is lost and the user waits for every answer, each answer shown  *)
(* is the answer to the question asked last, epics are created only for    *)
(* plans that were shown, and what is said stays with its question.  In a  *)
(* calm system, in which besides no key expires, the user lets every       *)
(* request finish and accepts nothing, the transcript is told in full.     *)
(***************************************************************************)
EXTENDS ChatEventProofs

LastTurn(msgs) == msgs[Len(msgs)].turn

(* The answers shown are those of the first turns, one each; a turn with a *)
(* newer one is done; and a chat that a poll would take for replied to, or *)
(* whose event is about to be published, is not one of an older turn.      *)
AnswersInv ==
  \A c \in Conv :
    /\ client[c] # "idle" => sent[c] > 0
    /\ Len(answers[c]) = IF client[c] = "idle" THEN sent[c] ELSE sent[c] - 1
    /\ \A i \in 1 .. Len(answers[c]) : /\ answers[c][i].turn = i
                                       /\ answers[c][i].kind \in ReplyKinds

AnsweredAreDone ==
  \A c \in Conv, t \in Turn : t <= Len(answers[c]) => Done(c, t)

FreshInv ==
  /\ \A c \in Conv : client[c] = "waiting" /\ redis[c].agentStatus = "hasReplied" =>
                       LastTurn(redis[c].messages) = sent[c]
  /\ \A r \in requests : Posting(r) /\ r.pc = "publish" =>
                           redis[r.conv].agentStatus = "isThinking"

(* continueChat finds the conversation it is asked to continue.            *)
RowFound == \A r \in requests : r.op = "continue" => db[r.conv].here

PromiseInv == AnswersInv /\ AnsweredAreDone /\ FreshInv /\ RowFound
----------------------------------------------------------------------------
(* What a step of a reliable system may do at the tab of a user who waits. *)
LEMMA TabSteps ==
  ASSUME Reliable, ~Leaves, RowFound, [Next]_vars
  PROVE  \/ UNCHANGED <<client, sent, answers>>
         \/ \E c \in Conv : SendMessage(c) \/ ReceiveReply(c)
         \/ \E r \in requests : Publish(r)
<1> USE DEF storeVars, brokerVars, userVars
<1>n. /\ ~BackendCrash /\ ~ArchitectCrash /\ ~ConsumerDisconnect /\ ~TicketCrash
      /\ \A r \in requests : ~RequestFails(r)
      /\ \A c \in Conv : ~Leave(c)
  BY DEF Reliable, BackendCrash, ArchitectCrash, ConsumerDisconnect, TicketCrash,
         RequestFails, Fails, Leave
<1>1. CASE Fault
  BY <1>1, <1>n DEF Fault, GraphFails, TaskFails, TicketGraphFails, TicketFails, Expire
<1>2. CASE System
  <2>1. ASSUME NEW r \in requests, BackendStep(r), ~Publish(r)
        PROVE  UNCHANGED <<client, sent, answers>>
    BY <2>1 DEF BackendStep, NewInsert, ContinueGet, ContinueFind, SetThinking,
                StopGet, StopSave, StopDel, GetRead, GetUpdate, RowFound
  <2>2. CASE Deliver \/ Ack \/ TicketDeliver
    BY <2>2 DEF Deliver, Ack, TicketDeliver
  <2>3. CASE \E t \in tasks : TaskStep(t)
    BY <2>3 DEF TaskStep, TaskLoad, TaskMark, TaskIntent, TaskAccept, TaskPublish,
                TaskNote, TaskWork, TaskReturn, TaskReply
  <2>4. CASE \E j \in jobs : JobStep(j)
    BY <2>4 DEF JobStep, TicketLoad, TicketCreate, TicketReply, TicketAck
  <2> QED BY <1>2, <2>1, <2>2, <2>3, <2>4 DEF System
<1>3. CASE \E c \in Conv : User(c)
  BY <1>3, <1>n DEF User, OpenChat
<1>4. CASE UNCHANGED vars
  BY <1>4 DEF vars
<1> QED BY <1>1, <1>2, <1>3, <1>4 DEF Next

(* Only the agents' replies leave a chat marked hasReplied that was not so *)
(* before; each goes to the turn of its event.                             *)
LEMMA StatusStep ==
  ASSUME TypeOK, [Next]_vars, NEW c \in Conv, redis'[c].agentStatus = "hasReplied"
  PROVE  \/ redis'[c] = redis[c]
         \/ \E t \in tasks : TaskReply(t) /\ t.event.conv = c
         \/ \E j \in jobs : TicketReply(j) /\ j.event.conv = c
<1> USE DEF storeVars, brokerVars, userVars
<1>t. /\ \A r \in requests : r.conv \in Conv
      /\ \A t \in tasks : t.event.conv \in Conv
      /\ \A j \in jobs : j.event.conv \in Conv
      /\ redis \in [Conv -> Chat]
  BY DEF TypeOK, Request, Task, ChatEvent, Job, AcceptEvent
<1>s. ASSUME NEW d \in Conv, NEW msgs, NEW status, NEW ttl,
             SetChat(d, msgs, status, ttl), status = "isThinking" \/ d # c
      PROVE  redis'[c] = redis[c]
  BY <1>s, <1>t DEF SetChat
<1>n. ASSUME NEW d \in Conv, redis' = [redis EXCEPT ![d] = NoChat]
      PROVE  redis'[c] = redis[c]
  BY <1>n, <1>t DEF NoChat
<1>1. CASE Fault
  BY <1>1, <1>n DEF Fault, BackendCrash, ArchitectCrash, ConsumerDisconnect, TicketCrash,
              RequestFails, GraphFails, TaskFails, TicketGraphFails, TicketFails, Expire
<1>2. CASE System
  <2>1. CASE \E d \in Conv : ReceiveReply(d)
    BY <2>1 DEF ReceiveReply
  <2>2. ASSUME NEW r \in requests, BackendStep(r)
        PROVE  redis'[c] = redis[c]
    <3>1. CASE SetThinking(r)
      BY <1>s, <1>t, <3>1 DEF SetThinking
    <3>2. CASE StopDel(r)
      BY <1>n, <1>t, <3>2 DEF StopDel
    <3>3. CASE ~SetThinking(r) /\ ~StopDel(r)
      BY <2>2, <3>3 DEF BackendStep, NewInsert, ContinueGet, ContinueFind, Publish,
                        StopGet, StopSave, GetRead, GetUpdate
    <3> QED BY <3>1, <3>2, <3>3
  <2>3. CASE Deliver \/ Ack \/ TicketDeliver
    BY <2>3 DEF Deliver, Ack, TicketDeliver
  <2>4. ASSUME NEW t \in tasks, TaskStep(t), ~TaskReply(t)
        PROVE  redis'[c] = redis[c]
    <3>1. CASE TaskMark(t)
      BY <1>s, <1>t, <3>1 DEF TaskMark
    <3>2. CASE TaskIntent(t) \/ TaskNote(t) \/ TaskWork(t)
      <4>1. PICK node, next : ThinkAloud(t, node, next)
        BY <3>2 DEF TaskIntent, TaskNote, TaskWork
      <4>2. \/ UNCHANGED redis
            \/ \E msgs : SetChat(t.event.conv, msgs, "isThinking", FALSE)
        BY <4>1 DEF ThinkAloud
      <4> QED BY <1>s, <1>t, <4>2
    <3>3. CASE TaskLoad(t) \/ TaskAccept(t) \/ TaskPublish(t) \/ TaskReturn(t)
      BY <3>3 DEF TaskLoad, TaskAccept, TaskPublish, TaskReturn
    <3> QED BY <2>4, <3>1, <3>2, <3>3 DEF TaskStep
  <2>5. ASSUME NEW t \in tasks, TaskReply(t), t.event.conv # c
        PROVE  redis'[c] = redis[c]
    BY <1>s, <1>t, <2>5 DEF TaskReply
  <2>6. ASSUME NEW j \in jobs, JobStep(j), ~TicketReply(j) \/ j.event.conv # c
        PROVE  redis'[c] = redis[c]
    <3>1. CASE TicketReply(j)
      BY <1>s, <1>t, <2>6, <3>1 DEF TicketReply
    <3>2. CASE ~TicketReply(j)
      BY <2>6, <3>2 DEF JobStep, TicketLoad, TicketCreate, TicketAck
    <3> QED BY <3>1, <3>2
  <2>7. (\E j \in jobs : JobStep(j)) =>
          \/ \E j \in jobs : JobStep(j) /\ (~TicketReply(j) \/ j.event.conv # c)
          \/ \E j \in jobs : TicketReply(j) /\ j.event.conv = c
    OBVIOUS
  <2>8. (\E t \in tasks : TaskStep(t)) =>
          \/ \E t \in tasks : TaskStep(t) /\ ~TaskReply(t)
          \/ \E t \in tasks : TaskReply(t) /\ t.event.conv # c
          \/ \E t \in tasks : TaskReply(t) /\ t.event.conv = c
    OBVIOUS
  <2> QED BY <1>2, <2>1, <2>2, <2>3, <2>4, <2>5, <2>6, <2>7, <2>8 DEF System
<1>3. CASE \E d \in Conv : User(d)
  BY <1>3 DEF User, SendMessage, OpenChat, Leave
<1>4. CASE UNCHANGED vars
  BY <1>4 DEF vars
<1> QED BY <1>1, <1>2, <1>3, <1>4 DEF Next

(* Rows stay, so a continueChat that is sent finds its own.                *)
LEMMA RowFoundStep ==
  ASSUME TypeOK, RowFound, [Next]_vars
  PROVE  RowFound'
<1> USE DEF storeVars, brokerVars, userVars
<1>r. \A r \in requests : r.conv \in Conv
  BY DEF TypeOK, Request
<1>q. ASSUME \A c \in Conv : db[c].here => db'[c].here,
             \A r \in requests' : \/ r.op # "continue"
                                  \/ \E q \in requests : q.op = r.op /\ q.conv = r.conv
      PROVE  RowFound'
  BY <1>q, <1>r DEF RowFound
<1>u. UNCHANGED db => \A c \in Conv : db[c].here => db'[c].here
  OBVIOUS
<1>s. ASSUME NEW r \in requests, NEW pc, NEW msgs, Step(r, pc, msgs)
      PROVE  \A p \in requests' : \E q \in requests : q.op = p.op /\ q.conv = p.conv
  <2> DEFINE u == [r EXCEPT !.pc = pc, !.messages = msgs]
  <2>1. u.op = r.op /\ u.conv = r.conv
    BY DEF TypeOK, Request
  <2>2. requests' = (requests \ {r}) \cup {u}
    BY <1>s DEF Step
  <2> HIDE DEF u
  <2> QED BY <2>1, <2>2
<1>m. ASSUME NEW r \in requests, Persist(r) PROVE \A c \in Conv : db[c].here => db'[c].here
  BY <1>m, <1>r DEF Persist, TypeOK, Row
<1>1. CASE Fault
  BY <1>1, <1>q, <1>u DEF Fault, BackendCrash, ArchitectCrash, ConsumerDisconnect,
              TicketCrash, RequestFails, Responds, Ends, GraphFails, TaskFails,
              TicketGraphFails, TicketFails, Expire
<1>2. CASE System
  <2>1. CASE \E c \in Conv : ReceiveReply(c)
    BY <2>1, <1>q DEF ReceiveReply, Sends
  <2>2. ASSUME NEW r \in requests, BackendStep(r)
        PROVE  RowFound'
    <3>1. \A c \in Conv : db[c].here => db'[c].here
      <4>1. CASE NewInsert(r)
        BY <1>r, <4>1 DEF NewInsert, FirstRow, TypeOK
      <4>2. CASE StopSave(r) \/ GetUpdate(r)
        BY <1>m, <4>2 DEF StopSave, GetUpdate
      <4>3. CASE ~NewInsert(r) /\ ~StopSave(r) /\ ~GetUpdate(r)
        BY <2>2, <4>3 DEF BackendStep, ContinueGet, ContinueFind, SetThinking, Publish,
                          StopGet, StopDel, GetRead
      <4> QED BY <4>1, <4>2, <4>3
    <3>2. \/ requests' = requests \ {r}
          \/ \E pc, msgs : Step(r, pc, msgs)
      BY <2>2 DEF BackendStep, NewInsert, ContinueGet, ContinueFind, SetThinking,
                  Publish, StopGet, StopSave, StopDel, GetRead, GetUpdate, Responds,
                  Ends
    <3> QED BY <1>q, <1>s, <3>1, <3>2
  <2>3. CASE Deliver \/ Ack \/ TicketDeliver
    BY <2>3, <1>q DEF Deliver, Ack, TicketDeliver
  <2>4. CASE \E t \in tasks : TaskStep(t)
    BY <2>4, <1>q DEF TaskStep, TaskLoad, TaskMark, TaskIntent, TaskAccept, TaskPublish,
                TaskNote, TaskWork, TaskReturn, TaskReply
  <2>5. CASE \E j \in jobs : JobStep(j)
    BY <2>5, <1>q DEF JobStep, TicketLoad, TicketCreate, TicketReply, TicketAck
  <2> QED BY <1>2, <2>1, <2>2, <2>3, <2>4, <2>5 DEF System
<1>3. ASSUME NEW c \in Conv, User(c)
      PROVE  RowFound'
  <2>1. CASE SendMessage(c)
    <3>1. UNCHANGED db
      BY <2>1 DEF SendMessage
    <3>2. \A r \in requests' : r \in requests \/ (r.conv = c /\ (r.op = "continue" => db[c].here))
      BY <2>1 DEF SendMessage, Sends
    <3> QED BY <3>1, <3>2 DEF RowFound
  <2>2. CASE OpenChat(c)
    BY <2>2, <1>q DEF OpenChat, Sends
  <2>3. CASE Leave(c)
    BY <2>3, <1>q DEF Leave
  <2> QED BY <1>3, <2>1, <2>2, <2>3 DEF User
<1>4. CASE UNCHANGED vars
  BY <1>4, <1>q DEF vars
<1> QED BY <1>1, <1>2, <1>3, <1>4 DEF Next
----------------------------------------------------------------------------
(* Whoever replies, replies to the turn sent last, after its event was     *)
(* published: the older ones are done.                                     *)
LEMMA RepliesAreFresh ==
  ASSUME TypeOK, EventInv, AnswersInv, AnsweredAreDone, NEW c \in Conv, NEW n \in Turn,
         fate[c][n] # "unsent", ~Done(c, n)
  PROVE  /\ n = sent[c]
         /\ \A r \in requests : Posting(r) => r.conv # c
<1>t. sent[c] \in Int /\ n \in Int /\ Len(answers[c]) \in Int
  BY OrderTypes DEF Turn, TypeOK
<1>1. n <= sent[c]
  <2>1. ~(n > sent[c])
    BY DEF EventInv, TurnInv
  <2> QED BY <1>t, <2>1
<1>2. n > Len(answers[c])
  BY <1>t DEF AnsweredAreDone
<1>3. n = sent[c]
  BY <1>1, <1>2, <1>t DEF AnswersInv
<1>4. \A r \in requests : Posting(r) => r.conv # c
  <2> SUFFICES ASSUME NEW r \in requests, Posting(r), r.conv = c PROVE FALSE
    OBVIOUS
  <2>1. r.turn = n
    BY <1>3 DEF EventInv, OrderInv, PostInv
  <2>2. fate[c][n] = "unsent"
    BY <2>1 DEF EventInv, TurnInv
  <2> QED BY <2>2
<1> QED BY <1>3, <1>4

(* The turn of a task about to reply is neither unsent nor done ...        *)
LEMMA TaskTurn ==
  ASSUME TypeOK, EventInv, NEW t \in tasks, TaskReply(t)
  PROVE  LET c == t.event.conv
             n == t.event.turn
         IN  c \in Conv /\ n \in Turn /\ fate[c][n] # "unsent" /\ ~Done(c, n)
<1>1. ~Handing(t)
  BY DEF TaskReply, Replies, Handing
<1>2. /\ t.event.conv \in Conv /\ t.event.turn \in Turn
      /\ ~Handed(t.event.conv, t.event.turn)
  BY <1>1, NotYetHanded DEF EventInv
<1>3. fate[t.event.conv][t.event.turn] = "published"
  BY DEF EventInv, TurnInv
<1> QED BY <1>2, <1>3 DEF Done

(* ... and so is that of a job.                                            *)
LEMMA JobTurn ==
  ASSUME TypeOK, EventInv, NEW j \in jobs, TicketReply(j)
  PROVE  LET c == j.event.conv
             n == j.event.turn
         IN  c \in Conv /\ n \in Turn /\ fate[c][n] # "unsent" /\ ~Done(c, n)
<1>1. j.event.conv \in Conv /\ j.event.turn \in Turn
  BY DEF TypeOK, Job, AcceptEvent
<1>2. Handed(j.event.conv, j.event.turn) /\ Pending(j.event.conv, j.event.turn)
  BY DEF EventInv, AcceptInv, Pending, TicketReply
<1>3. fate[j.event.conv][j.event.turn] \in {"accepted", "published"}
  BY <1>2 DEF Handed, EventInv, TurnInv
<1> QED BY <1>1, <1>2, <1>3 DEF Done

(* The reply stands at the end of what is set.                             *)
LEMMA LastTurnOfAppend ==
  ASSUME NEW msgs \in Seq(Message), NEW m \in Message
  PROVE  LastTurn(Append(msgs, m)) = m.turn
<1>1. Len(Append(msgs, m)) = Len(msgs) + 1 /\ Append(msgs, m)[Len(msgs) + 1] = m
  OBVIOUS
<1> QED BY <1>1 DEF LastTurn

(* A chat newly marked hasReplied is one of the turn sent last, and no     *)
(* POST of the conversation is under way.                                  *)
LEMMA NewlyReplied ==
  ASSUME TypeOK, EventInv, AnswersInv, AnsweredAreDone, [Next]_vars,
         NEW c \in Conv, redis'[c].agentStatus = "hasReplied"
  PROVE  \/ redis'[c] = redis[c]
         \/ /\ LastTurn(redis'[c].messages) = sent[c]
            /\ \A r \in requests : Posting(r) => r.conv # c
            /\ UNCHANGED <<requests, client, sent>>
<1> USE DEF storeVars, brokerVars, userVars
<1>1. ASSUME NEW t \in tasks, TaskReply(t), t.event.conv = c
      PROVE  /\ LastTurn(redis'[c].messages) = sent[c]
             /\ \A r \in requests : Posting(r) => r.conv # c
             /\ UNCHANGED <<requests, client, sent>>
  <2>1. /\ t.event.turn = sent[c]
        /\ \A r \in requests : Posting(r) => r.conv # c
    BY <1>1, TaskTurn, RepliesAreFresh
  <2>2. t \in Task /\ t.messages \in Seq(Message) /\ t.event.turn \in Turn
    BY DEF TypeOK, Task, ChatEvent
  <2>3. ReplyOf(t) \in Message /\ ReplyOf(t).turn = t.event.turn
    BY <2>2, MessageTypes DEF ReplyOf, Reply, ReplyKinds, Nodes
  <2>4. redis'[c].messages = Append(t.messages, ReplyOf(t))
    BY <1>1 DEF TaskReply, SetChat, TypeOK
  <2> QED BY <1>1, <2>1, <2>2, <2>3, <2>4, LastTurnOfAppend DEF TaskReply
<1>2. ASSUME NEW j \in jobs, TicketReply(j), j.event.conv = c
      PROVE  /\ LastTurn(redis'[c].messages) = sent[c]
             /\ \A r \in requests : Posting(r) => r.conv # c
             /\ UNCHANGED <<requests, client, sent>>
  <2>1. /\ j.event.turn = sent[c]
        /\ \A r \in requests : Posting(r) => r.conv # c
    BY <1>2, JobTurn, RepliesAreFresh
  <2>2. j \in Job /\ j.messages \in Seq(Message) /\ j.event.turn \in Turn
    BY DEF TypeOK, Job, AcceptEvent
  <2> DEFINE m == Reply(IF j.error THEN "error" ELSE "tickets", "none", j.event.turn)
  <2>3. m \in Message /\ m.turn = j.event.turn
    BY <2>2, MessageTypes DEF Reply, ReplyKinds, Nodes
  <2>4. redis'[c].messages = Append(WithoutNodes(j.messages), m)
    BY <1>2 DEF TicketReply, SetChat, TypeOK, Replied
  <2> HIDE DEF m
  <2>5. WithoutNodes(j.messages) \in Seq(Message)
    BY <2>2, WithoutNodesType
  <2> QED BY <1>2, <2>1, <2>3, <2>4, <2>5, LastTurnOfAppend DEF TicketReply
<1> QED BY <1>1, <1>2, StatusStep

(* Only a SET of continueChat or newChat leads to the publish.             *)
LEMMA PublishingStep ==
  ASSUME TypeOK, [Next]_vars, NEW r \in requests', r.pc = "publish"
  PROVE  \/ r \in requests
         \/ \E q \in requests : SetThinking(q) /\ q.conv = r.conv
<1> USE DEF storeVars, brokerVars, userVars
<1>e. requests' \subseteq requests => r \in requests
  OBVIOUS
<1>s. ASSUME NEW q \in requests, NEW pc, NEW msgs, Step(q, pc, msgs), pc # "publish"
      PROVE  r \in requests
  <2> DEFINE u == [q EXCEPT !.pc = pc, !.messages = msgs]
  <2>1. u.pc = pc
    BY DEF TypeOK, Request
  <2>2. requests' = (requests \ {q}) \cup {u}
    BY <1>s DEF Step
  <2> HIDE DEF u
  <2> QED BY <1>s, <2>1, <2>2
<1>1. CASE Fault
  BY <1>1, <1>e DEF Fault, BackendCrash, ArchitectCrash, ConsumerDisconnect,
              TicketCrash, RequestFails, Responds, Ends, GraphFails, TaskFails,
              TicketGraphFails, TicketFails, Expire
<1>2. CASE System
  <2>1. CASE \E c \in Conv : ReceiveReply(c)
    BY <2>1 DEF ReceiveReply, Sends
  <2>2. ASSUME NEW q \in requests, BackendStep(q)
        PROVE  r \in requests \/ (SetThinking(q) /\ q.conv = r.conv)
    <3>1. CASE SetThinking(q)
      <4> DEFINE u == [q EXCEPT !.pc = "publish", !.messages = q.messages]
      <4>1. u.conv = q.conv
        BY DEF TypeOK, Request
      <4>2. requests' = (requests \ {q}) \cup {u}
        BY <3>1 DEF SetThinking, Step
      <4> HIDE DEF u
      <4> QED BY <3>1, <4>1, <4>2
    <3>2. CASE ~SetThinking(q)
      <4>1. \/ requests' = requests \ {q}
            \/ \E pc \in RequestPc \ {"publish"} : \E msgs : Step(q, pc, msgs)
        BY <2>2, <3>2 DEF BackendStep, NewInsert, ContinueGet, ContinueFind, Publish,
                    StopGet, StopSave, StopDel, GetRead, GetUpdate, Responds, Ends,
                    RequestPc
      <4> QED BY <1>s, <4>1
    <3> QED BY <3>1, <3>2
  <2>3. CASE Deliver \/ Ack \/ TicketDeliver
    BY <2>3, <1>e DEF Deliver, Ack, TicketDeliver
  <2>4. CASE \E t \in tasks : TaskStep(t)
    BY <2>4, <1>e DEF TaskStep, TaskLoad, TaskMark, TaskIntent, TaskAccept, TaskPublish,
                TaskNote, TaskWork, TaskReturn, TaskReply
  <2>5. CASE \E j \in jobs : JobStep(j)
    BY <2>5, <1>e DEF JobStep, TicketLoad, TicketCreate, TicketReply, TicketAck
  <2> QED BY <1>2, <2>1, <2>2, <2>3, <2>4, <2>5 DEF System
<1>3. CASE \E c \in Conv : User(c)
  BY <1>3, <1>e DEF User, SendMessage, OpenChat, Leave, Sends
<1>4. CASE UNCHANGED vars
  BY <1>4 DEF vars
<1> QED BY <1>1, <1>2, <1>3, <1>4 DEF Next

(* What the tab waits for is never an older turn's reply.                  *)
LEMMA FreshStep ==
  ASSUME Reliable, ~Leaves, TypeOK, TypeOK', EventInv, PromiseInv, [Next]_vars
  PROVE  FreshInv'
<1> USE DEF PromiseInv
<1>1. ASSUME NEW c \in Conv, client'[c] = "waiting", redis'[c].agentStatus = "hasReplied"
      PROVE  LastTurn(redis'[c].messages) = sent'[c]
  <2>1. CASE UNCHANGED <<client, sent, answers>>
    BY <1>1, <2>1, NewlyReplied DEF FreshInv
  <2>2. ASSUME NEW d \in Conv, SendMessage(d) \/ ReceiveReply(d)
        PROVE  LastTurn(redis'[c].messages) = sent'[c]
    <3>1. client'[d] # "waiting" /\ redis' = redis
      BY <2>2 DEF SendMessage, ReceiveReply, TypeOK, storeVars
    <3>2. d # c => client'[c] = client[c] /\ sent'[c] = sent[c]
      BY <2>2 DEF SendMessage, ReceiveReply, TypeOK
    <3> QED BY <1>1, <3>1, <3>2 DEF FreshInv
  <2>3. ASSUME NEW r \in requests, Publish(r)
        PROVE  LastTurn(redis'[c].messages) = sent'[c]
    <3>1. Posting(r) /\ r.pc = "publish" /\ redis' = redis /\ sent' = sent
      BY <2>3 DEF Publish, Posting, storeVars
    <3>2. r.conv # c => client'[c] = client[c]
      BY <2>3 DEF Publish, Responds, TypeOK
    <3> QED BY <1>1, <3>1, <3>2 DEF FreshInv
  <2> QED BY <2>1, <2>2, <2>3, TabSteps
<1>2. ASSUME NEW r \in requests', Posting(r), r.pc = "publish"
      PROVE  redis'[r.conv].agentStatus = "isThinking"
  <2>1. r.conv \in Conv
    BY DEF TypeOK, Request
  <2>2. redis'[r.conv].agentStatus \in ChatStatus
    BY <2>1 DEF TypeOK, Chat
  <2>3. CASE r \in requests
    BY <1>2, <2>1, <2>2, <2>3, NewlyReplied DEF FreshInv, ChatStatus
  <2>4. ASSUME NEW q \in requests, SetThinking(q), q.conv = r.conv
        PROVE  redis'[r.conv].agentStatus = "isThinking"
    BY <2>1, <2>4 DEF SetThinking, SetChat, TypeOK
  <2> QED BY <1>2, <2>3, <2>4, PublishingStep
<1> QED BY <1>1, <1>2 DEF FreshInv

(* A poll that ends the wait shows the reply to the turn sent last.        *)
LEMMA ReplyShown ==
  ASSUME TypeOK, EventInv, RepliedEndsInReply, PromiseInv, NEW c \in Conv, ReceiveReply(c)
  PROVE  \E m \in Message :
           /\ answers' = [answers EXCEPT ![c] = Append(@, m)]
           /\ m.turn = sent[c] /\ m.kind \in ReplyKinds
           /\ \E i \in ReplyIndexes(redis[c].messages) : m = redis[c].messages[i]
<1> DEFINE msgs == redis[c].messages
<1>1. msgs \in Seq(Message)
  BY DEF TypeOK, Chat
<1>2. redis[c].agentStatus = "hasReplied" /\ client[c] = "waiting"
  BY DEF ReceiveReply, HasReplied
<1>3. msgs # << >> /\ msgs[Len(msgs)].kind \in ReplyKinds
  BY <1>2 DEF RepliedEndsInReply
<1>4. msgs[Len(msgs)].turn = sent[c]
  BY <1>2 DEF PromiseInv, FreshInv, LastTurn
<1>5. PICK m \in LatestReply(msgs) : answers' = [answers EXCEPT ![c] = Append(@, m)]
  BY DEF ReceiveReply
<1> HIDE DEF msgs
<1>6. Len(msgs) \in ReplyIndexes(msgs) /\ \A k \in ReplyIndexes(msgs) : k <= Len(msgs) /\ k \in Int
  <2>1. Len(msgs) \in 1 .. Len(msgs)
    BY <1>1, <1>3
  <2> QED BY <1>3, <2>1 DEF ReplyIndexes
<1>7. m = msgs[Len(msgs)]
  BY <1>6 DEF LatestReply
<1>8. m \in Message
  BY <1>1, LatestReplyType
<1> QED BY <1>3, <1>4, <1>5, <1>6, <1>7, <1>8 DEF msgs

(* What the answers are after one more was shown.                          *)
LEMMA AnswersAppended ==
  ASSUME TypeOK, NEW c \in Conv, NEW m \in Message,
         answers' = [answers EXCEPT ![c] = Append(@, m)]
  PROVE  /\ \A d \in Conv : d # c => answers'[d] = answers[d]
         /\ answers[c] \in Seq(Message) /\ Len(answers[c]) \in Nat
         /\ Len(answers'[c]) = Len(answers[c]) + 1
         /\ \A i \in 1 .. Len(answers[c]) : answers'[c][i] = answers[c][i]
         /\ answers'[c][Len(answers[c]) + 1] = m
<1>1. answers[c] \in Seq(Message)
  BY DEF TypeOK
<1>2. answers'[c] = Append(answers[c], m) /\ \A d \in Conv : d # c => answers'[d] = answers[d]
  BY DEF TypeOK
<1> QED BY <1>1, <1>2

(* The first answer is to the first question, and so on.                   *)
LEMMA AnswersStep ==
  ASSUME Reliable, ~Leaves, TypeOK, TypeOK', EventInv, RepliedEndsInReply, PromiseInv,
         [Next]_vars
  PROVE  AnswersInv'
<1> USE DEF PromiseInv
<1>t. \A c \in Conv : sent[c] \in Nat /\ Len(answers[c]) \in Nat
  BY DEF TypeOK
<1>f. ASSUME NEW d \in Conv, client'[d] = client[d], sent'[d] = sent[d],
             answers'[d] = answers[d]
      PROVE  /\ client'[d] # "idle" => sent'[d] > 0
             /\ Len(answers'[d]) = IF client'[d] = "idle" THEN sent'[d] ELSE sent'[d] - 1
             /\ \A i \in 1 .. Len(answers'[d]) : /\ answers'[d][i].turn = i
                                                 /\ answers'[d][i].kind \in ReplyKinds
  BY <1>f DEF AnswersInv
<1>1. CASE UNCHANGED <<client, sent, answers>>
  BY <1>1 DEF AnswersInv
<1>2. ASSUME NEW c \in Conv, SendMessage(c)
      PROVE  AnswersInv'
  <2>1. /\ client[c] = "idle" /\ client'[c] = "sending"
        /\ sent'[c] = sent[c] + 1 /\ UNCHANGED answers
        /\ \A d \in Conv : d # c => client'[d] = client[d] /\ sent'[d] = sent[d]
    BY <1>2 DEF SendMessage, TypeOK
  <2>2. /\ sent'[c] > 0
        /\ Len(answers'[c]) = sent'[c] - 1
        /\ \A i \in 1 .. Len(answers'[c]) : /\ answers'[c][i].turn = i
                                            /\ answers'[c][i].kind \in ReplyKinds
    BY <1>t, <2>1 DEF AnswersInv
  <2> QED BY <1>f, <2>1, <2>2 DEF AnswersInv
<1>3. ASSUME NEW c \in Conv, ReceiveReply(c)
      PROVE  AnswersInv'
  <2>1. PICK m \in Message :
          /\ answers' = [answers EXCEPT ![c] = Append(@, m)]
          /\ m.turn = sent[c] /\ m.kind \in ReplyKinds
    BY <1>3, ReplyShown
  <2>2. /\ client[c] = "waiting" /\ client'[c] = "idle" /\ UNCHANGED sent
        /\ \A d \in Conv : d # c => client'[d] = client[d]
    BY <1>3 DEF ReceiveReply, TypeOK
  <2>3. /\ \A d \in Conv : d # c => answers'[d] = answers[d]
        /\ Len(answers'[c]) = Len(answers[c]) + 1
        /\ \A i \in 1 .. Len(answers[c]) : answers'[c][i] = answers[c][i]
        /\ answers'[c][Len(answers[c]) + 1] = m
    BY <2>1, AnswersAppended
  <2>4. /\ Len(answers[c]) = sent[c] - 1
        /\ \A i \in 1 .. Len(answers[c]) : /\ answers[c][i].turn = i
                                           /\ answers[c][i].kind \in ReplyKinds
    BY <2>2 DEF AnswersInv
  <2>5. Len(answers'[c]) = sent'[c]
    BY <1>t, <2>2, <2>3, <2>4
  <2>6. ASSUME NEW i \in 1 .. Len(answers'[c])
        PROVE  answers'[c][i].turn = i /\ answers'[c][i].kind \in ReplyKinds
    <3>1. i \in 1 .. Len(answers[c]) \/ (i = Len(answers[c]) + 1 /\ i = sent[c])
      BY <1>t, <2>3, <2>4
    <3> QED BY <2>1, <2>3, <2>4, <3>1
  <2> QED BY <1>f, <2>2, <2>3, <2>5, <2>6 DEF AnswersInv
<1>4. ASSUME NEW r \in requests, Publish(r)
      PROVE  AnswersInv'
  <2>1. /\ client[r.conv] = "sending" /\ r.conv \in Conv
        /\ client'[r.conv] = "waiting" /\ UNCHANGED <<sent, answers>>
        /\ \A d \in Conv : d # r.conv => client'[d] = client[d]
    BY <1>4 DEF Publish, Posting, Responds, TypeOK, Request, EventInv, OrderInv, PostInv
  <2> QED BY <1>f, <2>1 DEF AnswersInv
<1> QED BY <1>1, <1>2, <1>3, <1>4, TabSteps

(* A turn that was answered is done.                                       *)
LEMMA AnsweredStep ==
  ASSUME Reliable, ~Leaves, TypeOK, TypeOK', EventInv, RepliedEndsInReply, PromiseInv,
         [Next]_vars
  PROVE  AnsweredAreDone'
<1> USE DEF PromiseInv
<1>d. \A c \in Conv, n \in Turn : Done(c, n) => Done(c, n)'
  BY DoneStep DEF EventInv, DoneTurns
<1>t. /\ \A c \in Conv : sent[c] \in Nat /\ Len(answers[c]) \in Nat
      /\ Turn \subseteq Nat
  BY DEF TypeOK, Turn
<1>1. CASE UNCHANGED answers
  BY <1>1, <1>d DEF AnsweredAreDone
<1>2. ASSUME NEW c \in Conv, ReceiveReply(c)
      PROVE  AnsweredAreDone'
  <2>1. PICK m \in Message :
          /\ answers' = [answers EXCEPT ![c] = Append(@, m)]
          /\ m.turn = sent[c]
          /\ \E i \in ReplyIndexes(redis[c].messages) : m = redis[c].messages[i]
    BY <1>2, ReplyShown
  <2>2. Fits(redis[c].messages, DoneTurns(c))
    BY DEF EventInv, CopiesFit
  <2>3. Done(c, sent[c])
    BY <2>1, <2>2 DEF Fits, DoneTurns
  <2>4. /\ \A d \in Conv : d # c => answers'[d] = answers[d]
        /\ Len(answers'[c]) = Len(answers[c]) + 1
    BY <2>1, AnswersAppended
  <2>5. Len(answers[c]) = sent[c] - 1
    BY <1>2 DEF ReceiveReply, AnswersInv
  <2>6. ASSUME NEW n \in Turn, n <= Len(answers'[c]) PROVE Done(c, n)
    <3>1. n <= Len(answers[c]) \/ n = sent[c]
      BY <1>t, <2>4, <2>5, <2>6
    <3> QED BY <2>3, <3>1 DEF AnsweredAreDone
  <2> QED BY <1>d, <2>4, <2>6 DEF AnsweredAreDone
<1>3. (\E c \in Conv : SendMessage(c)) \/ (\E r \in requests : Publish(r)) => UNCHANGED answers
  BY DEF SendMessage, Publish
<1> QED BY <1>1, <1>2, <1>3, TabSteps

(* The turns of messages, as the abstraction of the answers takes them.    *)
TurnsOf(msgs) == [i \in 1 .. Len(msgs) |-> msgs[i].turn]

(* There is one for each message.                                          *)
LEMMA TurnsLen ==
  ASSUME NEW msgs \in Seq(Message)
  PROVE  TurnsOf(msgs) \in Seq(Turn) /\ Len(TurnsOf(msgs)) = Len(msgs)
<1>1. Len(msgs) \in Nat /\ \A i \in 1 .. Len(msgs) : msgs[i] \in Message
  OBVIOUS
<1>2. \A i \in 1 .. Len(msgs) : msgs[i].turn \in Turn
  BY <1>1 DEF Message
<1> QED BY <1>1, <1>2 DEF TurnsOf

(* One more message adds its turn.                                         *)
LEMMA TurnsAppend ==
  ASSUME NEW msgs \in Seq(Message), NEW m \in Message
  PROVE  TurnsOf(Append(msgs, m)) = Append(TurnsOf(msgs), m.turn)
<1> DEFINE a == Append(msgs, m)
           b == Append(TurnsOf(msgs), m.turn)
           l == Len(msgs)
<1>1. /\ a \in Seq(Message) /\ Len(a) = l + 1 /\ l \in Nat
      /\ \A i \in 1 .. l : a[i] = msgs[i]
      /\ a[l + 1] = m
  BY AppendType
<1>2. m.turn \in Turn
  BY DEF Message
<1>3. /\ b \in Seq(Turn) /\ Len(b) = l + 1
      /\ \A i \in 1 .. l : b[i] = TurnsOf(msgs)[i]
      /\ b[l + 1] = m.turn
  BY <1>2, TurnsLen, AppendType
<1>4. TurnsOf(a) \in Seq(Turn) /\ Len(TurnsOf(a)) = l + 1
  BY <1>1, TurnsLen
<1> HIDE DEF a, b
<1>5. ASSUME NEW i \in 1 .. l + 1 PROVE TurnsOf(a)[i] = b[i]
  <2>1. TurnsOf(a)[i] = a[i].turn
    BY <1>1 DEF TurnsOf
  <2>2. i = l + 1 \/ i \in 1 .. l
    BY <1>1
  <2>3. i \in 1 .. l => TurnsOf(msgs)[i] = msgs[i].turn
    BY DEF TurnsOf
  <2> QED BY <1>1, <1>3, <2>1, <2>2, <2>3
<1>6. TurnsOf(a) = b
  BY <1>3, <1>4, <1>5
<1> QED BY <1>6 DEF a, b

(* Each step is one of the abstract user's or none of his.                 *)
LEMMA PromiseStep ==
  ASSUME Reliable, ~Leaves, TypeOK, TypeOK', EventInv, RepliedEndsInReply, PromiseInv,
         [Next]_vars
  PROVE  [Promise!Next]_(Promise!vars)
<1> USE DEF PromiseInv
<1>t. \A c \in Conv : /\ sent[c] \in Nat /\ answers[c] \in Seq(Message)
                      /\ Len(answers[c]) \in Nat
  BY DEF TypeOK
<1> DEFINE Shown(ans) == [c \in Conv |-> [i \in 1 .. Len(ans[c]) |-> ans[c][i].turn]]
<1>l. \A c \in Conv : /\ Shown(answers)[c] = TurnsOf(answers[c])
                      /\ Len(Shown(answers)[c]) = Len(answers[c])
  BY <1>t, TurnsLen DEF TurnsOf
<1>1. CASE UNCHANGED <<client, sent, answers>>
  BY <1>1 DEF Promise!vars
<1>2. ASSUME NEW c \in Conv, SendMessage(c)
      PROVE  Promise!AskQuestion(c)
  <2>1. /\ client[c] = "idle" /\ sent[c] < MaxTurns
        /\ sent' = [sent EXCEPT ![c] = @ + 1] /\ UNCHANGED answers
    BY <1>2 DEF SendMessage
  <2>2. Len(answers[c]) = sent[c]
    BY <2>1 DEF AnswersInv
  <2>3. Len(Shown(answers)[c]) = sent[c] /\ Shown(answers') = Shown(answers)
    BY <1>l, <2>1, <2>2
  <2> QED BY <2>1, <2>3 DEF Promise!AskQuestion
<1>3. ASSUME NEW c \in Conv, ReceiveReply(c)
      PROVE  Promise!ShowAnswer(c)
  <2>1. PICK m \in Message :
          /\ answers' = [answers EXCEPT ![c] = Append(@, m)]
          /\ m.turn = sent[c]
    BY <1>3, ReplyShown
  <2>2. client[c] = "waiting" /\ UNCHANGED sent
    BY <1>3 DEF ReceiveReply
  <2>3. Len(answers[c]) = sent[c] - 1 /\ sent[c] > 0
    BY <2>2 DEF AnswersInv
  <2>4. Len(Shown(answers)[c]) < sent[c]
    BY <1>t, <1>l, <2>3
  <2>5. /\ \A d \in Conv : d # c => answers'[d] = answers[d]
        /\ answers'[c] = Append(answers[c], m)
    BY <2>1 DEF TypeOK
  <2>6. TurnsOf(answers'[c]) = Append(TurnsOf(answers[c]), sent[c])
    BY <1>t, <2>1, <2>5, TurnsAppend
  <2>7. \A d \in Conv : Shown(answers')[d] = TurnsOf(answers'[d])
    BY DEF TurnsOf
  <2>8. Shown(answers') = [Shown(answers) EXCEPT ![c] = Append(@, sent[c])]
    <3>1. \A d \in Conv : Shown(answers')[d] =
                            [Shown(answers) EXCEPT ![c] = Append(@, sent[c])][d]
      BY <1>l, <2>5, <2>6, <2>7
    <3> QED BY <3>1
  <2> QED BY <2>2, <2>4, <2>8 DEF Promise!ShowAnswer
<1>4. ASSUME NEW r \in requests, Publish(r)
      PROVE  UNCHANGED Promise!vars
  BY <1>4 DEF Publish, Promise!vars
<1> QED BY <1>1, <1>2, <1>3, <1>4, TabSteps DEF Promise!Next

(* PromiseInv holds in every state.                                        *)
LEMMA PromiseInvariant ==
  ASSUME Reliable, ~Leaves
  PROVE  Spec => []PromiseInv
<1>1. Init => PromiseInv
  <2> SUFFICES ASSUME Init PROVE PromiseInv
    OBVIOUS
  <2>1. \A c \in Conv : /\ client[c] = "idle" /\ sent[c] = 0 /\ answers[c] = << >>
                        /\ Len(answers[c]) = 0
    BY DEF Init
  <2>2. AnswersInv
    <3>1. 1 .. 0 = {}
      OBVIOUS
    <3> QED BY <2>1, <3>1 DEF AnswersInv
  <2>3. AnsweredAreDone
    BY <2>1 DEF AnsweredAreDone, Turn
  <2> QED BY <2>1, <2>2, <2>3 DEF Init, PromiseInv, FreshInv, RowFound
<1>2. TypeOK /\ TypeOK' /\ EventInv /\ RepliedEndsInReply /\ PromiseInv /\ [Next]_vars
        => PromiseInv'
  BY AnswersStep, AnsweredStep, FreshStep, RowFoundStep DEF PromiseInv
<1> QED
  BY <1>1, <1>2, TypeCorrect, EventsInvariant, RepliedChatsAreAnswered, PTL DEF Spec

(* As long as no process dies, no consumer loses its connection, no call   *)
(* to a store fails, no confirm of a publish is lost and the user waits    *)
(* for every answer, each answer shown is the answer to the question asked *)
(* last, although stops, getChats and expiries race the next turn, two     *)
(* agents may work on one, and a publish or the LLM may fail.              *)
THEOREM PromiseIsKept ==
  ASSUME Reliable, ~Leaves
  PROVE  Spec => KeepsPromise
<1>1. Init => Promise!Init
  <2> SUFFICES ASSUME Init PROVE Promise!Init
    OBVIOUS
  <2>1. ASSUME NEW c \in Conv
        PROVE  [i \in 1 .. Len(answers[c]) |-> answers[c][i].turn] = << >>
    <3>1. answers[c] = << >> /\ << >> \in Seq(Message) /\ Len(<< >>) = 0
      BY DEF Init
    <3>2. TurnsOf(answers[c]) \in Seq(Turn) /\ Len(TurnsOf(answers[c])) = 0
      BY <3>1, TurnsLen
    <3>3. TurnsOf(answers[c]) = << >>
      BY <3>2
    <3> QED BY <3>3 DEF TurnsOf
  <2> QED BY <2>1 DEF Init, Promise!Init
<1>2. TypeOK /\ TypeOK' /\ EventInv /\ RepliedEndsInReply /\ PromiseInv /\ [Next]_vars
        => [Promise!Next]_(Promise!vars)
  BY PromiseStep
<1> QED
  BY <1>1, <1>2, TypeCorrect, EventsInvariant, RepliedChatsAreAnswered,
     PromiseInvariant, PTL DEF Spec, KeepsPromise, Promise!Spec
----------------------------------------------------------------------------
(* Plans and epics.  Each turn gets one reply, so there is one answer to   *)
(* what kind of reply a turn got, and every copy of it says so: what an    *)
(* agent reads in a history is what the user was shown.                    *)
In(q) == {q[i] : i \in 1 .. Len(q)}

Says(msgs, g) == \A i \in ReplyIndexes(msgs) : msgs[i].kind = g[msgs[i].turn]

Saying(G) == [c \in Conv |-> {msgs \in Seq(Message) : Says(msgs, G[c])}]

EventsSay(G) ==
  /\ \A e \in In(chatQueue) : Says(e.history, G[e.conv])
  /\ \A t \in tasks : Says(t.event.history, G[t.event.conv])
  /\ \A e \in In(acceptQueue) : G[e.conv][e.plan.turn] = "plan"
  /\ \A j \in jobs : G[j.event.conv][j.event.plan.turn] = "plan"

AllSay(G) ==
  /\ CopiesIn(Saying(G))
  /\ EventsSay(G)
  /\ \A c \in Conv : Says(answers[c], G[c])

(* The kinds of the replies given so far; "none" for a turn without one.   *)
Given == [Conv -> [Turn -> ReplyKinds \cup {"none"}]]

Agreed ==
  \E G \in Given : /\ \A c \in Conv, n \in Turn : G[c][n] # "none" => Done(c, n)
                   /\ AllSay(G)

(* Every plan an accept may refer to was shown.                            *)
HistoryShown(e) ==
  \A i \in ReplyIndexes(e.history) : e.history[i].turn <= Len(answers[e.conv])
PlanShown(e) == e.plan.turn <= Len(answers[e.conv])

PlansShown ==
  /\ \A e \in In(chatQueue) : HistoryShown(e)
  /\ \A t \in tasks : HistoryShown(t.event)
  /\ \A e \in In(acceptQueue) : PlanShown(e)
  /\ \A j \in jobs : PlanShown(j.event)

EpicInv == Agreed /\ PlansShown /\ EpicsWereShown
----------------------------------------------------------------------------
(* The events of a queue after one was added ...                           *)
LEMMA InAppended ==
  ASSUME NEW S, NEW q \in Seq(S), NEW e \in S
  PROVE  In(Append(q, e)) = In(q) \cup {e}
<1> DEFINE a == Append(q, e)
<1>1. /\ Len(q) \in Nat /\ Len(a) = Len(q) + 1
      /\ \A i \in 1 .. Len(q) : a[i] = q[i] /\ i \in 1 .. Len(a)
      /\ a[Len(q) + 1] = e /\ Len(q) + 1 \in 1 .. Len(a)
      /\ \A i \in 1 .. Len(a) : i \in 1 .. Len(q) \/ i = Len(q) + 1
  OBVIOUS
<1> HIDE DEF a
<1>2. In(a) \subseteq In(q) \cup {e}
  BY <1>1 DEF In
<1>3. In(q) \cup {e} \subseteq In(a)
  BY <1>1 DEF In
<1> QED BY <1>2, <1>3 DEF a

(* ... and after the first was taken.                                      *)
LEMMA InTaken ==
  ASSUME NEW S, NEW q \in Seq(S), q # << >>
  PROVE  In(Tail(q)) \subseteq In(q) /\ Head(q) \in In(q)
<1>1. /\ \A i \in 1 .. Len(Tail(q)) : Tail(q)[i] = q[i + 1] /\ i + 1 \in 1 .. Len(q)
      /\ Head(q) = q[1] /\ 1 \in 1 .. Len(q)
  OBVIOUS
<1> QED BY <1>1 DEF In

(* The events of a queue are of its type.                                  *)
LEMMA InTyped ==
  ASSUME NEW S, NEW q \in Seq(S)
  PROVE  In(q) \subseteq S
<1>1. \A i \in 1 .. Len(q) : q[i] \in S
  OBVIOUS
<1> QED BY <1>1 DEF In

(* Nothing is in the empty queue.                                          *)
LEMMA InEmpty == In(<< >>) = {}
<1>1. 1 .. Len(<< >>) = {}
  OBVIOUS
<1> QED BY <1>1 DEF In

(* What a copy says does not depend on its questions and thinking ...      *)
LEMMA SaysEmpty == \A g : Says(<< >>, g)
<1>1. 1 .. Len(<< >>) = {}
  OBVIOUS
<1>2. ReplyIndexes(<< >>) = {}
  BY <1>1 DEF ReplyIndexes
<1> QED BY <1>2 DEF Says

(* ... and a reply appended to it says what it is.                         *)
LEMMA SaysAppend ==
  ASSUME NEW msgs \in Seq(Message), NEW g, NEW m \in Message, Says(msgs, g),
         m.kind \in ReplyKinds => m.kind = g[m.turn]
  PROVE  Says(Append(msgs, m), g)
<1> DEFINE s == Append(msgs, m)
           l == Len(msgs) + 1
<1>1. /\ ReplyIndexes(s) \subseteq ReplyIndexes(msgs) \cup {l}
      /\ m.kind \notin ReplyKinds => ReplyIndexes(s) = ReplyIndexes(msgs)
      /\ \A i \in ReplyIndexes(msgs) : s[i] = msgs[i]
      /\ s[l] = m
  BY ReplyIndexesOfAppend
<1> HIDE DEF s, l
<1>2. Says(s, g)
  BY <1>1 DEF Says
<1> QED BY <1>2 DEF s

(* It does not depend on the nodes of the messages.                        *)
LEMMA SaysWithoutNodes ==
  ASSUME NEW msgs \in Seq(Message), NEW g, Says(msgs, g)
  PROVE  Says(WithoutNodes(msgs), g)
<1> DEFINE w == WithoutNodes(msgs)
<1>1. Len(msgs) \in Nat /\ \A i \in 1 .. Len(msgs) : msgs[i] \in Message
  OBVIOUS
<1>2. \A i \in 1 .. Len(msgs) : w[i] = [msgs[i] EXCEPT !.node = "none"]
  BY DEF WithoutNodes
<1>3. \A i \in 1 .. Len(msgs) : w[i].kind = msgs[i].kind /\ w[i].turn = msgs[i].turn
  BY <1>1, <1>2 DEF Message
<1>4. Len(w) = Len(msgs)
  BY <1>1 DEF WithoutNodes
<1> HIDE DEF w
<1>5. /\ ReplyIndexes(w) = ReplyIndexes(msgs)
      /\ ReplyIndexes(msgs) \subseteq 1 .. Len(msgs)
  BY <1>3, <1>4 DEF ReplyIndexes
<1>6. Says(w, g)
  BY <1>3, <1>5 DEF Says
<1> QED BY <1>6 DEF w

(* What is in a set Saying(G)[c].                                          *)
LEMMA InSaying ==
  \A G : \A c \in Conv : \A msgs :
    msgs \in Saying(G)[c] <=> msgs \in Seq(Message) /\ Says(msgs, G[c])
BY DEF Saying

(* Copies stay in it but for replies.                                      *)
LEMMA SayingClosed ==
  ASSUME TypeOK, NEW G, CopiesIn(Saying(G))
  PROVE  Closed(Saying(G))
<1>1. << >> \in Seq(Message)
  OBVIOUS
<1>2. \A msgs \in Seq(Message), m \in Message : Append(msgs, m) \in Seq(Message)
  OBVIOUS
<1> QED BY <1>1, <1>2, InSaying, SaysEmpty, SaysAppend, GenerallyClosed
----------------------------------------------------------------------------
(* More replies known: what was said before holds of them too.             *)
More(G, H) ==
  \A c \in Conv, n \in Turn : G[c][n] # "none" => H[c][n] = G[c][n]

(* A copy that says so says no less of more replies.                       *)
LEMMA SaysMore ==
  ASSUME NEW G, NEW H, More(G, H), NEW c \in Conv, NEW msgs \in Seq(Message),
         Says(msgs, G[c])
  PROVE  Says(msgs, H[c])
<1> SUFFICES ASSUME NEW i \in ReplyIndexes(msgs)
             PROVE  msgs[i].kind = H[c][msgs[i].turn]
  BY DEF Says
<1>1. msgs[i] \in Message /\ msgs[i].kind \in ReplyKinds
  BY DEF ReplyIndexes
<1>2. msgs[i].turn \in Turn /\ msgs[i].kind # "none"
  BY <1>1 DEF Message, ReplyKinds
<1>3. G[c][msgs[i].turn] = msgs[i].kind
  BY DEF Says
<1> QED BY <1>2, <1>3 DEF More

(* The same of everything that says so.                                    *)
LEMMA AllSayMore ==
  ASSUME TypeOK, NEW G, NEW H, More(G, H), AllSay(G)
  PROVE  AllSay(H)
<1>1. CopiesIn(Saying(H))
  BY OrderTypes, InSaying, SaysMore DEF CopiesIn, AllSay
<1>2. EventsSay(H)
  <2>q. chatQueue \in Seq(ChatEvent) /\ acceptQueue \in Seq(AcceptEvent)
    BY DEF TypeOK
  <2>t. /\ In(chatQueue) \subseteq ChatEvent
        /\ In(acceptQueue) \subseteq AcceptEvent
        /\ tasks \subseteq Task /\ jobs \subseteq Job
    BY <2>q, InTyped DEF TypeOK
  <2>1. ASSUME NEW e \in ChatEvent, Says(e.history, G[e.conv])
        PROVE  Says(e.history, H[e.conv])
    BY <2>1, SaysMore DEF ChatEvent
  <2>2. ASSUME NEW e \in AcceptEvent, G[e.conv][e.plan.turn] = "plan"
        PROVE  H[e.conv][e.plan.turn] = "plan"
    BY <2>2 DEF More, AcceptEvent, Message
  <2>3. /\ \A t \in tasks : t.event \in ChatEvent
        /\ \A j \in jobs : j.event \in AcceptEvent
    BY <2>t DEF Task, Job
  <2> QED BY <2>t, <2>1, <2>2, <2>3 DEF AllSay, EventsSay
<1>3. \A c \in Conv : Says(answers[c], H[c])
  BY SaysMore DEF AllSay, TypeOK
<1> QED BY <1>1, <1>2, <1>3 DEF AllSay

(* The plan an accept refers to is in the history it was found in.         *)
LEMMA PlanFound ==
  ASSUME NEW history, NEW m \in LatestPlan(history)
  PROVE  m.kind = "plan" /\ \E i \in ReplyIndexes(history) : m = history[i]
BY DEF LatestPlan, PlanIndexes, ReplyIndexes, ReplyKinds

(* The events after a step: those that were there, the chat event of a     *)
(* POST with the history it read, and the accept event of a plan found.    *)
LEMMA EventSteps ==
  ASSUME Reliable, TypeOK, EventInv, [Next]_vars
  PROVE  /\ \A e \in In(chatQueue') \cup {t.event : t \in tasks'} :
              \/ e \in In(chatQueue) \cup {t.event : t \in tasks}
              \/ \E r \in requests : /\ Posting(r) /\ r.pc = "publish"
                                     /\ e.conv = r.conv /\ e.history = r.messages
         /\ \A e \in In(acceptQueue') \cup {j.event : j \in jobs'} :
              \/ e \in In(acceptQueue) \cup {j.event : j \in jobs}
              \/ \E t \in tasks : /\ e.conv = t.event.conv
                                  /\ e.plan \in LatestPlan(t.event.history)
<1> USE DEF storeVars, brokerVars, userVars
<1>q. chatQueue \in Seq(ChatEvent) /\ acceptQueue \in Seq(AcceptEvent)
  BY DEF TypeOK
<1> DEFINE Chats == In(chatQueue) \cup {t.event : t \in tasks}
           Accepts == In(acceptQueue) \cup {j.event : j \in jobs}
<1>1. CASE UNCHANGED <<chatQueue, tasks, acceptQueue, jobs, fate>>
  BY <1>1
<1>2. ASSUME NEW r \in requests, Publish(r)
      PROVE  /\ UNCHANGED <<tasks, acceptQueue, jobs>>
             /\ Posting(r) /\ r.pc = "publish"
             /\ \A e \in In(chatQueue') : \/ e \in In(chatQueue)
                                          \/ e.conv = r.conv /\ e.history = r.messages
  <2> DEFINE e == [conv |-> r.conv, turn |-> r.turn, history |-> r.messages,
                   delivery |-> 0]
  <2>1. e.conv = r.conv /\ e.history = r.messages
    OBVIOUS
  <2>2. e \in ChatEvent
    BY <1>2 DEF Publish, TypeOK, Request, ChatEvent
  <2>3. /\ chatQueue' = Append(chatQueue, e) \/ chatQueue' = chatQueue
        /\ UNCHANGED <<tasks, acceptQueue, jobs>>
        /\ Posting(r) /\ r.pc = "publish"
    BY <1>2 DEF Publish, Posting
  <2> HIDE DEF e
  <2>4. In(Append(chatQueue, e)) = In(chatQueue) \cup {e}
    BY <1>q, <2>2, InAppended
  <2>5. In(chatQueue') \subseteq In(chatQueue) \cup {e}
    BY <2>3, <2>4
  <2> QED BY <2>1, <2>3, <2>5
<1>3. ASSUME Deliver
      PROVE  /\ UNCHANGED <<acceptQueue, jobs>>
             /\ In(chatQueue') \cup {u.event : u \in tasks'} \subseteq Chats
  <2> DEFINE h == Head(chatQueue)
             u == NewTask(h)
  <2>1. /\ chatQueue # << >> /\ chatQueue' = Tail(chatQueue)
        /\ tasks' = tasks \cup {u} /\ UNCHANGED <<acceptQueue, jobs>>
    BY <1>3 DEF Deliver
  <2>2. u.event = h
    BY DEF NewTask
  <2>3. In(Tail(chatQueue)) \subseteq In(chatQueue) /\ h \in In(chatQueue)
    BY <1>q, <2>1, InTaken
  <2> HIDE DEF h, u
  <2> QED BY <2>1, <2>2, <2>3
<1>4. ASSUME NEW t \in tasks, TaskStep(t) \/ GraphFails(t)
      PROVE  /\ UNCHANGED <<chatQueue, jobs>>
             /\ {u.event : u \in tasks'} \subseteq {u.event : u \in tasks}
             /\ \A e \in In(acceptQueue') :
                  \/ e \in In(acceptQueue)
                  \/ /\ e.conv = t.event.conv
                     /\ e.plan \in LatestPlan(t.event.history)
  <2>1. /\ UNCHANGED <<chatQueue, jobs>>
        /\ {u.event : u \in tasks'} \subseteq {u.event : u \in tasks}
    BY <1>4, TaskMoves DEF Becomes, Finishes
  <2>2. UNCHANGED acceptQueue \/ TaskPublish(t)
    BY <1>4, TaskHands DEF EventInv
  <2>3. ASSUME TaskPublish(t), acceptQueue' # acceptQueue
        PROVE  \A e \in In(acceptQueue') :
                  \/ e \in In(acceptQueue)
                  \/ /\ e.conv = t.event.conv
                     /\ e.plan \in LatestPlan(t.event.history)
    <3>1. PICK m \in LatestPlan(t.event.history) :
            acceptQueue' = Append(acceptQueue,
              [conv |-> t.event.conv, turn |-> t.event.turn, plan |-> m,
               delivery |-> 0])
      BY <2>3 DEF TaskPublish, HandsOver
    <3> DEFINE e == [conv |-> t.event.conv, turn |-> t.event.turn, plan |-> m,
                     delivery |-> 0]
    <3>2. e.conv = t.event.conv /\ e.plan = m
      OBVIOUS
    <3>3. e \in AcceptEvent
      <4>1. /\ t.event.conv \in Conv /\ t.event.turn \in Turn
            /\ t.event.history \in Seq(Message)
        BY DEF TypeOK, Task, ChatEvent
      <4>2. m \in Message
        BY <4>1, LatestPlanType
      <4> QED BY <4>1, <4>2 DEF AcceptEvent
    <3>4. acceptQueue' = Append(acceptQueue, e)
      BY <3>1
    <3> HIDE DEF e
    <3> QED BY <1>q, <3>2, <3>3, <3>4, InAppended
  <2> QED BY <2>1, <2>2, <2>3
<1>5. ASSUME TicketDeliver
      PROVE  /\ UNCHANGED <<chatQueue, tasks>>
             /\ In(acceptQueue') \cup {k.event : k \in jobs'} \subseteq Accepts
  <2> DEFINE h == Head(acceptQueue)
             k == [event |-> h, pc |-> "load", messages |-> << >>, error |-> FALSE]
  <2>1. /\ acceptQueue # << >> /\ acceptQueue' = Tail(acceptQueue)
        /\ jobs' = {k} /\ UNCHANGED <<chatQueue, tasks>>
    BY <1>5 DEF TicketDeliver
  <2>2. k.event = h
    OBVIOUS
  <2>3. In(Tail(acceptQueue)) \subseteq In(acceptQueue) /\ h \in In(acceptQueue)
    BY <1>q, <2>1, InTaken
  <2> HIDE DEF h, k
  <2> QED BY <2>1, <2>2, <2>3
<1>6. ASSUME NEW j \in jobs, JobStep(j) \/ TicketGraphFails(j)
      PROVE  /\ UNCHANGED <<chatQueue, tasks, acceptQueue>>
             /\ {k.event : k \in jobs'} \subseteq {k.event : k \in jobs}
  <2>1. {k.event : k \in jobs'} \subseteq {k.event : k \in jobs}
    BY <1>6, JobMoves DEF JobBecomes
  <2>2. UNCHANGED <<chatQueue, tasks, acceptQueue>>
    BY <1>6 DEF JobStep, TicketLoad, TicketCreate, TicketReply, TicketAck,
                TicketGraphFails
  <2> QED BY <2>1, <2>2
<1>7. ASSUME NEW r \in requests, Publish(r)
      PROVE  /\ \A e \in In(chatQueue') \cup {t.event : t \in tasks'} :
                  \/ e \in Chats
                  \/ \E q \in requests : /\ Posting(q) /\ q.pc = "publish"
                                         /\ e.conv = q.conv /\ e.history = q.messages
             /\ \A e \in In(acceptQueue') \cup {j.event : j \in jobs'} : e \in Accepts
  BY <1>2, <1>7
<1>8. ASSUME NEW t \in tasks, TaskStep(t) \/ GraphFails(t)
      PROVE  /\ \A e \in In(chatQueue') \cup {u.event : u \in tasks'} : e \in Chats
             /\ \A e \in In(acceptQueue') \cup {j.event : j \in jobs'} :
                  \/ e \in Accepts
                  \/ \E u \in tasks : /\ e.conv = u.event.conv
                                      /\ e.plan \in LatestPlan(u.event.history)
  BY <1>4, <1>8
<1>9. ASSUME NEW j \in jobs, JobStep(j) \/ TicketGraphFails(j)
      PROVE  /\ \A e \in In(chatQueue') \cup {u.event : u \in tasks'} : e \in Chats
             /\ \A e \in In(acceptQueue') \cup {k.event : k \in jobs'} : e \in Accepts
  BY <1>6, <1>9
<1>10. \/ UNCHANGED <<chatQueue, tasks, acceptQueue, jobs, fate>>
       \/ \E r \in requests : Publish(r)
       \/ Deliver
       \/ \E t \in tasks : TaskStep(t) \/ GraphFails(t)
       \/ TicketDeliver
       \/ \E j \in jobs : JobStep(j) \/ TicketGraphFails(j)
  BY ReliableSteps
<1>11. (Deliver \/ TicketDeliver) =>
         /\ \A e \in In(chatQueue') \cup {u.event : u \in tasks'} : e \in Chats
         /\ \A e \in In(acceptQueue') \cup {k.event : k \in jobs'} : e \in Accepts
  BY <1>3, <1>5
<1> QED BY <1>1, <1>7, <1>8, <1>9, <1>10, <1>11

(* The events still say so after a step.                                   *)
LEMMA EventsSayStep ==
  ASSUME Reliable, TypeOK, TypeOK', EventInv, NEW G, AllSay(G), [Next]_vars
  PROVE  EventsSay(G)'
<1>r. \A r \in requests : r.conv \in Conv
  BY DEF TypeOK, Request
<1>t. \A t \in tasks : t.event.conv \in Conv
  BY DEF TypeOK, Task, ChatEvent
<1>1. ASSUME NEW e \in In(chatQueue') \cup {t.event : t \in tasks'}
      PROVE  Says(e.history, G[e.conv])
  <2>1. CASE e \in In(chatQueue) \cup {t.event : t \in tasks}
    BY <2>1 DEF AllSay, EventsSay
  <2>2. ASSUME NEW r \in requests, e.conv = r.conv, e.history = r.messages
        PROVE  Says(e.history, G[e.conv])
    BY <1>r, <2>2, InSaying DEF AllSay, CopiesIn
  <2> QED BY <2>1, <2>2, EventSteps
<1>2. ASSUME NEW e \in In(acceptQueue') \cup {j.event : j \in jobs'}
      PROVE  G[e.conv][e.plan.turn] = "plan"
  <2>1. CASE e \in In(acceptQueue) \cup {j.event : j \in jobs}
    BY <2>1 DEF AllSay, EventsSay
  <2>2. ASSUME NEW t \in tasks, e.conv = t.event.conv,
               e.plan \in LatestPlan(t.event.history)
        PROVE  G[e.conv][e.plan.turn] = "plan"
    <3>1. /\ e.plan.kind = "plan"
          /\ \E i \in ReplyIndexes(t.event.history) : e.plan = t.event.history[i]
      BY <2>2, PlanFound
    <3>2. Says(t.event.history, G[t.event.conv])
      BY DEF AllSay, EventsSay
    <3> QED BY <2>2, <3>1, <3>2 DEF Says
  <2> QED BY <2>1, <2>2, EventSteps
<1>3. /\ \A q : In(q)' = In(q')
      /\ In(chatQueue)' = In(chatQueue') /\ In(acceptQueue)' = In(acceptQueue')
  BY DEF In
<1> QED BY <1>1, <1>2, <1>3 DEF EventsSay

(* So do the answers.                                                      *)
LEMMA AnswersSayStep ==
  ASSUME Reliable, ~Leaves, TypeOK, EventInv, RepliedEndsInReply, PromiseInv,
         NEW G, AllSay(G), [Next]_vars
  PROVE  \A c \in Conv : Says(answers'[c], G[c])
<1>1. CASE UNCHANGED answers
  BY <1>1 DEF AllSay
<1>2. ASSUME NEW c \in Conv, ReceiveReply(c)
      PROVE  \A d \in Conv : Says(answers'[d], G[d])
  <2>1. PICK m \in Message :
          /\ answers' = [answers EXCEPT ![c] = Append(@, m)]
          /\ \E i \in ReplyIndexes(redis[c].messages) : m = redis[c].messages[i]
    BY <1>2, ReplyShown
  <2>2. m.kind = G[c][m.turn]
    BY <2>1, InSaying DEF AllSay, CopiesIn, Says
  <2>3. /\ answers'[c] = Append(answers[c], m) /\ answers[c] \in Seq(Message)
        /\ \A d \in Conv : d # c => answers'[d] = answers[d]
    BY <2>1 DEF TypeOK
  <2>4. Says(answers'[c], G[c])
    BY <2>2, <2>3, SaysAppend DEF AllSay
  <2> QED BY <2>3, <2>4 DEF AllSay
<1>3. (\E c \in Conv : SendMessage(c)) \/ (\E r \in requests : Publish(r)) => UNCHANGED answers
  BY DEF SendMessage, Publish
<1>4. RowFound
  BY DEF PromiseInv
<1> QED BY <1>1, <1>2, <1>3, <1>4, TabSteps

(* A SET that adds a reply leaves copies that say what it is.              *)
LEMMA ReplySays ==
  ASSUME TypeOK, TypeOK', NEW G, CopiesIn(Saying(G)),
         NEW c \in Conv, NEW msgs \in Seq(Message), NEW status, NEW ttl,
         SetChat(c, msgs, status, ttl), Says(msgs, G[c]),
         UNCHANGED <<db, requests>>,
         \A t \in tasks' : t \in tasks,
         \A j \in jobs' : \E i \in jobs : i.event = j.event /\ i.messages = j.messages
  PROVE  CopiesIn(Saying(G))'
<1>1. /\ \A d \in Conv : d # c => redis'[d] = redis[d]
      /\ redis'[c].messages = msgs
  BY DEF SetChat, TypeOK
<1>2. \A d \in Conv : redis'[d].messages \in Saying(G)[d]
  BY <1>1, InSaying DEF CopiesIn
<1>3. \A j \in jobs' : j.messages \in Saying(G)[j.event.conv]
  BY DEF CopiesIn
<1> QED BY <1>2, <1>3 DEF CopiesIn

(* A reply to a turn that had none: what it is becomes known.              *)
LEMMA ReplyGiven ==
  ASSUME NEW G \in Given, NEW c \in Conv, NEW n \in Turn, G[c][n] = "none",
         NEW k \in ReplyKinds
  PROVE  \E H \in Given : /\ More(G, H) /\ H[c][n] = k
                          /\ \A d \in Conv, i \in Turn :
                               H[d][i] # "none" => G[d][i] # "none" \/ (d = c /\ i = n)
<1> DEFINE H == [G EXCEPT ![c][n] = k]
<1>1. H \in Given
  BY DEF Given
<1>2. /\ H[c][n] = k
      /\ \A d \in Conv, i \in Turn : (d = c /\ i = n) \/ H[d][i] = G[d][i]
  BY DEF Given
<1> HIDE DEF H
<1> QED BY <1>1, <1>2 DEF More

(* The reply that is set, and that its turn is done with it.               *)
LEMMA TaskReplySet ==
  ASSUME TypeOK, TypeOK', EventInv, EventInv', NEW t \in tasks, TaskReply(t)
  PROVE  LET c == t.event.conv
             n == t.event.turn
         IN  /\ c \in Conv /\ n \in Turn /\ ~Done(c, n) /\ Done(c, n)'
             /\ \E m \in Message :
                  /\ m.kind \in ReplyKinds /\ m.turn = n
                  /\ SetChat(c, Append(t.messages, m), "hasReplied", FALSE)
             /\ UNCHANGED <<db, requests>>
             /\ \A u \in tasks' : u \in tasks
             /\ \A j \in jobs' : \E i \in jobs : i.event = j.event /\ i.messages = j.messages
<1> DEFINE c == t.event.conv
           n == t.event.turn
           m == ReplyOf(t)
<1>1. c \in Conv /\ n \in Turn /\ ~Done(c, n)
  BY TaskTurn
<1>2. t \in Task /\ t.messages \in Seq(Message)
  BY DEF TypeOK, Task
<1>3. m \in Message /\ m.kind \in ReplyKinds /\ m.turn = n
  BY <1>1, MessageTypes DEF ReplyOf, Reply, ReplyKinds, Nodes
<1>4. /\ SetChat(c, Append(t.messages, m), "hasReplied", FALSE)
      /\ UNCHANGED <<db, requests, jobs>> /\ tasks' = tasks \ {t}
  BY DEF TaskReply, Finishes
<1>5. Done(c, n)'
  <2>1. redis'[c].messages = Append(t.messages, m)
    BY <1>1, <1>4 DEF SetChat, TypeOK
  <2>2. \E i \in ReplyIndexes(redis'[c].messages) : redis'[c].messages[i] = m
    <3> HIDE DEF m, c
    <3>1. /\ ReplyIndexes(Append(t.messages, m)) =
               ReplyIndexes(t.messages) \cup {Len(t.messages) + 1}
          /\ Append(t.messages, m)[Len(t.messages) + 1] = m
      BY <1>2, <1>3, ReplyIndexesOfAppend
    <3> QED BY <2>1, <3>1
  <2>3. Fits(redis'[c].messages, DoneTurns(c)')
    BY <1>1 DEF EventInv, CopiesFit
  <2> QED BY <1>3, <2>2, <2>3 DEF Fits, DoneTurns
<1> QED BY <1>1, <1>3, <1>4, <1>5

(* The same of the ticket-agent's.                                         *)
LEMMA TicketReplySet ==
  ASSUME TypeOK, TypeOK', EventInv, EventInv', NEW j \in jobs, TicketReply(j)
  PROVE  LET c == j.event.conv
             n == j.event.turn
         IN  /\ c \in Conv /\ n \in Turn /\ ~Done(c, n) /\ Done(c, n)'
             /\ \E m \in Message :
                  /\ m.kind \in ReplyKinds /\ m.turn = n
                  /\ SetChat(c, Append(WithoutNodes(j.messages), m), "hasReplied", FALSE)
             /\ UNCHANGED <<db, requests>>
             /\ \A u \in tasks' : u \in tasks
             /\ \A k \in jobs' : \E i \in jobs : i.event = k.event /\ i.messages = k.messages
<1> DEFINE c == j.event.conv
           n == j.event.turn
           m == Reply(IF j.error THEN "error" ELSE "tickets", "none", j.event.turn)
           w == WithoutNodes(j.messages)
           a == [j EXCEPT !.pc = "ack"]
<1>1. c \in Conv /\ n \in Turn /\ ~Done(c, n)
  BY JobTurn
<1>2. j \in Job /\ w \in Seq(Message)
  BY WithoutNodesType DEF TypeOK, Job
<1>3. m \in Message /\ m.kind \in ReplyKinds /\ m.turn = n
  BY <1>1, MessageTypes DEF Reply, ReplyKinds, Nodes
<1>4. /\ SetChat(c, Append(w, m), "hasReplied", FALSE)
      /\ UNCHANGED <<db, requests, tasks>> /\ jobs' = (jobs \ {j}) \cup {a}
  BY DEF TicketReply, Replied, JobBecomes
<1>5. Done(c, n)'
  <2>1. redis'[c].messages = Append(w, m)
    BY <1>1, <1>4 DEF SetChat, TypeOK
  <2>2. \E i \in ReplyIndexes(redis'[c].messages) : redis'[c].messages[i] = m
    <3> HIDE DEF m, c, w
    <3>1. /\ ReplyIndexes(Append(w, m)) = ReplyIndexes(w) \cup {Len(w) + 1}
          /\ Append(w, m)[Len(w) + 1] = m
      BY <1>2, <1>3, ReplyIndexesOfAppend
    <3> QED BY <2>1, <3>1
  <2>3. Fits(redis'[c].messages, DoneTurns(c)')
    BY <1>1 DEF EventInv, CopiesFit
  <2> QED BY <1>3, <2>2, <2>3 DEF Fits, DoneTurns
<1>6. a.event = j.event /\ a.messages = j.messages
  BY <1>2 DEF Job
<1> HIDE DEF a
<1>7. \A k \in jobs' : \E i \in jobs : i.event = k.event /\ i.messages = k.messages
  BY <1>4, <1>6
<1> QED BY <1>1, <1>3, <1>4, <1>5, <1>7

(* Every step leaves what is said of the replies in agreement.             *)
LEMMA AgreedStep ==
  ASSUME Reliable, ~Leaves, TypeOK, TypeOK', EventInv, EventInv', RepliedEndsInReply,
         PromiseInv, Agreed, [Next]_vars
  PROVE  Agreed'
<1>d. \A c \in Conv, n \in Turn : Done(c, n) => Done(c, n)'
  BY DoneStep DEF EventInv, DoneTurns
<1>0. PICK G \in Given : /\ \A c \in Conv, n \in Turn : G[c][n] # "none" => Done(c, n)
                         /\ AllSay(G)
  BY DEF Agreed
<1>1. ASSUME NEW c \in Conv, NEW n \in Turn, ~Done(c, n), Done(c, n)',
             NEW msgs \in Seq(Message), Says(msgs, G[c]),
             NEW m \in Message, m.kind \in ReplyKinds, m.turn = n,
             SetChat(c, Append(msgs, m), "hasReplied", FALSE),
             UNCHANGED <<db, requests>>,
             \A t \in tasks' : t \in tasks,
             \A j \in jobs' : \E i \in jobs : i.event = j.event /\ i.messages = j.messages
      PROVE  \E H \in Given : /\ More(G, H) /\ CopiesIn(Saying(H))'
                              /\ \A d \in Conv, i \in Turn : H[d][i] # "none" => Done(d, i)'
  <2>1. G[c][n] = "none"
    BY <1>0, <1>1
  <2>2. PICK H \in Given :
          /\ More(G, H) /\ H[c][n] = m.kind
          /\ \A d \in Conv, i \in Turn :
               H[d][i] # "none" => G[d][i] # "none" \/ (d = c /\ i = n)
    BY <1>1, <2>1, ReplyGiven
  <2>3. AllSay(H) /\ Says(msgs, H[c])
    BY <1>0, <1>1, <2>2, AllSayMore, SaysMore
  <2>4. Append(msgs, m) \in Seq(Message) /\ Says(Append(msgs, m), H[c])
    BY <1>1, <2>2, <2>3, SaysAppend
  <2>5. CopiesIn(Saying(H))'
    BY <1>1, <2>3, <2>4, ReplySays DEF AllSay
  <2>6. \A d \in Conv, i \in Turn : H[d][i] # "none" => Done(d, i)'
    BY <1>0, <1>1, <1>d, <2>2
  <2> QED BY <2>2, <2>5, <2>6
<1>2. \E H \in Given : /\ More(G, H) /\ CopiesIn(Saying(H))'
                       /\ \A d \in Conv, i \in Turn : H[d][i] # "none" => Done(d, i)'
  <2>1. CASE StillIn(Saying(G))
    <3>1. CopiesIn(Saying(G))'
      BY <2>1 DEF StillIn, CopiesIn
    <3>2. More(G, G)
      BY DEF More
    <3> QED BY <1>0, <1>d, <3>1, <3>2
  <2>2. ASSUME NEW t \in tasks, TaskReply(t)
        PROVE  \E H \in Given : /\ More(G, H) /\ CopiesIn(Saying(H))'
                                /\ \A d \in Conv, i \in Turn : H[d][i] # "none" => Done(d, i)'
    <3>1. t.messages \in Seq(Message) /\ Says(t.messages, G[t.event.conv])
      BY <1>0, OrderTypes, InSaying DEF AllSay, CopiesIn
    <3> QED BY <1>1, <2>2, <3>1, TaskReplySet
  <2>3. ASSUME NEW j \in jobs, TicketReply(j)
        PROVE  \E H \in Given : /\ More(G, H) /\ CopiesIn(Saying(H))'
                                /\ \A d \in Conv, i \in Turn : H[d][i] # "none" => Done(d, i)'
    <3>1. j.messages \in Seq(Message) /\ Says(j.messages, G[j.event.conv])
      BY <1>0, OrderTypes, InSaying DEF AllSay, CopiesIn
    <3>2. /\ WithoutNodes(j.messages) \in Seq(Message)
          /\ Says(WithoutNodes(j.messages), G[j.event.conv])
      BY <3>1, WithoutNodesType, SaysWithoutNodes
    <3> QED BY <1>1, <2>3, <3>2, TicketReplySet
  <2> QED BY <1>0, <2>1, <2>2, <2>3, CopySteps, SayingClosed DEF AllSay
<1>3. PICK H \in Given : /\ More(G, H) /\ CopiesIn(Saying(H))'
                         /\ \A d \in Conv, i \in Turn : H[d][i] # "none" => Done(d, i)'
  BY <1>2
<1>4. AllSay(H)
  BY <1>0, <1>3, AllSayMore
<1>5. EventsSay(H)'
  BY <1>4, EventsSayStep
<1>6. \A c \in Conv : Says(answers'[c], H[c])
  BY <1>4, AnswersSayStep
<1>7. AllSay(H)'
  BY <1>3, <1>5, <1>6 DEF AllSay, Says, ReplyIndexes
<1> QED BY <1>3, <1>7 DEF Agreed

(* Answers once shown stay.                                                *)
LEMMA AnswersGrow ==
  ASSUME Reliable, ~Leaves, TypeOK, EventInv, RepliedEndsInReply, PromiseInv, [Next]_vars
  PROVE  \A c \in Conv : /\ Len(answers[c]) \in Nat /\ Len(answers'[c]) \in Nat
                         /\ Len(answers'[c]) >= Len(answers[c])
                         /\ \A i \in 1 .. Len(answers[c]) : answers'[c][i] = answers[c][i]
<1>t. \A c \in Conv : Len(answers[c]) \in Nat
  BY DEF TypeOK
<1>1. CASE UNCHANGED answers
  BY <1>1, <1>t
<1>2. ASSUME NEW c \in Conv, ReceiveReply(c)
      PROVE  \A d \in Conv : /\ Len(answers'[d]) \in Nat
                             /\ Len(answers'[d]) >= Len(answers[d])
                             /\ \A i \in 1 .. Len(answers[d]) : answers'[d][i] = answers[d][i]
  <2>1. PICK m \in Message : answers' = [answers EXCEPT ![c] = Append(@, m)]
    BY <1>2, ReplyShown
  <2>2. /\ \A d \in Conv : d # c => answers'[d] = answers[d]
        /\ Len(answers'[c]) = Len(answers[c]) + 1
        /\ \A i \in 1 .. Len(answers[c]) : answers'[c][i] = answers[c][i]
    BY <2>1, AnswersAppended
  <2> QED BY <1>t, <2>2
<1>3. (\E c \in Conv : SendMessage(c)) \/ (\E r \in requests : Publish(r)) => UNCHANGED answers
  BY DEF SendMessage, Publish
<1>4. RowFound
  BY DEF PromiseInv
<1> QED BY <1>t, <1>1, <1>2, <1>3, <1>4, TabSteps

(* A POST about to publish read the replies to earlier turns only, and all *)
(* of them were shown.                                                     *)
LEMMA PostedShown ==
  ASSUME TypeOK, EventInv, PromiseInv, NEW r \in requests, Posting(r),
         NEW i \in ReplyIndexes(r.messages)
  PROVE  r.messages[i].turn <= Len(answers[r.conv])
<1> DEFINE c == r.conv
           n == r.messages[i].turn
<1>1. c \in Conv /\ n \in Turn /\ Done(c, n)
  BY OrderTypes DEF EventInv, CopiesFit, Fits, DoneTurns
<1>2. client[c] = "sending" /\ r.turn = sent[c] /\ fate[c][sent[c]] = "unsent"
  BY <1>1 DEF EventInv, OrderInv, PostInv, TurnInv
<1>3. Len(answers[c]) = sent[c] - 1
  BY <1>1, <1>2 DEF PromiseInv, AnswersInv
<1>4. fate[c][n] # "unsent"
  <2>1. \A k \in tasks : fate[k.event.conv][k.event.turn] = "published"
    BY DEF EventInv, TurnInv
  <2> QED BY <1>1, <2>1 DEF Done, Handed
<1>5. n # sent[c] /\ ~(n > sent[c])
  BY <1>1, <1>2, <1>4 DEF EventInv, TurnInv
<1>6. n \in Int /\ sent[c] \in Int
  BY <1>1, OrderTypes DEF Turn
<1> QED BY <1>3, <1>5, <1>6

(* What an accept may refer to was shown, after each step.                 *)
LEMMA PlansStep ==
  ASSUME Reliable, ~Leaves, TypeOK, TypeOK', EventInv, RepliedEndsInReply, PromiseInv,
         PlansShown, [Next]_vars
  PROVE  PlansShown'
<1>g. ASSUME NEW c \in Conv, NEW n \in Nat, n <= Len(answers[c])
      PROVE  n <= Len(answers'[c])
  BY <1>g, AnswersGrow
<1>q. chatQueue \in Seq(ChatEvent) /\ acceptQueue \in Seq(AcceptEvent)
  BY DEF TypeOK
<1>e. /\ \A e \in In(chatQueue) \cup {t.event : t \in tasks} : e \in ChatEvent
      /\ \A e \in In(acceptQueue) \cup {j.event : j \in jobs} : e \in AcceptEvent
  BY <1>q, InTyped DEF TypeOK, Task, Job
<1>h. ASSUME NEW e \in ChatEvent, NEW i \in ReplyIndexes(e.history)
      PROVE  e.conv \in Conv /\ e.history[i].turn \in Nat
  <2>1. e.conv \in Conv /\ e.history \in Seq(Message)
    BY DEF ChatEvent
  <2>2. e.history[i] \in Message
    BY <2>1 DEF ReplyIndexes
  <2> QED BY <2>1, <2>2 DEF Message, Turn
<1>1. ASSUME NEW e \in In(chatQueue') \cup {t.event : t \in tasks'},
             NEW i \in ReplyIndexes(e.history)
      PROVE  e.history[i].turn <= Len(answers'[e.conv])
  <2>1. CASE e \in In(chatQueue) \cup {t.event : t \in tasks}
    <3>1. e.history[i].turn <= Len(answers[e.conv])
      BY <2>1 DEF PlansShown, HistoryShown
    <3> QED BY <1>e, <1>g, <1>h, <2>1, <3>1
  <2>2. ASSUME NEW r \in requests, Posting(r), e.conv = r.conv, e.history = r.messages
        PROVE  e.history[i].turn <= Len(answers'[e.conv])
    <3>1. r.messages[i].turn <= Len(answers[r.conv])
      BY <2>2, PostedShown
    <3>2. r.conv \in Conv /\ r.messages \in Seq(Message)
      BY OrderTypes
    <3>3. r.messages[i] \in Message
      BY <2>2, <3>2 DEF ReplyIndexes
    <3>4. r.messages[i].turn \in Nat
      BY <3>3 DEF Message, Turn
    <3> QED BY <1>g, <2>2, <3>1, <3>2, <3>4
  <2> QED BY <2>1, <2>2, EventSteps
<1>2. ASSUME NEW e \in In(acceptQueue') \cup {j.event : j \in jobs'}
      PROVE  e.plan.turn <= Len(answers'[e.conv])
  <2>1. CASE e \in In(acceptQueue) \cup {j.event : j \in jobs}
    <3>1. e.plan.turn <= Len(answers[e.conv])
      BY <2>1 DEF PlansShown, PlanShown
    <3>2. e.conv \in Conv /\ e.plan.turn \in Nat
      BY <1>e, <2>1 DEF AcceptEvent, Message, Turn
    <3> QED BY <1>g, <3>1, <3>2
  <2>2. ASSUME NEW t \in tasks, e.conv = t.event.conv,
               e.plan \in LatestPlan(t.event.history)
        PROVE  e.plan.turn <= Len(answers'[e.conv])
    <3>1. PICK i \in ReplyIndexes(t.event.history) : e.plan = t.event.history[i]
      BY <2>2, PlanFound
    <3>2. t.event.history[i].turn <= Len(answers[t.event.conv])
      BY DEF PlansShown, HistoryShown
    <3>3. t.event \in ChatEvent
      BY <1>e
    <3> QED BY <1>g, <1>h, <2>2, <3>1, <3>2, <3>3
  <2> QED BY <2>1, <2>2, EventSteps
<1>3. In(chatQueue)' = In(chatQueue') /\ In(acceptQueue)' = In(acceptQueue')
  BY DEF In
<1>4. /\ \A e : HistoryShown(e)' <=>
                  \A i \in ReplyIndexes(e.history) :
                    e.history[i].turn <= Len(answers'[e.conv])
      /\ \A e : PlanShown(e)' <=> e.plan.turn <= Len(answers'[e.conv])
  BY DEF HistoryShown, PlanShown, ReplyIndexes
<1> QED BY <1>1, <1>2, <1>3, <1>4 DEF PlansShown

(* The epic that is created is that of a plan shown.                       *)
LEMMA EpicStep ==
  ASSUME Reliable, ~Leaves, TypeOK, TypeOK', EventInv, RepliedEndsInReply, PromiseInv,
         EpicInv, [Next]_vars
  PROVE  EpicsWereShown'
<1> USE DEF storeVars, brokerVars, userVars
<1>1. ASSUME NEW c \in Conv, NEW n \in Turn, <<c, n>> \in epics'
      PROVE  \E i \in 1 .. Len(answers[c]) : answers[c][i].kind = "plan"
                                             /\ answers[c][i].turn = n
  <2>1. CASE <<c, n>> \in epics
    BY <2>1 DEF EpicInv, EpicsWereShown
  <2>2. ASSUME NEW j \in jobs, <<c, n>> = EpicOf(j)
        PROVE  \E i \in 1 .. Len(answers[c]) : answers[c][i].kind = "plan"
                                               /\ answers[c][i].turn = n
    <3>1. c = j.event.conv /\ n = j.event.plan.turn
      BY <2>2 DEF EpicOf
    <3>2. n <= Len(answers[c]) /\ n \in 1 .. MaxTurns /\ Len(answers[c]) \in Nat
      BY <3>1 DEF EpicInv, PlansShown, PlanShown, Turn, TypeOK
    <3>3. n \in 1 .. Len(answers[c])
      BY <3>2
    <3>4. answers[c][n].turn = n /\ answers[c][n].kind \in ReplyKinds
      BY <3>3 DEF PromiseInv, AnswersInv
    <3>5. n \in ReplyIndexes(answers[c])
      BY <3>3, <3>4 DEF ReplyIndexes
    <3>6. PICK G : AllSay(G)
      BY DEF EpicInv, Agreed
    <3>7. G[c][n] = "plan" /\ Says(answers[c], G[c])
      BY <3>1, <3>6 DEF AllSay, EventsSay
    <3> QED BY <3>3, <3>4, <3>5, <3>7 DEF Says
  <2>3. \/ UNCHANGED epics
        \/ \E j \in jobs : epics' = epics \cup {EpicOf(j)}
    <3>1. CASE Fault
      BY <3>1 DEF Fault, BackendCrash, ArchitectCrash, ConsumerDisconnect, TicketCrash,
              RequestFails, GraphFails, TaskFails, TicketGraphFails, TicketFails, Expire
    <3>2. CASE \E r \in requests : BackendStep(r)
      BY <3>2 DEF BackendStep, NewInsert, ContinueGet, ContinueFind, SetThinking, Publish,
                StopGet, StopSave, StopDel, GetRead, GetUpdate
    <3>3. CASE Deliver \/ Ack \/ TicketDeliver \/ \E d \in Conv : ReceiveReply(d)
      BY <3>3 DEF Deliver, Ack, TicketDeliver, ReceiveReply
    <3>4. CASE \E t \in tasks : TaskStep(t)
      BY <3>4 DEF TaskStep, TaskLoad, TaskMark, TaskIntent, TaskAccept, TaskPublish,
                TaskNote, TaskWork, TaskReturn, TaskReply
    <3>5. CASE \E j \in jobs : JobStep(j)
      BY <3>5 DEF JobStep, TicketLoad, TicketCreate, TicketReply, TicketAck
    <3>6. CASE (\E d \in Conv : User(d)) \/ UNCHANGED vars
      BY <3>6 DEF User, SendMessage, OpenChat, Leave, vars
    <3> QED BY <3>1, <3>2, <3>3, <3>4, <3>5, <3>6 DEF Next, System
  <2> QED BY <1>1, <2>1, <2>2, <2>3
<1>2. \A c \in Conv : \A i \in 1 .. Len(answers[c]) :
        i \in 1 .. Len(answers'[c]) /\ answers'[c][i] = answers[c][i]
  BY AnswersGrow
<1> QED BY <1>1, <1>2 DEF EpicsWereShown

(* As long as no process dies, no consumer loses its connection, no call   *)
(* to a store fails, no confirm of a publish is lost and the user waits    *)
(* for every answer, epics are created only for plans the user was shown:  *)
(* the plan an accept finds in its history is the answer the tab           *)
(* displayed, whichever stale copy the history was read from.              *)
THEOREM EpicsFollowShownPlans ==
  ASSUME Reliable, ~Leaves
  PROVE  Spec => []EpicsWereShown
<1>1. Init => EpicInv
  <2> SUFFICES ASSUME Init PROVE EpicInv
    OBVIOUS
  <2>1. /\ requests = {} /\ tasks = {} /\ jobs = {} /\ epics = {}
        /\ In(chatQueue) = {} /\ In(acceptQueue) = {}
    BY InEmpty DEF Init
  <2>2. \A c \in Conv : /\ redis[c].messages = << >> /\ db[c].messages = << >>
                        /\ answers[c] = << >>
    BY DEF Init, NoChat, NoRow
  <2> DEFINE G == [c \in Conv |-> [n \in Turn |-> "none"]]
  <2>3. G \in Given /\ \A c \in Conv, n \in Turn : G[c][n] = "none"
    BY DEF Given
  <2> HIDE DEF G
  <2>4. << >> \in Seq(Message)
    OBVIOUS
  <2>5. CopiesIn(Saying(G))
    BY <2>1, <2>2, <2>4, InSaying, SaysEmpty DEF CopiesIn
  <2>6. EventsSay(G) /\ \A c \in Conv : Says(answers[c], G[c])
    BY <2>1, <2>2, SaysEmpty DEF EventsSay
  <2>7. Agreed
    BY <2>3, <2>5, <2>6 DEF Agreed, AllSay
  <2>8. PlansShown /\ EpicsWereShown
    BY <2>1 DEF PlansShown, EpicsWereShown
  <2> QED BY <2>7, <2>8 DEF EpicInv
<1>2. TypeOK /\ TypeOK' /\ EventInv /\ EventInv' /\ RepliedEndsInReply /\ PromiseInv
        /\ EpicInv /\ [Next]_vars => EpicInv'
  BY AgreedStep, PlansStep, EpicStep DEF EpicInv
<1>3. EpicInv => EpicsWereShown
  BY DEF EpicInv
<1> QED
  BY <1>1, <1>2, <1>3, TypeCorrect, EventsInvariant, RepliedChatsAreAnswered,
     PromiseInvariant, PTL DEF Spec
----------------------------------------------------------------------------
(* Turns that stay together.  As long as no turn was left to the           *)
(* ticket-agent, whatever is under the key once the question asked last is *)
(* set ends in that question or what was said about it, and so does the    *)
(* copy of the task that works on it.                                      *)
LastIs(msgs, n) == msgs # << >> /\ LastTurn(msgs) = n

Posted(c) ==
  \/ \E n \in Turn : n = sent[c] /\ fate[c][n] # "unsent"
  \/ \E r \in requests : r.conv = c /\ Posting(r) /\ r.pc = "publish"

LastInv ==
  \A c \in Conv : ~Accepted(c) =>
    /\ redis[c].here /\ Posted(c) => LastIs(redis[c].messages, sent[c])
    /\ \A t \in tasks : t.event.conv = c /\ t.pc # "load" =>
                          LastIs(t.messages, t.event.turn)

(* Appending gives the last message.                                       *)
LEMMA LastIsAppend ==
  ASSUME NEW msgs \in Seq(Message), NEW m \in Message
  PROVE  LastIs(Append(msgs, m), m.turn)
<1>1. Len(Append(msgs, m)) = Len(msgs) + 1 /\ Len(msgs) \in Nat
  OBVIOUS
<1>2. Append(msgs, m) # << >>
  BY <1>1
<1> QED BY <1>2, LastTurnOfAppend DEF LastIs

(* Accepted says that some turn was handed over.                           *)
LEMMA AcceptedIsHanded ==
  ASSUME TypeOK, TurnInv, NEW c \in Conv
  PROVE  Accepted(c) <=> \E n \in Turn : Handed(c, n)
<1>1. ASSUME NEW k \in tasks
      PROVE  /\ k.event.turn \in Turn
             /\ Handing(k) <=> (k.pc = "note" \/ (k.pc = "settle" /\ ~Replies(k)))
  <2>1. k.event.turn \in Turn /\ (k.error => k.pc = "settle")
    BY DEF TypeOK, Task, ChatEvent, TurnInv
  <2> QED BY <2>1 DEF Handing, Replies
<1> QED BY <1>1 DEF Accepted, Handed

(* That is never undone.                                                   *)
LEMMA AcceptedStays ==
  ASSUME Reliable, TypeOK, TurnInv, [Next]_vars, NEW c \in Conv, Accepted(c)
  PROVE  Accepted(c)'
<1>1. PICK n \in Turn : Handed(c, n)
  BY AcceptedIsHanded
<1>2. Handed(c, n)'
  BY <1>1, FateStep
<1> QED BY <1>2 DEF Handed, Handing, Accepted, Replies

(* A task of such a conversation works on the question asked last, whose   *)
(* POST is over.                                                           *)
LEMMA LiveTasks ==
  ASSUME TypeOK, EventInv, PromiseInv, NEW t \in tasks, ~Accepted(t.event.conv)
  PROVE  /\ t.event.conv \in Conv /\ t.event.turn \in Turn
         /\ t.event.turn = sent[t.event.conv]
         /\ Posted(t.event.conv)
<1>1. t.event.conv \in Conv /\ t.event.turn \in Turn
  BY DEF TypeOK, Task, ChatEvent
<1>2. fate[t.event.conv][t.event.turn] = "published"
  BY DEF EventInv, TurnInv
<1>3. ~Handed(t.event.conv, t.event.turn)
  BY <1>1, AcceptedIsHanded DEF EventInv
<1>4. ~Done(t.event.conv, t.event.turn)
  BY <1>2, <1>3 DEF Done
<1>5. t.event.turn = sent[t.event.conv]
  BY <1>1, <1>2, <1>4, RepliesAreFresh DEF PromiseInv
<1> QED BY <1>1, <1>2, <1>5 DEF Posted

(* What such a task sets and keeps ends in its turn.                       *)
LEMMA ThinkAloudSpeaks ==
  ASSUME TypeOK, NEW t \in tasks, NEW node \in Nodes, NEW next \in Task,
         next.event = t.event, ThinkAloud(t, node, next)
  PROVE  /\ \/ UNCHANGED redis
            \/ \E msgs, status : /\ SetChat(t.event.conv, msgs, status, FALSE)
                                 /\ LastIs(msgs, t.event.turn)
         /\ \E u : /\ Becomes(t, u) /\ u.event = t.event
                   /\ LastIs(u.messages, t.event.turn)
<1> DEFINE m == Thinking(node, t.event.turn)
           msgs == Append(t.messages, m)
           good == [next EXCEPT !.messages = msgs]
           bad  == [next EXCEPT !.messages = msgs, !.pc = "settle", !.error = TRUE]
<1>1. t.messages \in Seq(Message) /\ t.event.turn \in Turn
  BY DEF TypeOK, Task, ChatEvent
<1>2. m \in Message /\ m.turn = t.event.turn
  BY <1>1, MessageTypes DEF Thinking
<1>3. LastIs(msgs, t.event.turn)
  <2> HIDE DEF m
  <2> QED BY <1>1, <1>2, LastIsAppend
<1>4. /\ good.event = t.event /\ good.messages = msgs
      /\ bad.event = t.event /\ bad.messages = msgs
  BY DEF Task
<1>5. /\ SetChat(t.event.conv, msgs, "isThinking", FALSE) \/ UNCHANGED redis
      /\ Becomes(t, good) \/ Becomes(t, bad)
  BY DEF ThinkAloud
<1> HIDE DEF m, msgs, good, bad
<1> QED BY <1>3, <1>4, <1>5

(* So does all that a task of such a conversation sets and keeps.          *)
LEMMA TaskSpeaks ==
  ASSUME TypeOK, EventInv, PromiseInv, LastInv, NEW t \in tasks,
         TaskStep(t) \/ GraphFails(t), ~Accepted(t.event.conv)
  PROVE  /\ \/ UNCHANGED redis
            \/ \E msgs, status : /\ SetChat(t.event.conv, msgs, status, FALSE)
                                 /\ LastIs(msgs, t.event.turn)
         /\ \/ tasks' = tasks \ {t}
            \/ \E u : /\ Becomes(t, u) /\ u.event = t.event
                      /\ LastIs(u.messages, t.event.turn)
<1> USE DEF storeVars, brokerVars, userVars
<1>t. /\ t \in Task /\ t.event.conv \in Conv /\ t.event.turn \in Turn
      /\ t.event.turn = sent[t.event.conv] /\ Posted(t.event.conv)
      /\ t.messages \in Seq(Message)
      /\ t.pc # "load" => LastIs(t.messages, t.event.turn)
  BY LiveTasks DEF TypeOK, Task, LastInv
<1>b. ASSUME NEW u, Becomes(t, u), u.event = t.event, u.messages = t.messages,
             t.pc # "load"
      PROVE  \E v : /\ Becomes(t, v) /\ v.event = t.event
                    /\ LastIs(v.messages, t.event.turn)
  BY <1>b, <1>t
<1>1. CASE TaskLoad(t)
  <2>1. CASE redis[t.event.conv].here
    <3> DEFINE u == [t EXCEPT !.pc = "mark",
                              !.messages = redis[t.event.conv].messages]
    <3>1. u.event = t.event /\ u.messages = redis[t.event.conv].messages
      BY <1>t DEF Task
    <3>2. Becomes(t, u) /\ UNCHANGED redis
      BY <1>1, <2>1 DEF TaskLoad
    <3>3. LastIs(redis[t.event.conv].messages, t.event.turn)
      BY <1>t, <2>1 DEF LastInv
    <3> HIDE DEF u
    <3> QED BY <3>1, <3>2, <3>3
  <2>2. CASE ~redis[t.event.conv].here
    BY <1>1, <2>2 DEF TaskLoad, Finishes
  <2> QED BY <2>1, <2>2
<1>2. CASE TaskMark(t)
  <2> DEFINE u == [t EXCEPT !.pc = "intent"]
  <2>1. u.event = t.event /\ u.messages = t.messages
    BY <1>t DEF Task
  <2>2. /\ Becomes(t, u) /\ t.pc # "load"
        /\ SetChat(t.event.conv, t.messages, "isThinking", FALSE)
    BY <1>2 DEF TaskMark
  <2> HIDE DEF u
  <2> QED BY <1>b, <1>t, <2>1, <2>2
<1>3. CASE TaskIntent(t)
  <2>1. PICK i \in Intents \ {"accept"} :
          ThinkAloud(t, "intent_node",
            [t EXCEPT !.intent = i,
                      !.prior = IF i = "refine" THEN LatestPlan(t.event.history)
                                                ELSE {},
                      !.pc = IF i = "undefined" THEN "settle" ELSE "work"])
    BY <1>3 DEF TaskIntent
  <2> DEFINE next == [t EXCEPT !.intent = i,
                      !.prior = IF i = "refine" THEN LatestPlan(t.event.history)
                                                ELSE {},
                      !.pc = IF i = "undefined" THEN "settle" ELSE "work"]
  <2>2. next \in Task /\ next.event = t.event
    <3>1. LatestPlan(t.event.history) \in SUBSET Message
      BY <1>t, LatestPlanType DEF Task, ChatEvent
    <3>2. i \in IntentKinds
      BY ChatAssumption
    <3> QED BY <1>t, <3>1, <3>2 DEF Task
  <2>3. ThinkAloud(t, "intent_node", next) /\ "intent_node" \in Nodes
    BY <2>1 DEF Nodes
  <2> HIDE DEF next
  <2> QED BY <2>2, <2>3, ThinkAloudSpeaks
<1>4. CASE TaskAccept(t) \/ TaskPublish(t) \/ GraphFails(t)
  <2> DEFINE u == [t EXCEPT !.pc = "note"]
             v == [t EXCEPT !.pc = "publish"]
             w == [t EXCEPT !.pc = "settle", !.error = TRUE]
  <2>1. /\ u.event = t.event /\ u.messages = t.messages
        /\ v.event = t.event /\ v.messages = t.messages
        /\ w.event = t.event /\ w.messages = t.messages
    BY <1>t DEF Task
  <2>2. /\ Becomes(t, u) \/ Becomes(t, v) \/ Becomes(t, w)
        /\ t.pc # "load" /\ UNCHANGED redis
    BY <1>4 DEF TaskAccept, TaskPublish, GraphFails
  <2> HIDE DEF u, v, w
  <2> QED BY <1>b, <2>1, <2>2
<1>5. CASE TaskNote(t)
  <2> DEFINE next == [t EXCEPT !.intent = "accept", !.pc = "settle"]
  <2>1. next \in Task /\ next.event = t.event
    BY <1>t DEF Task, IntentKinds
  <2>2. ThinkAloud(t, "intent_node", next) /\ "intent_node" \in Nodes
    BY <1>5 DEF TaskNote, Nodes
  <2> HIDE DEF next
  <2> QED BY <2>1, <2>2, ThinkAloudSpeaks
<1>6. CASE TaskWork(t)
  <2>1. PICK last \in BOOLEAN :
          ThinkAloud(t, IF last THEN "reply_node" ELSE "work_node",
                     [t EXCEPT !.updates = @ + 1,
                               !.pc = IF last THEN "settle" ELSE "work"])
    BY <1>6 DEF TaskWork
  <2> DEFINE next == [t EXCEPT !.updates = @ + 1,
                               !.pc = IF last THEN "settle" ELSE "work"]
             node == IF last THEN "reply_node" ELSE "work_node"
  <2>2. next \in Task /\ next.event = t.event
    <3>1. t.updates + 1 \in Nat
      BY <1>t DEF Task
    <3>2. next = [t EXCEPT !.updates = t.updates + 1,
                           !.pc = IF last THEN "settle" ELSE "work"]
      BY <1>t DEF Task
    <3> QED BY <1>t, <3>1, <3>2 DEF Task
  <2>3. ThinkAloud(t, node, next) /\ node \in Nodes
    BY <2>1 DEF Nodes
  <2> HIDE DEF next, node
  <2> QED BY <2>2, <2>3, ThinkAloudSpeaks
<1>7. CASE TaskReturn(t)
  BY <1>7 DEF TaskReturn, Finishes
<1>8. CASE TaskReply(t)
  <2>1. ReplyOf(t) \in Message /\ ReplyOf(t).turn = t.event.turn
    BY <1>t, MessageTypes DEF ReplyOf, Reply, ReplyKinds, Nodes
  <2>2. LastIs(Append(t.messages, ReplyOf(t)), t.event.turn)
    BY <1>t, <2>1, LastIsAppend
  <2> QED BY <1>8, <2>2 DEF TaskReply, Finishes
<1> QED BY <1>1, <1>2, <1>3, <1>4, <1>5, <1>6, <1>7, <1>8 DEF TaskStep

(* What is set under the key of such a conversation ends in the question   *)
(* asked last or what was said about it.                                   *)
LEMMA AskSet ==
  ASSUME TypeOK, EventInv, NEW r \in requests, SetThinking(r)
  PROVE  /\ r.conv \in Conv /\ LastIs(redis'[r.conv].messages, sent[r.conv])
         /\ \A c \in Conv : c # r.conv => redis'[c] = redis[c]
         /\ UNCHANGED sent
<1>1. /\ r.conv \in Conv /\ r.turn \in Turn /\ r.messages \in Seq(Message)
      /\ r.turn = sent[r.conv]
  BY OrderTypes DEF TypeOK, Request, SetThinking, EventInv, OrderInv, PostInv, Posting
<1>2. Ask(r.turn) \in Message /\ Ask(r.turn).turn = r.turn
  BY <1>1, MessageTypes DEF Ask
<1>3. LastIs(Asked(r), r.turn)
  BY <1>1, <1>2, LastIsAppend DEF Asked
<1>4. /\ redis'[r.conv].messages = Asked(r)
      /\ \A c \in Conv : c # r.conv => redis'[c] = redis[c]
  BY <1>1 DEF SetThinking, SetChat, TypeOK
<1> QED BY <1>1, <1>3, <1>4 DEF SetThinking, userVars

(* So does, then, what any step sets: the key is left alone, deleted, or   *)
(* ends in the question asked last or what was said about it.              *)
LEMMA SetsOfTurn ==
  ASSUME Reliable, TypeOK, EventInv, PromiseInv, LastInv, [Next]_vars,
         NEW c \in Conv, ~Accepted(c)
  PROVE  \/ redis'[c] = redis[c]
         \/ ~redis'[c].here
         \/ LastIs(redis'[c].messages, sent[c]) /\ UNCHANGED sent
<1> USE DEF storeVars, brokerVars, userVars
<1>n. /\ ~BackendCrash /\ ~ArchitectCrash /\ ~ConsumerDisconnect /\ ~TicketCrash
      /\ \A r \in requests : ~RequestFails(r)
      /\ \A t \in tasks : ~TaskFails(t)
      /\ \A j \in jobs : ~TicketFails(j)
  BY DEF Reliable, BackendCrash, ArchitectCrash, ConsumerDisconnect, TicketCrash,
         RequestFails, TaskFails, TicketFails, Fails
<1>d. ASSUME NEW d \in Conv, redis' = [redis EXCEPT ![d] = NoChat]
      PROVE  redis'[c] = redis[c] \/ ~redis'[c].here
  BY <1>d DEF NoChat, TypeOK
<1>t. ASSUME NEW t \in tasks, TaskStep(t) \/ GraphFails(t)
      PROVE  \/ redis'[c] = redis[c]
             \/ LastIs(redis'[c].messages, sent[c]) /\ UNCHANGED sent
  <2>1. UNCHANGED sent
    BY <1>t DEF TaskStep, TaskLoad, TaskMark, TaskIntent, TaskAccept, TaskPublish,
                TaskNote, TaskWork, TaskReturn, TaskReply, GraphFails
  <2>2. CASE t.event.conv = c
    <3>1. t.event.turn = sent[c]
      BY <2>2, LiveTasks
    <3>2. \/ UNCHANGED redis
          \/ \E msgs, status : /\ SetChat(t.event.conv, msgs, status, FALSE)
                               /\ LastIs(msgs, t.event.turn)
      BY <1>t, <2>2, TaskSpeaks
    <3>3. ASSUME NEW msgs, NEW status, SetChat(c, msgs, status, FALSE),
                 LastIs(msgs, sent[c])
          PROVE  LastIs(redis'[c].messages, sent[c])
      BY <3>3 DEF SetChat, TypeOK
    <3> QED BY <2>1, <2>2, <3>1, <3>2, <3>3
  <2>3. CASE t.event.conv # c
    <3>1. t.event.conv \in Conv /\ redis \in [Conv -> Chat]
      BY DEF TypeOK, Task, ChatEvent
    <3> QED BY <1>t, <2>3, <3>1
        DEF TaskStep, TaskLoad, TaskMark, TaskIntent, TaskAccept, TaskPublish, TaskNote,
            TaskWork, TaskReturn, TaskReply, GraphFails, SetChat, ThinkAloud
  <2> QED BY <2>2, <2>3
<1>j. ASSUME NEW j \in jobs, JobStep(j) \/ TicketGraphFails(j)
      PROVE  redis'[c] = redis[c]
  <2>1. j.event.conv \in Conv /\ j.event.conv # c /\ redis \in [Conv -> Chat]
    BY AcceptedIsHanded DEF TypeOK, Job, AcceptEvent, EventInv, AcceptInv
  <2> QED BY <1>j, <2>1 DEF JobStep, TicketLoad, TicketCreate, TicketReply, TicketAck,
                            TicketGraphFails, SetChat
<1>1. CASE Fault
  <2>1. (\E d \in Conv : Expire(d)) => redis'[c] = redis[c] \/ ~redis'[c].here
    BY <1>d DEF Expire
  <2> QED BY <1>1, <1>n, <1>t, <1>j, <2>1 DEF Fault
<1>2. CASE System
  <2>1. CASE \E d \in Conv : ReceiveReply(d)
    BY <2>1 DEF ReceiveReply
  <2>2. ASSUME NEW r \in requests, BackendStep(r)
        PROVE  \/ redis'[c] = redis[c]
               \/ ~redis'[c].here
               \/ LastIs(redis'[c].messages, sent[c]) /\ UNCHANGED sent
    <3>1. CASE SetThinking(r)
      BY <3>1, AskSet
    <3>2. CASE StopDel(r)
      BY <1>d, <3>2 DEF StopDel, TypeOK, Request
    <3>3. CASE ~SetThinking(r) /\ ~StopDel(r)
      BY <2>2, <3>3 DEF BackendStep, NewInsert, ContinueGet, ContinueFind, Publish,
                        StopGet, StopSave, GetRead, GetUpdate
    <3> QED BY <3>1, <3>2, <3>3
  <2>3. CASE Deliver \/ Ack \/ TicketDeliver
    BY <2>3 DEF Deliver, Ack, TicketDeliver
  <2> QED BY <1>2, <1>t, <1>j, <2>1, <2>2, <2>3 DEF System
<1>3. CASE \E d \in Conv : User(d)
  BY <1>3 DEF User, SendMessage, OpenChat, Leave
<1>4. CASE UNCHANGED vars
  BY <1>4 DEF vars
<1> QED BY <1>1, <1>2, <1>3, <1>4 DEF Next

(* An unsent turn stays so until its POST publishes.                       *)
LEMMA UnsentStep ==
  ASSUME Reliable, TypeOK, TurnInv, [Next]_vars, NEW c \in Conv, NEW n \in Turn,
         fate[c][n] = "unsent"
  PROVE  \/ fate'[c][n] = "unsent"
         \/ \E r \in requests : Publish(r) /\ r.conv = c
<1>q. fate \in [Conv -> [Turn -> Fates]]
  BY DEF TypeOK
<1>1. CASE \E r \in requests : Publish(r)
  <2>1. PICK r \in requests : Publish(r)
    BY <1>1
  <2>2. r.conv \in Conv /\ r.turn \in Turn
    BY <2>1 DEF Publish, TypeOK, Request
  <2>3. r.conv # c => fate'[c] = fate[c]
    BY <1>q, <2>1, <2>2 DEF Publish
  <2> QED BY <2>1, <2>3
<1>2. ASSUME NEW t \in tasks, TaskStep(t) \/ GraphFails(t)
      PROVE  fate'[c][n] = "unsent"
  <2>1. /\ t.event.conv \in Conv /\ t.event.turn \in Turn
        /\ ~(t.event.conv = c /\ t.event.turn = n)
    BY DEF TypeOK, Task, ChatEvent, TurnInv
  <2>2. UNCHANGED fate \/ \E outcome : Finishes(t, outcome)
    BY <1>2, TaskMoves
  <2>3. ASSUME NEW outcome, Finishes(t, outcome) PROVE fate'[c][n] = fate[c][n]
    BY <1>q, <2>1, <2>3 DEF Finishes
  <2> QED BY <2>2, <2>3
<1>3. CASE Deliver \/ TicketDeliver \/ \E j \in jobs : JobStep(j) \/ TicketGraphFails(j)
  BY <1>3 DEF Deliver, TicketDeliver, JobStep, TicketLoad, TicketCreate, TicketReply,
              TicketAck, TicketGraphFails
<1> QED BY <1>1, <1>2, <1>3, ReliableSteps

(* The question asked last is set by its own POST only.                    *)
LEMMA PostedStep ==
  ASSUME Reliable, ~Leaves, TypeOK, TypeOK', EventInv, PromiseInv, [Next]_vars,
         NEW c \in Conv, Posted(c)', \A q \in requests : SetThinking(q) => q.conv # c
  PROVE  Posted(c) /\ sent'[c] = sent[c]
<1>1. ASSUME NEW r \in requests', r.conv = c, Posting(r), r.pc = "publish"
      PROVE  Posted(c)
  BY <1>1, PublishingStep DEF Posted
<1>2. CASE sent'[c] = sent[c]
  <2>1. ASSUME NEW n \in Turn, n = sent[c], fate'[c][n] # "unsent" PROVE Posted(c)
    <3>1. CASE fate[c][n] # "unsent"
      BY <2>1, <3>1 DEF Posted
    <3>2. CASE \E r \in requests : Publish(r) /\ r.conv = c
      BY <3>2 DEF Posted, Publish, Posting
    <3> QED BY <2>1, <3>1, <3>2, UnsentStep DEF EventInv
  <2> QED BY <1>1, <1>2, <2>1 DEF Posted
<1>3. CASE sent'[c] # sent[c]
  <2>1. SendMessage(c)
    BY <1>3, TabSteps DEF PromiseInv, SendMessage, ReceiveReply, Publish, TypeOK
  <2>2. /\ sent'[c] = sent[c] + 1 /\ UNCHANGED fate /\ sent[c] \in Int
        /\ client[c] = "idle"
    BY <2>1, OrderTypes DEF SendMessage, TypeOK
  <2>3. \A n \in Turn : n = sent'[c] => fate'[c][n] = "unsent"
    <3>1. sent'[c] > sent[c]
      BY <2>2
    <3> QED BY <2>2, <3>1 DEF EventInv, TurnInv
  <2>4. \A r \in requests : Posting(r) => r.conv # c
    BY <2>2 DEF EventInv, OrderInv, PostInv
  <2>5. \A r \in requests' : r \in requests \/ r.pc # "publish"
    BY <2>1 DEF SendMessage, Sends
  <2> QED BY <2>3, <2>4, <2>5 DEF Posted
<1> QED BY <1>2, <1>3

(* LastInv is inductive.                                                   *)
LEMMA LastStep ==
  ASSUME Reliable, ~Leaves, TypeOK, TypeOK', EventInv, PromiseInv, LastInv, [Next]_vars
  PROVE  LastInv'
<1> SUFFICES ASSUME NEW c \in Conv, ~Accepted(c)'
             PROVE  /\ redis'[c].here /\ Posted(c)' => LastIs(redis'[c].messages, sent'[c])
                    /\ \A t \in tasks' : t.event.conv = c /\ t.pc # "load" =>
                                           LastIs(t.messages, t.event.turn)
  BY DEF LastInv
<1>a. ~Accepted(c)
  BY AcceptedStays DEF EventInv
<1>1. ASSUME redis'[c].here, Posted(c)'
      PROVE  LastIs(redis'[c].messages, sent'[c])
  <2>1. CASE \E q \in requests : SetThinking(q) /\ q.conv = c
    BY <2>1, AskSet
  <2>2. CASE \A q \in requests : SetThinking(q) => q.conv # c
    <3>1. Posted(c) /\ sent'[c] = sent[c]
      BY <1>1, <2>2, PostedStep
    <3>2. redis[c].here => LastIs(redis[c].messages, sent[c])
      BY <1>a, <3>1 DEF LastInv
    <3> QED BY <1>1, <1>a, <3>1, <3>2, SetsOfTurn
  <2> QED BY <2>1, <2>2
<1>2. ASSUME NEW u \in tasks', u.event.conv = c, u.pc # "load"
      PROVE  LastIs(u.messages, u.event.turn)
  <2>1. CASE u \in tasks
    BY <1>2, <1>a, <2>1 DEF LastInv
  <2>2. CASE Deliver
    BY <1>2, <2>1, <2>2 DEF Deliver, NewTask
  <2>3. ASSUME NEW t \in tasks, TaskStep(t) \/ GraphFails(t), u \notin tasks
        PROVE  LastIs(u.messages, u.event.turn)
    <3>1. u.event = t.event
      BY <2>3, TaskMoves DEF Becomes, Finishes
    <3>2. ~Accepted(t.event.conv)
      BY <1>2, <1>a, <3>1
    <3>3. \/ tasks' = tasks \ {t}
          \/ \E v : Becomes(t, v) /\ v.event = t.event /\ LastIs(v.messages, t.event.turn)
      BY <2>3, <3>2, TaskSpeaks
    <3> QED BY <2>3, <3>1, <3>3 DEF Becomes
  <2>4. CASE \/ \E r \in requests : Publish(r)
             \/ TicketDeliver \/ \E j \in jobs : JobStep(j) \/ TicketGraphFails(j)
    BY <2>1, <2>4 DEF Publish, TicketDeliver, JobStep, TicketLoad, TicketCreate,
                      TicketReply, TicketAck, TicketGraphFails
  <2> QED BY <2>1, <2>2, <2>3, <2>4, ReliableSteps
<1> QED BY <1>1, <1>2

(* A question may be appended to any copy, what an agent says to one that  *)
(* ends in its turn.                                                       *)
LEMMA TogetherAppend ==
  ASSUME NEW msgs \in Seq(Message), NEW m \in Message, Together(msgs),
         m.kind = "ask" \/ LastIs(msgs, m.turn)
  PROVE  Together(Append(msgs, m))
<1> DEFINE a == Append(msgs, m)
           l == Len(msgs)
<1>1. /\ l \in Nat /\ Len(a) = l + 1 /\ a[l + 1] = m
      /\ \A i \in 1 .. l : a[i] = msgs[i]
  OBVIOUS
<1>2. m.kind # "ask" => l # 0 /\ msgs[l].turn = m.turn
  BY DEF LastIs, LastTurn
<1> HIDE DEF a, l
<1>3. \A i \in 1 .. l : msgs[i].kind # "ask" => i > 1 /\ msgs[i - 1].turn = msgs[i].turn
  BY DEF Together, l
<1>4. ASSUME NEW i \in 1 .. Len(a), a[i].kind # "ask"
      PROVE  i > 1 /\ a[i - 1].turn = a[i].turn
  <2>1. CASE i \in 1 .. l
    <3>1. i > 1 /\ msgs[i - 1].turn = msgs[i].turn
      BY <1>1, <1>3, <1>4, <2>1
    <3>2. i - 1 \in 1 .. l
      BY <1>1, <2>1, <3>1
    <3> QED BY <1>1, <2>1, <3>1, <3>2
  <2>2. CASE i = l + 1
    <3>1. l # 0 /\ msgs[l].turn = m.turn
      BY <1>1, <1>2, <1>4, <2>2
    <3>2. i > 1 /\ i - 1 = l /\ l \in 1 .. l
      BY <1>1, <2>2, <3>1
    <3> QED BY <1>1, <2>2, <3>1, <3>2
  <2>3. i \in 1 .. l \/ i = l + 1
    BY <1>1
  <2> QED BY <2>1, <2>2, <2>3
<1> QED BY <1>4 DEF Together, a

(* The copies the property is about, as a set of messages.                 *)
LEMMA JoinedCopies ==
  ASSUME TypeOK, EventInv, PromiseInv, LastInv, TurnsStayTogether
  PROVE  LET K == [c \in Conv |-> {msgs \in Seq(Message) : Accepted(c) \/ Together(msgs)}]
         IN  Closed(K) /\ CopiesIn(K)
<1> DEFINE K == [c \in Conv |-> {msgs \in Seq(Message) : Accepted(c) \/ Together(msgs)}]
<1>1. \A c \in Conv : \A msgs : msgs \in K[c] <=>
                        msgs \in Seq(Message) /\ (Accepted(c) \/ Together(msgs))
  OBVIOUS
<1> HIDE DEF K
<1>2. /\ \A c \in Conv : /\ redis[c].messages \in Seq(Message)
                         /\ db[c].messages \in Seq(Message)
      /\ \A r \in requests : r.conv \in Conv /\ r.messages \in Seq(Message)
      /\ \A t \in tasks : t.event.conv \in Conv /\ t.messages \in Seq(Message)
      /\ \A j \in jobs : j.event.conv \in Conv /\ j.messages \in Seq(Message)
  BY OrderTypes DEF TypeOK, Task, Job, ChatEvent, AcceptEvent
<1>3. CopiesIn(K)
  BY <1>1, <1>2 DEF CopiesIn, TurnsStayTogether, HeldMessages
<1>4. ASSUME NEW c \in Conv
      PROVE  /\ << >> \in K[c]
             /\ \A msgs \in K[c], n \in Turn : Append(msgs, Ask(n)) \in K[c]
  <2>1. << >> \in Seq(Message) /\ Together(<< >>)
    BY DEF Together
  <2>2. ASSUME NEW msgs \in K[c], NEW n \in Turn PROVE Append(msgs, Ask(n)) \in K[c]
    <3>1. msgs \in Seq(Message) /\ Ask(n) \in Message /\ Ask(n).kind = "ask"
      BY <1>1, MessageTypes DEF Ask
    <3>2. Append(msgs, Ask(n)) \in Seq(Message)
      BY <3>1, AppendType
    <3> QED BY <1>1, <3>1, <3>2, TogetherAppend
  <2> QED BY <1>1, <2>1, <2>2
<1>5. ASSUME NEW t \in tasks, NEW node \in Nodes, t.pc # "load"
      PROVE  Append(t.messages, Thinking(node, t.event.turn)) \in K[t.event.conv]
  <2>1. /\ Thinking(node, t.event.turn) \in Message
        /\ Thinking(node, t.event.turn).turn = t.event.turn
    BY MessageTypes DEF Thinking, TypeOK, Task, ChatEvent
  <2>2. ~Accepted(t.event.conv) => LastIs(t.messages, t.event.turn)
    BY <1>2, <1>5 DEF LastInv
  <2>3. ~Accepted(t.event.conv) => Together(t.messages)
    BY <1>1, <1>2, <1>3 DEF CopiesIn
  <2>4. t.messages \in Seq(Message) /\ t.event.conv \in Conv
    BY <1>2
  <2>5. Append(t.messages, Thinking(node, t.event.turn)) \in Seq(Message)
    BY <2>1, <2>4, AppendType
  <2> QED BY <1>1, <2>1, <2>2, <2>3, <2>4, <2>5, TogetherAppend
<1>6. Closed(K)
  BY <1>4, <1>5 DEF Closed
<1> QED BY <1>3, <1>6 DEF K

(* Every step keeps the turns together.                                    *)
LEMMA TogetherStep ==
  ASSUME Reliable, TypeOK, TypeOK', EventInv, PromiseInv, LastInv, TurnsStayTogether,
         [Next]_vars
  PROVE  TurnsStayTogether'
<1> USE DEF brokerVars
<1>a. \A c \in Conv : Accepted(c) => Accepted(c)'
  BY AcceptedStays DEF EventInv
<1>h. \A c \in Conv : \A msgs \in HeldMessages(c)' :
        \/ msgs = redis'[c].messages \/ msgs = db'[c].messages
        \/ \E r \in requests' : r.conv = c /\ msgs = r.messages
        \/ \E t \in tasks' : t.event.conv = c /\ msgs = t.messages
        \/ \E j \in jobs' : j.event.conv = c /\ msgs = j.messages
  BY DEF HeldMessages
<1>1. ASSUME NEW t \in tasks, TaskReply(t) PROVE TurnsStayTogether'
  <2>1. /\ t.event.conv \in Conv /\ t.event.turn \in Turn
        /\ t.messages \in Seq(Message) /\ t.messages \in HeldMessages(t.event.conv)
    BY DEF TypeOK, Task, ChatEvent, HeldMessages
  <2>2. ReplyOf(t) \in Message /\ ReplyOf(t).turn = t.event.turn
    BY <2>1, MessageTypes DEF ReplyOf, Reply, ReplyKinds, Nodes
  <2>3. ~Accepted(t.event.conv) => Together(Append(t.messages, ReplyOf(t)))
    <3>1. t.pc # "load"
      BY <1>1 DEF TaskReply
    <3> QED BY <2>1, <2>2, <3>1, TogetherAppend DEF LastInv, TurnsStayTogether
  <2>4. /\ redis'[t.event.conv].messages = Append(t.messages, ReplyOf(t))
        /\ \A c \in Conv : c # t.event.conv => redis'[c] = redis[c]
        /\ UNCHANGED <<db, requests, jobs>> /\ tasks' \subseteq tasks
    BY <1>1, <2>1 DEF TaskReply, SetChat, Finishes, TypeOK
  <2>5. ASSUME NEW c \in Conv, ~Accepted(c), NEW msgs \in HeldMessages(c)'
        PROVE  Together(msgs)
    <3>1. \/ msgs \in HeldMessages(c)
          \/ c = t.event.conv /\ msgs = redis'[c].messages
      BY <1>h, <2>4 DEF HeldMessages
    <3> QED BY <2>3, <2>4, <2>5, <3>1 DEF TurnsStayTogether
  <2> QED BY <1>a, <2>5 DEF TurnsStayTogether
<1>2. ASSUME NEW j \in jobs, TicketReply(j) PROVE TurnsStayTogether'
  <2>1. j \in Job /\ j.event.conv \in Conv /\ Accepted(j.event.conv)
    BY AcceptedIsHanded DEF TypeOK, Job, AcceptEvent, EventInv, AcceptInv
  <2> DEFINE a == [j EXCEPT !.pc = "ack"]
  <2>2. a.event = j.event /\ jobs' = (jobs \ {j}) \cup {a}
    BY <1>2, <2>1 DEF TicketReply, JobBecomes, Job
  <2>3. /\ \A c \in Conv : c # j.event.conv => redis'[c] = redis[c]
        /\ UNCHANGED <<db, requests, tasks>>
    BY <1>2, <2>1 DEF TicketReply, SetChat, TypeOK
  <2> HIDE DEF a
  <2>4. ASSUME NEW c \in Conv, ~Accepted(c), NEW msgs \in HeldMessages(c)'
        PROVE  Together(msgs)
    <3>1. msgs \in HeldMessages(c)
      BY <1>h, <2>1, <2>2, <2>3, <2>4 DEF HeldMessages
    <3> QED BY <2>4, <3>1 DEF TurnsStayTogether
  <2> QED BY <1>a, <2>4 DEF TurnsStayTogether
<1>3. PICK K : /\ Closed(K) /\ CopiesIn(K)
               /\ \A c \in Conv : \A msgs \in K[c] : Accepted(c) \/ Together(msgs)
  <2> DEFINE K == [c \in Conv |-> {msgs \in Seq(Message) : Accepted(c) \/ Together(msgs)}]
  <2>1. Closed(K) /\ CopiesIn(K)
    BY JoinedCopies
  <2>2. \A c \in Conv : \A msgs \in K[c] : Accepted(c) \/ Together(msgs)
    OBVIOUS
  <2> HIDE DEF K
  <2> QED BY <2>1, <2>2
<1>4. CASE StillIn(K)
  <2>1. ASSUME NEW c \in Conv, ~Accepted(c), NEW msgs \in HeldMessages(c)'
        PROVE  Together(msgs)
    <3>1. msgs \in K[c]
      BY <1>4, <1>h, <2>1 DEF StillIn
    <3> QED BY <1>3, <2>1, <3>1
  <2> QED BY <1>a, <2>1 DEF TurnsStayTogether
<1> QED BY <1>1, <1>2, <1>3, <1>4, CopySteps

(* LastInv and TurnsStayTogether hold in every state.                      *)
LEMMA TogetherInvariant ==
  ASSUME Reliable, ~Leaves
  PROVE  Spec => [](LastInv /\ TurnsStayTogether)
<1>1. Init => LastInv /\ TurnsStayTogether
  <2> SUFFICES ASSUME Init PROVE LastInv /\ TurnsStayTogether
    OBVIOUS
  <2>1. /\ requests = {} /\ tasks = {} /\ jobs = {}
        /\ \A c \in Conv : /\ ~redis[c].here
                           /\ redis[c].messages = << >> /\ db[c].messages = << >>
    BY DEF Init, NoChat, NoRow
  <2>2. \A c \in Conv : HeldMessages(c) = {<< >>}
    BY <2>1 DEF HeldMessages
  <2>3. Together(<< >>)
    BY DEF Together
  <2> QED BY <2>1, <2>2, <2>3 DEF LastInv, TurnsStayTogether
<1>2. TypeOK /\ TypeOK' /\ EventInv /\ PromiseInv /\ LastInv /\ TurnsStayTogether
        /\ [Next]_vars => LastInv' /\ TurnsStayTogether'
  BY LastStep, TogetherStep
<1> QED
  BY <1>1, <1>2, TypeCorrect, EventsInvariant, PromiseInvariant, PTL DEF Spec

(* As long as no process dies, no call to a store fails, no confirm of a   *)
(* publish is lost and the user waits for every reply, what an agent says  *)
(* about a question stands behind that question in every copy of a         *)
(* conversation none of whose turns was left to the ticket-agent, although *)
(* stops, getChats, expiries and late saves race the next question and may *)
(* drop some.                                                              *)
THEOREM TurnsAreTogether ==
  ASSUME Reliable, ~Leaves
  PROVE  Spec => []TurnsStayTogether
<1> QED BY TogetherInvariant, PTL

(* Under the same conditions no POST and no save sets a chat that ends in  *)
(* an older question than the one asked last: a save that revives a key a  *)
(* stop just deleted, or follows an expiry, is one of the current turn.    *)
THEOREM SetsGoForward ==
  ASSUME Reliable, ~Leaves
  PROVE  Spec => NoSetGoesBack
<1>1. TypeOK /\ EventInv /\ PromiseInv /\ LastInv /\ [Next]_vars =>
        [\A c \in Conv :
           ~Accepted(c) /\ redis'[c] # redis[c] /\ redis'[c].here =>
             LET msgs == redis'[c].messages
             IN  msgs # << >> /\ msgs[Len(msgs)].turn = sent[c]]_vars
  BY SetsOfTurn DEF LastIs, LastTurn
<1> QED
  BY <1>1, TypeCorrect, EventsInvariant, PromiseInvariant, TogetherInvariant, PTL
  DEF Spec, NoSetGoesBack
----------------------------------------------------------------------------
(* The calm system: stores and processes last, nothing expires, the user   *)
(* waits for the reply of every turn and for the stop after it, and no     *)
(* plan is accepted, so that one process at a time works on a              *)
(* conversation.  LLM and broker may still fail, and other conversations   *)
(* and opens from the history go on.                                       *)
Calm ==
  /\ Reliable /\ "expiry" \notin Faults
  /\ Patient /\ ~Leaves
  /\ "accept" \notin Intents

(* All turns before n are told and the question of turn n was asked.       *)
Opened(msgs, n) ==
  /\ \A i \in Spoken(msgs) : msgs[i].turn <= n
  /\ \A i, j \in Spoken(msgs) : i < j => msgs[i].turn <= msgs[j].turn
  /\ \A t \in 1 .. n - 1 : InFull(msgs, t)
  /\ \E i \in Spoken(msgs) : /\ msgs[i] = Ask(n)
                             /\ \A k \in Spoken(msgs) : msgs[k].turn = n => k = i

(* What the POST of a turn has in its hands, by how far it is.             *)
PostCalm(r) ==
  LET c == r.conv
      n == sent[c]
  IN  /\ r.op = "new" => n = 1 /\ r.pc \in {"insert", "set", "publish"}
      /\ r.pc = "insert" => ~redis[c].here /\ db[c].messages = << >>
      /\ r.op = "new" /\ r.pc = "set" =>
           ~redis[c].here /\ db[c].messages = <<Ask(n)>>
      /\ r.pc = "get" => Told(Transcript(c), n - 1)
      /\ r.pc = "find" => ~redis[c].here /\ Told(Transcript(c), n - 1)
      /\ r.op = "continue" /\ r.pc = "set" =>
           r.messages = Transcript(c) /\ Told(r.messages, n - 1)
      /\ r.pc = "publish" => redis[c].here /\ Opened(redis[c].messages, n)

(* Between two turns all turns are told; what a stop or a getChat is about *)
(* to persist is what is shown anyway, and a stop deletes a persisted key. *)
IdleCalm(c) ==
  /\ Told(Transcript(c), sent[c])
  /\ \A r \in requests : r.conv = c /\ r.pc \in {"save", "del", "update"} =>
       /\ r.messages = Transcript(c)
       /\ (r.pc = "del" => db[c].messages = r.messages)

(* While the reply is awaited the chat is in Redis.                        *)
WaitCalm(c) ==
  /\ redis[c].here
  /\ redis[c].agentStatus = "isThinking" => Opened(redis[c].messages, sent[c])
  /\ redis[c].agentStatus = "hasReplied" => Told(redis[c].messages, sent[c])

CalmAt(c) ==
  /\ sent[c] = 0 => ~redis[c].here /\ db[c].messages = << >>
  /\ client[c] = "idle" => IdleCalm(c)
  /\ client[c] = "waiting" => WaitCalm(c)
  /\ client[c] = "sending" => \E r \in requests : r.conv = c /\ Posting(r)
  /\ \A r \in requests : r.conv = c => IF Posting(r) THEN PostCalm(r)
                                                     ELSE client[c] = "idle"
  /\ \A t \in tasks : t.event.conv = c /\ t.pc # "load" =>
                        t.messages = redis[c].messages

NoAccepts ==
  /\ acceptQueue = << >> /\ jobs = {}
  /\ \A t \in tasks : t.pc \notin {"publish", "note"} /\ t.intent # "accept"

CalmInv == NoAccepts /\ \A c \in Conv : CalmAt(c)

Standing == TypeOK /\ EventInv /\ RepliedEndsInReply /\ PromiseInv /\ CalmInv
----------------------------------------------------------------------------
(* What was said, after a message was appended.                            *)
LEMMA SpokenAppend ==
  ASSUME NEW msgs \in Seq(Message), NEW m \in Message
  PROVE  LET s == Append(msgs, m)
             l == Len(msgs) + 1
         IN  /\ m.kind = "thinking" => Spoken(s) = Spoken(msgs)
             /\ m.kind # "thinking" => Spoken(s) = Spoken(msgs) \cup {l}
             /\ \A i \in Spoken(msgs) : /\ s[i] = msgs[i] /\ i < l /\ i \in Int
                                        /\ msgs[i] \in Message /\ msgs[i].turn \in Int
             /\ s[l] = m /\ l \in Int
<1> DEFINE s == Append(msgs, m)
           l == Len(msgs) + 1
<1>1. /\ Len(s) = l /\ s[l] = m /\ Len(msgs) \in Nat
      /\ \A i \in 1 .. Len(msgs) : s[i] = msgs[i] /\ msgs[i] \in Message
  OBVIOUS
<1> HIDE DEF s
<1>2. /\ 1 .. l = (1 .. Len(msgs)) \cup {l}
      /\ \A i \in 1 .. Len(msgs) : i < l /\ i \in Int
  BY <1>1
<1>3. \A i \in 1 .. Len(msgs) : msgs[i].turn \in Int
  BY <1>1 DEF Message, Turn
<1>4. /\ m.kind = "thinking" => Spoken(s) = Spoken(msgs)
      /\ m.kind # "thinking" => Spoken(s) = Spoken(msgs) \cup {l}
  BY <1>1, <1>2 DEF Spoken
<1> QED BY <1>1, <1>2, <1>3, <1>4 DEF Spoken, s

(* Nothing said tells no turn.                                             *)
LEMMA ToldEmpty == Told(<< >>, 0)
<1>1. 1 .. Len(<< >>) = {} /\ 1 .. 0 = {}
  OBVIOUS
<1>2. Spoken(<< >>) = {}
  BY <1>1 DEF Spoken
<1> QED BY <1>1, <1>2 DEF Told

(* A turn in full stays so when another turn's message is appended ...     *)
LEMMA FullAppend ==
  ASSUME NEW msgs \in Seq(Message), NEW m \in Message, NEW t \in Int, InFull(msgs, t),
         m.kind = "thinking" \/ m.turn # t
  PROVE  InFull(Append(msgs, m), t)
<1> DEFINE s == Append(msgs, m)
           l == Len(msgs) + 1
<1>1. /\ Spoken(s) = Spoken(msgs) \/ (Spoken(s) = Spoken(msgs) \cup {l} /\ m.turn # t)
      /\ \A i \in Spoken(msgs) : s[i] = msgs[i]
      /\ s[l] = m
  BY SpokenAppend
<1> HIDE DEF s, l
<1>2. PICK i, j \in Spoken(msgs) :
        /\ i < j /\ msgs[i] = Ask(t)
        /\ msgs[j].kind \in ReplyKinds /\ msgs[j].turn = t
        /\ \A k \in Spoken(msgs) : msgs[k].turn = t => k \in {i, j}
  BY DEF InFull
<1>3. /\ i \in Spoken(s) /\ j \in Spoken(s)
      /\ \A k \in Spoken(s) : s[k].turn = t => k \in {i, j}
  BY <1>1, <1>2
<1>4. InFull(s, t)
  BY <1>1, <1>2, <1>3 DEF InFull
<1> QED BY <1>4 DEF s

(* ... and so does a question alone.                                       *)
LEMMA OpenedByAsk ==
  ASSUME NEW msgs \in Seq(Message), NEW n \in Turn, Told(msgs, n - 1)
  PROVE  Opened(Append(msgs, Ask(n)), n)
<1> DEFINE s == Append(msgs, Ask(n))
           l == Len(msgs) + 1
<1>m. Ask(n) \in Message /\ Ask(n).kind # "thinking" /\ Ask(n).turn = n /\ n \in Int
  BY MessageTypes DEF Ask, Turn
<1>1. /\ Spoken(s) = Spoken(msgs) \cup {l}
      /\ \A i \in Spoken(msgs) : s[i] = msgs[i] /\ i < l /\ i \in Int /\ msgs[i].turn \in Int
      /\ s[l] = Ask(n) /\ l \in Int
  BY <1>m, SpokenAppend
<1>2. \A t \in 1 .. n - 1 : InFull(s, t)
  BY <1>m, FullAppend DEF Told
<1> HIDE DEF s, l
<1>3. \A i \in Spoken(msgs) : s[i].turn < n
  BY <1>1, <1>m DEF Told
<1>4. \A i \in Spoken(s) : s[i].turn <= n
  BY <1>1, <1>3, <1>m
<1>5. \A i, j \in Spoken(s) : i < j => s[i].turn <= s[j].turn
  <2> SUFFICES ASSUME NEW i \in Spoken(s), NEW j \in Spoken(s), i < j
               PROVE  s[i].turn <= s[j].turn
    OBVIOUS
  <2>1. CASE j = l
    BY <1>1, <1>4, <1>m, <2>1
  <2>2. CASE j # l
    <3>1. i # l /\ j \in Spoken(msgs)
      BY <1>1, <2>2
    <3> QED BY <1>1, <3>1 DEF Told
  <2> QED BY <2>1, <2>2
<1>6. \A k \in Spoken(s) : s[k].turn = n => k = l
  BY <1>1, <1>3, <1>m
<1>7. Opened(s, n)
  BY <1>1, <1>2, <1>4, <1>5, <1>6 DEF Opened
<1> QED BY <1>7 DEF s

(* Thinking tells nothing.                                                 *)
LEMMA OpenedByThinking ==
  ASSUME NEW msgs \in Seq(Message), NEW n \in Turn, Opened(msgs, n),
         NEW m \in Message, m.kind = "thinking"
  PROVE  Opened(Append(msgs, m), n)
<1> DEFINE s == Append(msgs, m)
<1>1. Spoken(s) = Spoken(msgs) /\ \A i \in Spoken(msgs) : s[i] = msgs[i]
  BY SpokenAppend
<1>2. \A t \in 1 .. n - 1 : InFull(s, t)
  BY FullAppend DEF Opened, Turn
<1> HIDE DEF s
<1>3. Opened(s, n)
  BY <1>1, <1>2 DEF Opened
<1> QED BY <1>3 DEF s

(* The reply completes the turn.                                           *)
LEMMA ToldByReply ==
  ASSUME NEW msgs \in Seq(Message), NEW n \in Turn, Opened(msgs, n),
         NEW m \in Message, m.kind \in ReplyKinds, m.turn = n
  PROVE  Told(Append(msgs, m), n)
<1> DEFINE s == Append(msgs, m)
           l == Len(msgs) + 1
<1>m. m.kind # "thinking" /\ n \in Int
  BY DEF ReplyKinds, Turn
<1>1. /\ Spoken(s) = Spoken(msgs) \cup {l}
      /\ \A i \in Spoken(msgs) : s[i] = msgs[i] /\ i < l /\ i \in Int /\ msgs[i].turn \in Int
      /\ s[l] = m /\ l \in Int
  BY <1>m, SpokenAppend
<1>2. \A t \in 1 .. n - 1 : InFull(s, t)
  BY <1>m, FullAppend DEF Opened
<1> HIDE DEF s, l
<1>3. \A i \in Spoken(s) : s[i].turn <= n
  BY <1>1, <1>m DEF Opened
<1>4. \A i, j \in Spoken(s) : i < j => s[i].turn <= s[j].turn
  <2> SUFFICES ASSUME NEW i \in Spoken(s), NEW j \in Spoken(s), i < j
               PROVE  s[i].turn <= s[j].turn
    OBVIOUS
  <2>1. CASE j = l
    BY <1>1, <1>3, <2>1
  <2>2. CASE j # l
    <3>1. i # l /\ j \in Spoken(msgs)
      BY <1>1, <2>2
    <3> QED BY <1>1, <3>1 DEF Opened
  <2> QED BY <2>1, <2>2
<1>5. InFull(s, n)
  <2>1. PICK i \in Spoken(msgs) : /\ msgs[i] = Ask(n)
                                  /\ \A k \in Spoken(msgs) : msgs[k].turn = n => k = i
    BY DEF Opened
  <2>2. /\ i \in Spoken(s) /\ l \in Spoken(s) /\ i < l /\ s[i] = Ask(n)
        /\ \A k \in Spoken(s) : s[k].turn = n => k \in {i, l}
    BY <1>1, <2>1
  <2> QED BY <1>1, <2>2 DEF InFull
<1>6. \A t \in 1 .. n : InFull(s, t)
  <2> SUFFICES ASSUME NEW t \in 1 .. n PROVE InFull(s, t)
    OBVIOUS
  <2>1. t = n \/ t \in 1 .. n - 1
    BY <1>m
  <2> QED BY <1>2, <1>5, <2>1
<1>7. Told(s, n)
  BY <1>3, <1>4, <1>6 DEF Told
<1> QED BY <1>7 DEF s

----------------------------------------------------------------------------
(* The tasks of a conversation are those of the turn awaited, which has no *)
(* reply yet.                                                              *)
LEMMA TasksWait ==
  ASSUME Standing, NEW t \in tasks
  PROVE  LET c == t.event.conv
         IN  /\ c \in Conv
             /\ client[c] = "waiting" /\ t.event.turn = sent[c] /\ sent[c] \in Turn
             /\ redis[c].agentStatus = "isThinking"
             /\ \A u \in tasks : u.event.conv = c => u = t
<1> USE DEF Standing
<1> DEFINE c == t.event.conv
           n == t.event.turn
<1>t. /\ c \in Conv /\ n \in Turn /\ n \in Int /\ sent[c] \in Int
      /\ client[c] \in {"idle", "sending", "waiting"}
      /\ redis[c].agentStatus \in ChatStatus
  <2>1. c \in Conv /\ n \in Turn
    BY DEF TypeOK, Task, ChatEvent
  <2> QED BY SMTT(30), <2>1, OrderTypes DEF TypeOK, Turn, Chat
<1>1. fate[c][n] = "published"
  BY DEF EventInv, TurnInv
<1>2. \A u \in tasks : ~Handing(u)
  BY DEF CalmInv, NoAccepts, Handing
<1>3. ~Done(c, n)
  BY <1>1, <1>2 DEF Done, Handed
<1>4. ~(n > sent[c])
  BY <1>t, <1>1 DEF EventInv, TurnInv
<1>5. Len(answers[c]) < n /\ Len(answers[c]) \in Int
  BY <1>t, <1>3 DEF PromiseInv, AnsweredAreDone, TypeOK
<1>6. n = sent[c] /\ client[c] # "idle"
  BY <1>t, <1>4, <1>5 DEF PromiseInv, AnswersInv
<1>7. client[c] # "sending"
  <2> SUFFICES ASSUME client[c] = "sending" PROVE FALSE
    OBVIOUS
  <2>1. PICK r \in requests : r.conv = c /\ Posting(r)
    BY <1>t DEF CalmInv, CalmAt
  <2>2. r.turn = n
    BY <1>6, <2>1 DEF EventInv, OrderInv, PostInv
  <2> QED BY <1>1, <2>1, <2>2 DEF EventInv, TurnInv
<1>8. redis[c].agentStatus # "hasReplied"
  <2> SUFFICES ASSUME redis[c].agentStatus = "hasReplied" PROVE FALSE
    OBVIOUS
  <2> DEFINE msgs == redis[c].messages
  <2>1. msgs \in Seq(Message) /\ msgs # << >> /\ msgs[Len(msgs)].kind \in ReplyKinds
    BY <1>t, OrderTypes DEF RepliedEndsInReply
  <2>2. Len(msgs) \in ReplyIndexes(msgs)
    <3> HIDE DEF msgs
    <3>1. Len(msgs) \in 1 .. Len(msgs)
      BY <2>1
    <3> QED BY <2>1, <3>1 DEF ReplyIndexes
  <2>3. msgs[Len(msgs)].turn = n
    BY <1>t, <1>6, <1>7 DEF PromiseInv, FreshInv, LastTurn
  <2>4. Fits(msgs, DoneTurns(c))
    BY <1>t DEF EventInv, CopiesFit
  <2> QED BY <1>3, <2>2, <2>3, <2>4 DEF Fits, DoneTurns
<1>9. \A u \in tasks : u.event.conv = c => u = t
  <2> SUFFICES ASSUME NEW u \in tasks, u.event.conv = c PROVE u = t
    OBVIOUS
  <2>1. u.event.turn = n
    <3>1. fate[c][u.event.turn] = "published" /\ u.event.turn \in Turn
      BY DEF EventInv, TurnInv, TypeOK, Task, ChatEvent
    <3>2. ~Done(c, u.event.turn) /\ ~(u.event.turn > sent[c])
      BY <1>t, <1>2, <3>1 DEF Done, Handed, EventInv, TurnInv
    <3>3. Len(answers[c]) < u.event.turn /\ u.event.turn \in Int
      BY <1>t, <1>5, <3>1, <3>2 DEF PromiseInv, AnsweredAreDone, Turn
    <3>4. Len(answers[c]) >= sent[c] - 1
      BY <1>t DEF PromiseInv, AnswersInv
    <3> QED BY <1>t, <1>5, <1>6, <3>2, <3>3, <3>4
  <2> QED BY <2>1 DEF EventInv, TurnInv
<1> QED BY <1>t, <1>6, <1>7, <1>8, <1>9 DEF ChatStatus

(* The requests of a conversation: the one POST of a tab that is sending,  *)
(* stops and opens of one that is idle.                                    *)
LEMMA RequestsCalm ==
  ASSUME Standing, NEW c \in Conv
  PROVE  /\ client[c] \in {"idle", "sending", "waiting"}
         /\ \A r \in requests : r.conv = c =>
              /\ Posting(r) => /\ client[c] = "sending"
                               /\ r.turn = sent[c] /\ sent[c] \in Turn
                               /\ \A q \in requests : q.conv = c => q = r
              /\ ~Posting(r) => client[c] = "idle"
         /\ client[c] # "waiting" => \A t \in tasks : t.event.conv # c
<1> USE DEF Standing
<1>1. client[c] \in {"idle", "sending", "waiting"}
  BY DEF TypeOK
<1>2. client[c] # "waiting" => \A t \in tasks : t.event.conv # c
  BY TasksWait
<1>3. \A r \in requests : r.conv = c /\ ~Posting(r) => client[c] = "idle"
  BY DEF CalmInv, CalmAt
<1>4. ASSUME NEW r \in requests, r.conv = c, Posting(r)
      PROVE  /\ client[c] = "sending" /\ r.turn = sent[c] /\ sent[c] \in Turn
             /\ \A q \in requests : q.conv = c => q = r
  <2>1. client[c] = "sending" /\ r.turn = sent[c]
    BY <1>4 DEF EventInv, OrderInv, PostInv
  <2>2. r.turn \in Turn
    BY <1>4 DEF Posting, TypeOK, Request
  <2>3. \A q \in requests : q.conv = c => q = r
    BY <1>3, <1>4, <2>1 DEF EventInv, OrderInv, PostInv
  <2> QED BY <2>1, <2>2, <2>3
<1> QED BY <1>1, <1>2, <1>3, <1>4

(* What no step touches stays calm.                                        *)
LEMMA CalmFrame ==
  ASSUME NEW d \in Conv, CalmAt(d),
         redis'[d] = redis[d], db'[d] = db[d], client'[d] = client[d], sent'[d] = sent[d],
         \A r \in requests \cup requests' : r.conv = d => r \in requests \cap requests',
         \A t \in tasks' : t.event.conv = d => t \in tasks \/ t.pc = "load"
  PROVE  CalmAt(d)'
<1>1. Transcript(d)' = Transcript(d)
  BY DEF Transcript
<1>2. IdleCalm(d) => IdleCalm(d)'
  BY <1>1 DEF IdleCalm
<1>3. WaitCalm(d) => WaitCalm(d)'
  BY DEF WaitCalm
<1>4. ASSUME NEW r \in requests, r.conv = d, PostCalm(r) PROVE PostCalm(r)'
  BY <1>1, <1>4 DEF PostCalm
<1> QED BY <1>2, <1>3, <1>4 DEF CalmAt, Posting

(* The POST works on its conversation alone.                               *)
LEMMA PostingCalm ==
  ASSUME Calm, Standing, NEW r \in requests, Posting(r), BackendStep(r)
  PROVE  CalmAt(r.conv)'
<1> USE DEF Standing, storeVars, brokerVars, userVars
<1> DEFINE c == r.conv
           n == sent[c]
<1>t. /\ c \in Conv /\ r \in Request /\ r.messages \in Seq(Message)
      /\ redis \in [Conv -> Chat] /\ db \in [Conv -> Row]
      /\ client \in [Conv -> {"idle", "sending", "waiting"}]
  BY OrderTypes DEF TypeOK
<1>r. /\ client[c] = "sending" /\ r.turn = n /\ n \in Turn
      /\ \A q \in requests : q.conv = c => q = r
      /\ \A t \in tasks : t.event.conv # c
  BY <1>t, RequestsCalm
<1>n. n # 0
  BY <1>r DEF Turn
<1>c. PostCalm(r)
  BY <1>t DEF CalmInv, CalmAt
<1>o. r.op = "new" \/ r.op = "continue"
  BY DEF Posting
<1>p. ASSUME NEW u, requests' = (requests \ {r}) \cup {u}, u.conv = c, Posting(u),
             PostCalm(u)', UNCHANGED <<client, sent, tasks>>
      PROVE  CalmAt(c)'
  <2>1. \A q \in requests' : q.conv = c => q = u
    BY <1>p, <1>r
  <2> QED BY <1>n, <1>p, <1>r, <2>1 DEF CalmAt, Posting
<1>1. CASE NewInsert(r)
  <2> DEFINE u == [r EXCEPT !.pc = "set", !.messages = << >>]
  <2>1. u.conv = c /\ u.op = r.op /\ u.pc = "set" /\ u.op = "new"
    BY <1>t, <1>1 DEF Request, NewInsert
  <2>2. /\ requests' = (requests \ {r}) \cup {u} /\ UNCHANGED <<redis, client, sent, tasks>>
        /\ db'[c].messages = <<Ask(n)>>
    BY <1>t, <1>r, <1>1 DEF NewInsert, Step, FirstRow
  <2>3. ~redis[c].here /\ db[c].messages = << >> /\ n = 1
    BY <1>1, <1>c DEF PostCalm, NewInsert
  <2> HIDE DEF u
  <2>4. PostCalm(u)'
    BY <2>1, <2>2, <2>3 DEF PostCalm
  <2> QED BY <1>p, <2>1, <2>2, <2>4 DEF Posting
<1>2. CASE ContinueGet(r)
  <2>1. r.op = "continue" /\ UNCHANGED <<redis, db, client, sent, tasks>>
        /\ Told(Transcript(c), n - 1)
    BY <1>2, <1>c DEF ContinueGet, PostCalm
  <2>2. Transcript(c)' = Transcript(c)
    BY <2>1 DEF Transcript
  <2>3. CASE redis[c].here
    <3>0. PICK u : u = [r EXCEPT !.pc = "set", !.messages = redis[c].messages]
      OBVIOUS
    <3>1. u.conv = c /\ u.op = r.op /\ u.pc = "set" /\ u.messages = redis[c].messages
      BY <1>t, <3>0 DEF Request
    <3>2. requests' = (requests \ {r}) \cup {u}
      BY <1>2, <2>3, <3>0 DEF ContinueGet, Step
    <3>3. u.messages = Transcript(c)
      BY <2>3, <3>1 DEF Transcript
    <3>4. PostCalm(u)'
      BY <2>1, <2>2, <3>1, <3>3 DEF PostCalm
    <3> QED BY <1>p, <2>1, <2>2, <3>1, <3>2, <3>4 DEF Posting
  <2>4. CASE ~redis[c].here
    <3> DEFINE u == [r EXCEPT !.pc = "find", !.messages = << >>]
    <3>1. u.conv = c /\ u.op = r.op /\ u.pc = "find"
      BY <1>t DEF Request
    <3>2. requests' = (requests \ {r}) \cup {u}
      BY <1>2, <2>4 DEF ContinueGet, Step
    <3> HIDE DEF u
    <3>3. PostCalm(u)'
      BY <2>1, <2>2, <2>4, <3>1 DEF PostCalm
    <3> QED BY <1>p, <2>1, <2>2, <3>1, <3>2, <3>3 DEF Posting
  <2> QED BY <2>3, <2>4
<1>3. CASE ContinueFind(r)
  <2>0. PICK u : u = [r EXCEPT !.pc = "set", !.messages = db[c].messages]
    OBVIOUS
  <2>1. /\ r.op = "continue" /\ UNCHANGED <<redis, db, sent, tasks>>
        /\ ~redis[c].here /\ Told(Transcript(c), n - 1)
    BY <1>3, <1>c DEF ContinueFind, PostCalm
  <2>2. db[c].here
    BY <2>1 DEF PromiseInv, RowFound
  <2>3. u.conv = c /\ u.op = r.op /\ u.pc = "set" /\ u.messages = db[c].messages
    BY <1>t, <2>0 DEF Request
  <2>4. requests' = (requests \ {r}) \cup {u} /\ UNCHANGED client
    BY <1>3, <2>0, <2>2 DEF ContinueFind, Step
  <2>5. Transcript(c)' = Transcript(c) /\ u.messages = Transcript(c)
    BY <2>1, <2>3 DEF Transcript
  <2>6. PostCalm(u)'
    BY <2>1, <2>3, <2>5 DEF PostCalm
  <2> QED BY <1>p, <2>1, <2>3, <2>4, <2>5, <2>6 DEF Posting
<1>4. CASE SetThinking(r)
  <2> DEFINE u == [r EXCEPT !.pc = "publish", !.messages = r.messages]
  <2>1. u.conv = c /\ u.op = r.op /\ u.pc = "publish"
    BY <1>t DEF Request
  <2>2. /\ requests' = (requests \ {r}) \cup {u} /\ UNCHANGED <<db, client, sent, tasks>>
        /\ r.pc = "set"
        /\ redis'[c].here /\ redis'[c].messages = Append(r.messages, Ask(n))
    BY <1>t, <1>r, <1>4 DEF SetThinking, Step, SetChat, Asked
  <2> HIDE DEF u
  <2>3. Told(r.messages, n - 1)
    <3>1. CASE r.op = "new"
      <4>1. r.messages = << >> /\ n = 1
        BY <1>c, <3>1 DEF PostCalm, EventInv, OrderInv, PostInv, Posting
      <4> QED BY <4>1, ToldEmpty
    <3>2. CASE r.op = "continue"
      BY <1>c, <2>2, <3>2 DEF PostCalm
    <3> QED BY <1>o, <3>1, <3>2
  <2>4. Opened(Append(r.messages, Ask(n)), n)
    BY <1>r, <1>t, <2>3, OpenedByAsk
  <2>5. PostCalm(u)'
    <3>1. u.op = "new" => n = 1
      BY <1>c, <2>1 DEF PostCalm
    <3> QED BY <2>1, <2>2, <2>4, <3>1 DEF PostCalm
  <2> QED BY <1>p, <2>1, <2>2, <2>5 DEF Posting
<1>5. CASE Publish(r)
  <2>1. /\ requests' = requests \ {r} /\ client'[c] = "waiting"
        /\ UNCHANGED <<redis, db, sent, tasks>> /\ r.pc = "publish"
    BY <1>t, <1>5 DEF Publish, Responds, Ends
  <2>2. redis[c].here /\ Opened(redis[c].messages, n)
    BY <1>c, <2>1 DEF PostCalm
  <2>3. redis[c].agentStatus = "isThinking"
    BY <2>1 DEF PromiseInv, FreshInv
  <2>4. WaitCalm(c)'
    BY <2>1, <2>2, <2>3 DEF WaitCalm
  <2>5. \A q \in requests' : q.conv # c
    BY <1>r, <2>1
  <2> QED BY <1>n, <1>r, <2>1, <2>4, <2>5 DEF CalmAt
<1> QED
  BY <1>o, <1>1, <1>2, <1>3, <1>4, <1>5
  DEF BackendStep, StopGet, StopSave, StopDel, GetRead, GetUpdate

(* A stop or a getChat persists what is shown.                             *)
LEMMA ClosingCalm ==
  ASSUME Calm, Standing, NEW r \in requests, ~Posting(r), BackendStep(r)
  PROVE  CalmAt(r.conv)'
<1> USE DEF Standing, storeVars, brokerVars, userVars
<1> DEFINE c == r.conv
<1>t. /\ c \in Conv /\ r \in Request
      /\ redis \in [Conv -> Chat] /\ db \in [Conv -> Row]
  BY OrderTypes DEF TypeOK
<1>r. /\ client[c] = "idle"
      /\ \A q \in requests : q.conv = c => ~Posting(q)
      /\ \A t \in tasks : t.event.conv # c
  BY <1>t, RequestsCalm
<1>c. /\ Told(Transcript(c), sent[c])
      /\ sent[c] = 0 => ~redis[c].here /\ db[c].messages = << >>
      /\ \A q \in requests : q.conv = c /\ q.pc \in {"save", "del", "update"} =>
           q.messages = Transcript(c) /\ (q.pc = "del" => db[c].messages = q.messages)
  BY <1>t, <1>r DEF CalmInv, CalmAt, IdleCalm
<1>u. UNCHANGED <<client, sent, tasks>>
  BY DEF BackendStep, NewInsert, ContinueGet, ContinueFind, SetThinking, Publish,
         Posting, StopGet, StopSave, StopDel, GetRead, GetUpdate
<1>i. ASSUME Transcript(c)' = Transcript(c),
             redis'[c].here => redis[c].here,
             db'[c].messages \in {db[c].messages, Transcript(c)},
             \A q \in requests' : q.conv = c =>
               \/ q \in requests
               \/ /\ ~Posting(q)
                  /\ q.pc \in {"save", "del", "update"} =>
                       q.messages = Transcript(c)
                       /\ (q.pc = "del" => db'[c].messages = q.messages)
      PROVE  CalmAt(c)'
  <2>1. \A q \in requests' : q.conv = c =>
          /\ ~Posting(q)
          /\ q.pc \in {"save", "del", "update"} =>
               q.messages = Transcript(c) /\ (q.pc = "del" => db'[c].messages = q.messages)
    BY <1>c, <1>i, <1>r
  <2>2. IdleCalm(c)'
    BY <1>c, <1>i, <1>u, <2>1 DEF IdleCalm
  <2>3. sent'[c] = 0 => ~redis'[c].here /\ db'[c].messages = << >>
    BY <1>c, <1>i, <1>u DEF Transcript
  <2> QED BY <1>i, <1>r, <1>u, <2>1, <2>2, <2>3 DEF CalmAt, Posting
<1>s. ASSUME NEW pc, NEW msgs, Step(r, pc, msgs)
      PROVE  \A q \in requests' : \/ q \in requests
                                  \/ ~Posting(q) /\ q.pc = pc /\ q.messages = msgs
  <2> DEFINE u == [r EXCEPT !.pc = pc, !.messages = msgs]
  <2>1. u.op = r.op /\ u.pc = pc /\ u.messages = msgs
    BY <1>t DEF Request
  <2>2. requests' = (requests \ {r}) \cup {u}
    BY <1>s DEF Step
  <2> HIDE DEF u
  <2> QED BY <2>1, <2>2 DEF Posting
<1>1. CASE StopGet(r) \/ GetRead(r)
  <2>1. UNCHANGED <<redis, db>>
    BY <1>1 DEF StopGet, GetRead
  <2>2. Transcript(c)' = Transcript(c)
    BY <2>1 DEF Transcript
  <2>3. \/ requests' = requests \ {r}
        \/ /\ redis[c].here
           /\ \E pc \in {"save", "update"} : Step(r, pc, redis[c].messages)
    BY <1>1 DEF StopGet, GetRead, Ends
  <2>4. redis[c].here => redis[c].messages = Transcript(c)
    BY DEF Transcript
  <2> QED BY <1>i, <1>s, <2>1, <2>2, <2>3, <2>4
<1>2. CASE StopSave(r) \/ GetUpdate(r)
  <2>1. /\ UNCHANGED redis /\ db'[c].messages = r.messages
        /\ r.messages = Transcript(c)
    BY <1>t, <1>c, <1>2 DEF StopSave, GetUpdate, Persist, Row
  <2>2. Transcript(c)' = Transcript(c)
    BY <2>1 DEF Transcript
  <2>3. requests' = requests \ {r} \/ Step(r, "del", r.messages)
    BY <1>2 DEF StopSave, GetUpdate, Ends
  <2> QED BY <1>i, <1>s, <2>1, <2>2, <2>3
<1>3. CASE StopDel(r)
  <2>1. /\ UNCHANGED db /\ redis'[c] = NoChat /\ requests' = requests \ {r}
        /\ r.messages = Transcript(c) /\ db[c].messages = r.messages
    BY <1>t, <1>c, <1>3 DEF StopDel, Ends
  <2>2. Transcript(c)' = Transcript(c) /\ ~redis'[c].here
    BY <2>1 DEF Transcript, NoChat
  <2> QED BY <1>i, <2>1, <2>2
<1> QED
  BY <1>1, <1>2, <1>3
  DEF BackendStep, NewInsert, ContinueGet, ContinueFind, SetThinking, Publish, Posting

(* The task of a turn thinks in the chat it found, then replies in it.     *)
LEMMA TaskCalm ==
  ASSUME Calm, Standing, NEW t \in tasks, TaskStep(t) \/ GraphFails(t)
  PROVE  CalmAt(t.event.conv)'
<1> USE DEF Standing, storeVars, brokerVars, userVars
<1> DEFINE c == t.event.conv
           n == sent[c]
<1>t. /\ c \in Conv /\ t \in Task /\ n \in Turn
      /\ redis \in [Conv -> Chat] /\ redis[c].messages \in Seq(Message)
      /\ client[c] = "waiting" /\ t.event.turn = n
      /\ redis[c].agentStatus = "isThinking"
      /\ \A u \in tasks : u.event.conv = c => u = t
  <2>1. t \in Task /\ redis \in [Conv -> Chat]
    BY DEF TypeOK
  <2> QED BY <2>1, TasksWait, OrderTypes
<1>r. \A r \in requests : r.conv # c
  BY <1>t, RequestsCalm
<1>c. /\ redis[c].here /\ Opened(redis[c].messages, n)
      /\ t.pc # "load" => t.messages = redis[c].messages
  BY <1>t DEF CalmInv, CalmAt, WaitCalm
<1>n. /\ t.pc \notin {"publish", "note"} /\ Replies(t)
      /\ ~Fails("store") /\ "accept" \notin Intents
  BY DEF CalmInv, NoAccepts, Replies, Calm, Reliable, Fails
<1>z. n # 0
  BY <1>t DEF Turn
<1>s. ASSUME UNCHANGED <<requests, db, client, sent>>, redis'[c].here,
             redis'[c].agentStatus = "isThinking" => Opened(redis'[c].messages, n),
             redis'[c].agentStatus = "hasReplied" => Told(redis'[c].messages, n),
             \A u \in tasks' : u.event.conv = c /\ u.pc # "load" =>
                                 u.messages = redis'[c].messages
      PROVE  CalmAt(c)'
  <2>1. WaitCalm(c)'
    BY <1>s DEF WaitCalm
  <2> QED BY <1>r, <1>s, <1>t, <1>z, <2>1 DEF CalmAt
<1>b. ASSUME NEW u, Becomes(t, u), u.event = t.event
      PROVE  \A v \in tasks' : v.event.conv = c => v = u
  BY <1>b, <1>t DEF Becomes
<1>k. ASSUME NEW node \in Nodes, NEW next \in Task, next.event = t.event,
             t.pc # "load", ThinkAloud(t, node, next),
             UNCHANGED <<requests, db, client, sent>>
      PROVE  CalmAt(c)'
  <2> DEFINE m    == Thinking(node, t.event.turn)
             msgs == Append(t.messages, m)
             u    == [next EXCEPT !.messages = msgs]
  <2>1. m \in Message /\ m.kind = "thinking"
    BY <1>t, MessageTypes DEF Thinking
  <2>2. /\ redis' = [redis EXCEPT ![c] = [here |-> TRUE, messages |-> msgs,
                                   agentStatus |-> "isThinking", ttl |-> FALSE]]
        /\ Becomes(t, u)
    BY <1>k, <1>n DEF ThinkAloud, SetChat
  <2>3. u.event = t.event /\ u.messages = msgs
    BY <1>k DEF Task
  <2>4. Opened(msgs, n)
    BY <1>c, <1>k, <1>t, <2>1, OpenedByThinking
  <2> HIDE DEF m, msgs, u
  <2>5. redis'[c].here /\ redis'[c].agentStatus = "isThinking" /\ redis'[c].messages = msgs
    BY <1>t, <2>2
  <2> QED BY <1>b, <1>k, <1>s, <2>2, <2>3, <2>4, <2>5
<1>1. CASE TaskLoad(t)
  <2> DEFINE u == [t EXCEPT !.pc = "mark", !.messages = redis[c].messages]
  <2>1. Becomes(t, u) /\ UNCHANGED <<redis, requests, db, client, sent>>
    BY <1>1, <1>c DEF TaskLoad
  <2>2. u.event = t.event /\ u.messages = redis[c].messages
    BY <1>t DEF Task
  <2> HIDE DEF u
  <2> QED BY <1>b, <1>c, <1>s, <1>t, <2>1, <2>2
<1>2. CASE TaskMark(t)
  <2> DEFINE u == [t EXCEPT !.pc = "intent"]
  <2>1. /\ redis' = [redis EXCEPT ![c] = [here |-> TRUE, messages |-> t.messages,
                                   agentStatus |-> "isThinking", ttl |-> FALSE]]
        /\ Becomes(t, u) /\ t.pc # "load" /\ UNCHANGED <<requests, db, client, sent>>
    BY <1>2 DEF TaskMark, SetChat
  <2>2. u.event = t.event /\ u.messages = t.messages
    BY <1>t DEF Task
  <2> HIDE DEF u
  <2>3. /\ redis'[c].here /\ redis'[c].agentStatus = "isThinking"
        /\ redis'[c].messages = redis[c].messages
    BY <1>c, <1>t, <2>1
  <2> QED BY <1>b, <1>c, <1>s, <2>1, <2>2, <2>3
<1>3. CASE TaskIntent(t)
  <2>1. PICK i \in Intents \ {"accept"} :
          ThinkAloud(t, "intent_node",
            [t EXCEPT !.intent = i,
                      !.prior = IF i = "refine" THEN LatestPlan(t.event.history)
                                                ELSE {},
                      !.pc = IF i = "undefined" THEN "settle" ELSE "work"])
    BY <1>3 DEF TaskIntent
  <2> DEFINE next == [t EXCEPT !.intent = i,
                      !.prior = IF i = "refine" THEN LatestPlan(t.event.history)
                                                ELSE {},
                      !.pc = IF i = "undefined" THEN "settle" ELSE "work"]
  <2>2. next \in Task
    <3>1. i \in IntentKinds
      BY ChatAssumption
    <3>2. LatestPlan(t.event.history) \subseteq Message
      <4>1. t.event.history \in Seq(Message)
        BY <1>t DEF Task, ChatEvent
      <4> QED BY <4>1 DEF LatestPlan, PlanIndexes
    <3> QED BY <1>t, <3>1, <3>2 DEF Task
  <2>3. next.event = t.event
    BY <1>t DEF Task
  <2>4. "intent_node" \in Nodes /\ t.pc # "load" /\ UNCHANGED <<requests, db, client, sent>>
    BY <1>3 DEF TaskIntent, Nodes
  <2> HIDE DEF next
  <2>5. ThinkAloud(t, "intent_node", next)
    BY <2>1 DEF next
  <2> QED BY <1>k, <2>2, <2>3, <2>4, <2>5
<1>4. CASE TaskWork(t)
  <2>1. PICK last \in BOOLEAN :
          ThinkAloud(t, IF last THEN "reply_node" ELSE "work_node",
                     [t EXCEPT !.updates = @ + 1,
                               !.pc = IF last THEN "settle" ELSE "work"])
    BY <1>4 DEF TaskWork
  <2> DEFINE next == [t EXCEPT !.updates = @ + 1,
                               !.pc = IF last THEN "settle" ELSE "work"]
             node == IF last THEN "reply_node" ELSE "work_node"
  <2>2. next \in Task /\ next.event = t.event
    <3>1. t.updates + 1 \in Nat
      BY <1>t DEF Task
    <3>2. next = [t EXCEPT !.updates = t.updates + 1,
                           !.pc = IF last THEN "settle" ELSE "work"]
      BY <1>t DEF Task
    <3> QED BY <1>t, <3>1, <3>2 DEF Task
  <2>3. node \in Nodes /\ t.pc # "load" /\ UNCHANGED <<requests, db, client, sent>>
    BY <1>4 DEF TaskWork, Nodes
  <2> HIDE DEF next, node
  <2>4. ThinkAloud(t, node, next)
    BY <2>1 DEF next, node
  <2> QED BY <1>k, <2>2, <2>3, <2>4
<1>5. CASE GraphFails(t)
  <2> DEFINE u == [t EXCEPT !.pc = "settle", !.error = TRUE]
  <2>1. Becomes(t, u) /\ t.pc # "load" /\ UNCHANGED <<redis, requests, db, client, sent>>
    BY <1>5 DEF GraphFails
  <2>2. u.event = t.event /\ u.messages = t.messages
    BY <1>t DEF Task
  <2> HIDE DEF u
  <2> QED BY <1>b, <1>c, <1>s, <1>t, <2>1, <2>2
<1>6. CASE TaskReply(t)
  <2> DEFINE msgs == Append(redis[c].messages, ReplyOf(t))
  <2>1. /\ redis' = [redis EXCEPT ![c] = [here |-> TRUE, messages |-> msgs,
                                   agentStatus |-> "hasReplied", ttl |-> FALSE]]
        /\ tasks' = tasks \ {t} /\ UNCHANGED <<requests, db, client, sent>>
    BY <1>6, <1>c DEF TaskReply, SetChat, Finishes
  <2>2. ReplyOf(t) \in Message /\ ReplyOf(t).kind \in ReplyKinds /\ ReplyOf(t).turn = n
    BY <1>t DEF ReplyOf, Reply, Message, Kinds, ReplyKinds, Nodes
  <2>3. Told(msgs, n)
    BY <1>c, <1>t, <2>2, ToldByReply
  <2> HIDE DEF msgs
  <2>4. redis'[c].here /\ redis'[c].agentStatus = "hasReplied" /\ redis'[c].messages = msgs
    BY <1>t, <2>1
  <2>5. \A u \in tasks' : u.event.conv # c
    BY <1>t, <2>1
  <2> QED BY <1>s, <2>1, <2>3, <2>4, <2>5
<1> QED
  BY <1>n, <1>1, <1>2, <1>3, <1>4, <1>5, <1>6
  DEF TaskStep, TaskAccept, TaskPublish, TaskNote, TaskReturn

(* Nothing is accepted.                                                    *)
LEMMA AcceptsStep ==
  ASSUME Calm, Standing, [Next]_vars
  PROVE  NoAccepts'
<1> USE DEF Standing, storeVars, brokerVars, userVars
<1>n. /\ acceptQueue = << >> /\ jobs = {} /\ "accept" \notin Intents
      /\ \A t \in tasks : /\ t.pc \notin {"publish", "note"} /\ t.intent # "accept"
                          /\ t \in Task
      /\ ~Fails("store") /\ ~Fails("crash") /\ ~Fails("expiry")
  BY DEF CalmInv, NoAccepts, TypeOK, Calm, Reliable, Fails
<1>u. ASSUME UNCHANGED <<acceptQueue, jobs>>, tasks' \subseteq tasks PROVE NoAccepts'
  BY <1>n, <1>u DEF NoAccepts
<1>b. ASSUME UNCHANGED <<acceptQueue, jobs>>, NEW t \in tasks, NEW u, Becomes(t, u),
             u.pc \notin {"publish", "note"}, u.intent # "accept"
      PROVE  NoAccepts'
  BY <1>n, <1>b DEF NoAccepts, Becomes
<1>1. CASE Fault
  <2>1. ASSUME NEW t \in tasks, GraphFails(t) PROVE NoAccepts'
    <3> DEFINE u == [t EXCEPT !.pc = "settle", !.error = TRUE]
    <3>1. Becomes(t, u) /\ UNCHANGED <<acceptQueue, jobs>>
      BY <2>1 DEF GraphFails
    <3>2. u.pc = "settle" /\ u.intent = t.intent
      BY <1>n DEF Task
    <3> HIDE DEF u
    <3> QED BY <1>b, <1>n, <3>1, <3>2
  <2> QED BY <1>1, <1>n, <2>1
          DEF Fault, BackendCrash, ArchitectCrash, ConsumerDisconnect, TicketCrash,
              RequestFails, TaskFails, TicketGraphFails, TicketFails, Expire
<1>2. ASSUME NEW t \in tasks, TaskStep(t) PROVE NoAccepts'
  <2>t. t \in Task
    BY <1>n
  <2>k. ASSUME NEW node, NEW next \in Task, ThinkAloud(t, node, next),
               next.pc \notin {"publish", "note"}, next.intent # "accept",
               UNCHANGED <<acceptQueue, jobs>>
        PROVE  NoAccepts'
    <3> DEFINE u == [next EXCEPT !.messages =
                       Append(t.messages, Thinking(node, t.event.turn))]
    <3>1. Becomes(t, u)
      BY <1>n, <2>k DEF ThinkAloud
    <3>2. u.pc = next.pc /\ u.intent = next.intent
      BY DEF Task
    <3> HIDE DEF u
    <3> QED BY <1>b, <2>k, <3>1, <3>2
  <2>1. CASE TaskLoad(t)
    <3> DEFINE u == [t EXCEPT !.pc = "mark", !.messages = redis[t.event.conv].messages]
    <3>1. /\ Becomes(t, u) \/ tasks' = tasks \ {t}
          /\ UNCHANGED <<acceptQueue, jobs>>
      BY <2>1 DEF TaskLoad, Finishes
    <3>2. u.pc = "mark" /\ u.intent = t.intent
      BY <2>t DEF Task
    <3> HIDE DEF u
    <3> QED BY <1>b, <1>n, <1>u, <3>1, <3>2
  <2>2. CASE TaskMark(t)
    <3> DEFINE u == [t EXCEPT !.pc = "intent"]
    <3>1. Becomes(t, u) /\ UNCHANGED <<acceptQueue, jobs>>
      BY <2>2 DEF TaskMark
    <3>2. u.pc = "intent" /\ u.intent = t.intent
      BY <2>t DEF Task
    <3> HIDE DEF u
    <3> QED BY <1>b, <1>n, <3>1, <3>2
  <2>3. CASE TaskIntent(t)
    <3>1. PICK i \in Intents \ {"accept"} :
            ThinkAloud(t, "intent_node",
              [t EXCEPT !.intent = i,
                        !.prior = IF i = "refine" THEN LatestPlan(t.event.history)
                                                  ELSE {},
                        !.pc = IF i = "undefined" THEN "settle" ELSE "work"])
      BY <2>3 DEF TaskIntent
    <3> DEFINE next == [t EXCEPT !.intent = i,
                        !.prior = IF i = "refine" THEN LatestPlan(t.event.history)
                                                  ELSE {},
                        !.pc = IF i = "undefined" THEN "settle" ELSE "work"]
    <3>2. next \in Task
      <4>1. i \in IntentKinds
        BY ChatAssumption
      <4>2. LatestPlan(t.event.history) \subseteq Message
        <5>1. t.event.history \in Seq(Message)
          BY <2>t DEF Task, ChatEvent
        <5> QED BY <5>1 DEF LatestPlan, PlanIndexes
      <4> QED BY <2>t, <4>1, <4>2 DEF Task
    <3>3. next.intent # "accept" /\ next.pc \in {"settle", "work"}
      BY <2>t DEF Task
    <3>4. UNCHANGED <<acceptQueue, jobs>>
      BY <2>3 DEF TaskIntent
    <3> HIDE DEF next
    <3>5. ThinkAloud(t, "intent_node", next)
      BY <3>1 DEF next
    <3> QED BY <2>k, <3>2, <3>3, <3>4, <3>5
  <2>4. CASE TaskWork(t)
    <3>1. PICK last \in BOOLEAN :
            ThinkAloud(t, IF last THEN "reply_node" ELSE "work_node",
                       [t EXCEPT !.updates = @ + 1,
                                 !.pc = IF last THEN "settle" ELSE "work"])
      BY <2>4 DEF TaskWork
    <3> DEFINE next == [t EXCEPT !.updates = @ + 1,
                                 !.pc = IF last THEN "settle" ELSE "work"]
               node == IF last THEN "reply_node" ELSE "work_node"
    <3>2. next \in Task
      <4>1. t.updates + 1 \in Nat
        BY <2>t DEF Task
      <4>2. next = [t EXCEPT !.updates = t.updates + 1,
                             !.pc = IF last THEN "settle" ELSE "work"]
        BY <2>t DEF Task
      <4> QED BY <2>t, <4>1, <4>2 DEF Task
    <3>3. next.intent = t.intent /\ next.pc \in {"settle", "work"}
      BY <2>t DEF Task
    <3>4. UNCHANGED <<acceptQueue, jobs>>
      BY <2>4 DEF TaskWork
    <3> HIDE DEF next, node
    <3>5. ThinkAloud(t, node, next)
      BY <3>1 DEF next, node
    <3> QED BY <1>n, <2>k, <3>2, <3>3, <3>4, <3>5
  <2>5. CASE TaskReply(t) \/ TaskReturn(t)
    BY <1>u, <2>5 DEF TaskReply, TaskReturn, Finishes
  <2> QED BY <1>2, <1>n, <2>1, <2>2, <2>3, <2>4, <2>5
          DEF TaskStep, TaskAccept, TaskPublish, TaskNote
<1>3. CASE Deliver
  <2>1. \A e : NewTask(e).pc = "load" /\ NewTask(e).intent = "none"
    BY DEF NewTask
  <2>2. /\ tasks' = tasks \cup {NewTask(Head(chatQueue))}
        /\ UNCHANGED <<acceptQueue, jobs>>
    BY <1>3 DEF Deliver
  <2> QED BY <1>n, <2>1, <2>2 DEF NoAccepts
<1>4. ASSUME NEW r \in requests, BackendStep(r) PROVE NoAccepts'
  BY <1>4, <1>u DEF BackendStep, NewInsert, ContinueGet, ContinueFind, SetThinking,
                    Publish, StopGet, StopSave, StopDel, GetRead, GetUpdate
<1>5. CASE Ack \/ \E c \in Conv : ReceiveReply(c) \/ User(c)
  BY <1>5, <1>u DEF Ack, ReceiveReply, User, SendMessage, OpenChat, Leave
<1>6. CASE UNCHANGED vars
  BY <1>6, <1>u DEF vars
<1> QED BY <1>n, <1>1, <1>2, <1>3, <1>4, <1>5, <1>6 DEF Next, System, TicketDeliver

(* The tab asks when nothing else is under way, and stops what it saw      *)
(* replied to.                                                             *)
LEMMA TabCalm ==
  ASSUME Calm, Standing, NEW c \in Conv, User(c) \/ ReceiveReply(c)
  PROVE  CalmAt(c)'
<1> USE DEF Standing, storeVars, brokerVars, userVars
<1>t. /\ client \in [Conv -> {"idle", "sending", "waiting"}]
      /\ sent[c] \in Nat /\ sent \in [Conv -> 0 .. MaxTurns]
  BY OrderTypes DEF TypeOK
<1>c. CalmAt(c)
  BY DEF CalmInv
<1>q. UNCHANGED <<redis, db, tasks>> /\ ~Leave(c)
  BY DEF User, SendMessage, OpenChat, Leave, ReceiveReply, Calm
<1>s. Transcript(c)' = Transcript(c)
  BY <1>q DEF Transcript
<1>p. ASSUME NEW op, NEW turn, NEW pc, Sends(op, c, turn, pc)
      PROVE  \E u : /\ requests' = requests \cup {u}
                    /\ u.conv = c /\ u.op = op /\ u.pc = pc
  <2> DEFINE u == [op |-> op, conv |-> c, turn |-> turn, pc |-> pc,
                   messages |-> << >>]
  <2>1. requests' = requests \cup {u} /\ u.conv = c /\ u.op = op /\ u.pc = pc
    BY <1>p DEF Sends
  <2> QED BY <2>1
<1>1. CASE SendMessage(c)
  <2>1. /\ client[c] = "idle" /\ client'[c] = "sending"
        /\ sent'[c] = sent[c] + 1 /\ sent'[c] # 0 /\ sent'[c] - 1 = sent[c]
        /\ \A r \in requests : r.conv # c
    BY <1>1, <1>t DEF SendMessage, RequestsOf, Calm
  <2>2. /\ Told(Transcript(c), sent[c])
        /\ sent[c] = 0 => ~redis[c].here /\ db[c].messages = << >>
        /\ \A t \in tasks : t.event.conv # c
    BY <1>c, <2>1, RequestsCalm DEF CalmAt, IdleCalm
  <2>3. \E u : /\ requests' = requests \cup {u} /\ u.conv = c
               /\ \/ sent[c] = 0 /\ u.op = "new" /\ u.pc = "insert"
                  \/ u.op = "continue" /\ u.pc = "get"
    BY <1>1, <1>p DEF SendMessage
  <2>4. PICK u : /\ requests' = requests \cup {u} /\ u.conv = c
                 /\ \/ sent[c] = 0 /\ u.op = "new" /\ u.pc = "insert"
                    \/ u.op = "continue" /\ u.pc = "get"
    BY <2>3
  <2>5. PostCalm(u)'
    BY <1>q, <1>s, <2>1, <2>2, <2>4 DEF PostCalm
  <2>6. Posting(u) /\ \A r \in requests' : r.conv = c => r = u
    BY <2>1, <2>4 DEF Posting
  <2> QED BY <1>q, <2>1, <2>2, <2>4, <2>5, <2>6 DEF CalmAt, Posting
<1>2. CASE ReceiveReply(c)
  <2>1. /\ client[c] = "waiting" /\ client'[c] = "idle" /\ sent'[c] = sent[c]
        /\ redis[c].here /\ redis[c].agentStatus = "hasReplied"
    BY <1>2, <1>t DEF ReceiveReply, HasReplied
  <2>2. Told(Transcript(c), sent[c])
    BY <1>c, <2>1 DEF CalmAt, WaitCalm, Transcript
  <2>3. /\ \A r \in requests : r.conv # c
        /\ \A t \in tasks : t.event.conv # c
    BY <2>1, RequestsCalm, TasksWait
  <2>4. PICK u : requests' = requests \cup {u} /\ u.op = "stop" /\ u.pc = "get"
    BY <1>2, <1>p DEF ReceiveReply
  <2>5. IdleCalm(c)'
    BY <1>s, <2>1, <2>2, <2>3, <2>4 DEF IdleCalm
  <2> QED BY <1>c, <1>q, <2>1, <2>3, <2>4, <2>5 DEF CalmAt, Posting
<1>3. CASE OpenChat(c)
  <2>1. client[c] = "idle" /\ UNCHANGED <<client, sent>>
    BY <1>3 DEF OpenChat
  <2>2. PICK u : requests' = requests \cup {u} /\ u.op = "get" /\ u.pc = "get"
    BY <1>3, <1>p DEF OpenChat
  <2>3. IdleCalm(c)'
    BY <1>c, <1>q, <1>s, <2>1, <2>2 DEF CalmAt, IdleCalm
  <2>4. \A r \in requests : r.conv = c => ~Posting(r)
    BY <2>1, RequestsCalm
  <2> QED BY <1>c, <1>q, <2>1, <2>2, <2>3, <2>4 DEF CalmAt, Posting
<1> QED BY <1>q, <1>1, <1>2, <1>3 DEF User

(* Every step keeps every conversation calm.                               *)
LEMMA CalmStep ==
  ASSUME Calm, Standing, [Next]_vars
  PROVE  CalmInv'
<1> USE DEF storeVars, brokerVars, userVars
<1>t. /\ \A r \in requests : r.conv \in Conv
      /\ \A t \in tasks : t.event.conv \in Conv /\ t \in Task
      /\ redis \in [Conv -> Chat] /\ db \in [Conv -> Row]
      /\ client \in [Conv -> {"idle", "sending", "waiting"}]
      /\ sent \in [Conv -> 0 .. MaxTurns]
      /\ \A c \in Conv : CalmAt(c)
  BY DEF Standing, CalmInv, TypeOK, Request, Task, ChatEvent
<1>n. /\ acceptQueue = << >> /\ jobs = {}
      /\ ~Fails("store") /\ ~Fails("crash") /\ ~Fails("expiry")
  BY DEF Standing, CalmInv, NoAccepts, Calm, Reliable, Fails
<1>s. SUFFICES ASSUME NEW d \in Conv PROVE CalmAt(d)'
  BY AcceptsStep DEF CalmInv
<1>f. ASSUME redis'[d] = redis[d], db'[d] = db[d], client'[d] = client[d],
             sent'[d] = sent[d],
             \A r \in requests \cup requests' :
               r.conv = d => r \in requests \cap requests',
             \A t \in tasks' : t.event.conv = d => t \in tasks \/ t.pc = "load"
      PROVE  CalmAt(d)'
  BY <1>f, <1>t, CalmFrame
<1>1. ASSUME NEW r \in requests, BackendStep(r) PROVE CalmAt(d)'
  <2>1. CASE r.conv = d
    BY <1>1, <2>1, PostingCalm, ClosingCalm
  <2>2. CASE r.conv # d
    <3>1. /\ redis'[d] = redis[d] /\ db'[d] = db[d] /\ client'[d] = client[d]
          /\ UNCHANGED <<sent, tasks>>
      BY <1>1, <1>t, <2>2
      DEF BackendStep, NewInsert, ContinueGet, ContinueFind, SetThinking, SetChat,
          Publish, Responds, StopGet, StopSave, StopDel, GetRead, GetUpdate, Persist
    <3>2. \/ requests' = requests \ {r}
          \/ \E pc, msgs : Step(r, pc, msgs)
      BY <1>1 DEF BackendStep, NewInsert, ContinueGet, ContinueFind, SetThinking,
                  Publish, Responds, Ends, StopGet, StopSave, StopDel, GetRead, GetUpdate
    <3>3. ASSUME NEW pc, NEW msgs, Step(r, pc, msgs)
          PROVE  \A q \in requests \cup requests' :
                   q.conv = d => q \in requests \cap requests'
      <4> DEFINE u == [r EXCEPT !.pc = pc, !.messages = msgs]
      <4>1. u.conv = r.conv
        BY DEF Standing, TypeOK, Request
      <4>2. requests' = (requests \ {r}) \cup {u}
        BY <3>3 DEF Step
      <4> HIDE DEF u
      <4> QED BY <2>2, <4>1, <4>2
    <3>4. \A q \in requests \cup requests' :
            q.conv = d => q \in requests \cap requests'
      BY <2>2, <3>2, <3>3
    <3> QED BY <1>f, <3>1, <3>4
  <2> QED BY <2>1, <2>2
<1>2. ASSUME NEW t \in tasks, TaskStep(t) \/ GraphFails(t)
      PROVE  CalmAt(d)'
  <2>1. CASE t.event.conv = d
    BY <1>2, <2>1, TaskCalm
  <2>2. CASE t.event.conv # d
    <3>1. redis'[d] = redis[d] /\ UNCHANGED <<db, client, sent, requests>>
      BY <1>2, <1>t, <2>2
      DEF TaskStep, TaskLoad, TaskMark, TaskIntent, TaskAccept, TaskPublish, TaskNote,
          TaskWork, TaskReturn, TaskReply, GraphFails, SetChat, ThinkAloud
    <3>2. \A v \in tasks' : v \in tasks \/ v.event = t.event
      BY <1>2, TaskMoves DEF Standing, Becomes, Finishes
    <3> QED BY <1>f, <2>2, <3>1, <3>2
  <2> QED BY <2>1, <2>2
<1>3. ASSUME NEW c \in Conv, User(c) \/ ReceiveReply(c) PROVE CalmAt(d)'
  <2>1. CASE c = d
    BY <1>3, <2>1, TabCalm
  <2>2. CASE c # d
    <3>1. /\ UNCHANGED <<redis, db, tasks>> /\ client'[d] = client[d]
          /\ sent'[d] = sent[d]
      BY <1>3, <1>t, <2>2 DEF User, SendMessage, OpenChat, Leave, ReceiveReply
    <3>2. \A q \in requests \cup requests' :
            q.conv = d => q \in requests \cap requests'
      BY <1>3, <2>2 DEF User, SendMessage, OpenChat, Leave, ReceiveReply, Sends
    <3> QED BY <1>f, <3>1, <3>2
  <2> QED BY <2>1, <2>2
<1>4. CASE Deliver
  <2>1. \A e : NewTask(e).pc = "load"
    BY DEF NewTask
  <2> QED BY <1>4, <1>f, <2>1 DEF Deliver
<1>5. CASE Ack \/ UNCHANGED vars
  BY <1>5, <1>f DEF Ack, vars
<1>6. CASE Fault
  BY <1>2, <1>6, <1>n
  DEF Fault, BackendCrash, ArchitectCrash, ConsumerDisconnect, TicketCrash,
      RequestFails, TaskFails, TicketGraphFails, TicketFails, Expire
<1> QED BY <1>n, <1>1, <1>2, <1>3, <1>4, <1>5, <1>6 DEF Next, System, TicketDeliver

(* A calm system is Standing in every state.                               *)
LEMMA CalmInvariant ==
  ASSUME Calm
  PROVE  Spec => []Standing
<1>1. Init => CalmInv
  <2> SUFFICES ASSUME Init PROVE CalmInv
    OBVIOUS
  <2>1. NoAccepts
    BY DEF Init, NoAccepts
  <2>2. ASSUME NEW c \in Conv PROVE CalmAt(c)
    <3>1. /\ ~redis[c].here /\ db[c].messages = << >> /\ sent[c] = 0
          /\ client[c] = "idle" /\ requests = {} /\ tasks = {}
      BY DEF Init, NoChat, NoRow
    <3>2. Transcript(c) = << >>
      BY <3>1 DEF Transcript
    <3> QED BY <3>1, <3>2, ToldEmpty DEF CalmAt, IdleCalm
  <2> QED BY <2>1, <2>2 DEF CalmInv
<1>2. TypeOK /\ EventInv /\ RepliedEndsInReply /\ PromiseInv /\ CalmInv /\ [Next]_vars
        => CalmInv'
  BY CalmStep DEF Standing
<1>3. Reliable /\ ~Leaves
  BY DEF Calm
<1>4. (Spec => []EventInv) /\ (Spec => []PromiseInv)
  BY <1>3, EventsInvariant, PromiseInvariant
<1>5. TypeOK /\ EventInv /\ RepliedEndsInReply /\ PromiseInv /\ CalmInv => Standing
  BY DEF Standing
<1> QED
  BY <1>1, <1>2, <1>4, <1>5, TypeCorrect, RepliedChatsAreAnswered, PTL DEF Spec

(* In a calm system, whenever nothing is under way for a conversation      *)
(* whose tab is idle, what a reader is shown is one question and its reply *)
(* per turn, in order, whichever of Redis and the row it is read from.     *)
THEOREM TurnsAreToldInFull ==
  ASSUME Calm
  PROVE  Spec => []FullTranscript
<1>1. Standing => FullTranscript
  BY DEF Standing, CalmInv, CalmAt, IdleCalm, FullTranscript
<1> QED BY <1>1, CalmInvariant, PTL
=============================================================================
