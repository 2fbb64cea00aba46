---------------------------- MODULE ChatSystem ----------------------------
(***************************************************************************)
(* The composition: browser tab, backend, architect-agent and ticket-agent *)
(* around Redis, PostgreSQL and RabbitMQ, with the faults the deployment   *)
(* can inject.                                                             *)
(***************************************************************************)
EXTENDS ChatClient, Backend, ArchitectAgent, TicketAgent

(* Redis drops a key whose EX 7200 ran out.                                *)
Expire(c) ==
  /\ Fails("expiry")
  /\ redis[c].here /\ redis[c].ttl
  /\ redis' = [redis EXCEPT ![c] = NoChat]
  /\ UNCHANGED <<db, requests, brokerVars, tasks, jobs, epics, userVars, fate>>

User(c) == SendMessage(c) \/ OpenChat(c) \/ Leave(c)

Fault ==
  \/ BackendCrash \/ ArchitectCrash \/ ConsumerDisconnect \/ TicketCrash
  \/ \E r \in requests : RequestFails(r)
  \/ \E t \in tasks : GraphFails(t) \/ TaskFails(t)
  \/ \E j \in jobs : TicketGraphFails(j) \/ TicketFails(j)
  \/ \E c \in Conv : Expire(c)

System ==
  \/ \E c \in Conv : ReceiveReply(c)
  \/ \E r \in requests : BackendStep(r)
  \/ Deliver \/ Ack
  \/ \E t \in tasks : TaskStep(t)
  \/ TicketDeliver
  \/ \E j \in jobs : JobStep(j)

Next == Fault \/ System \/ \E c \in Conv : User(c)

Spec == Init /\ [][Next]_vars

(* Processes keep running: a poll, a handler, a consumer, a task that can  *)
(* take a step eventually does.  The user and the faults owe nothing.      *)
Fairness ==
  /\ \A c \in Conv : WF_vars(ReceiveReply(c))
  /\ WF_vars(\E r \in requests : BackendStep(r))
  /\ WF_vars(Deliver) /\ WF_vars(Ack)
  /\ WF_vars(\E t \in tasks : TaskStep(t))
  /\ WF_vars(TicketDeliver)
  /\ WF_vars(\E j \in jobs : JobStep(j))

FairSpec == Spec /\ Fairness
----------------------------------------------------------------------------
(* Copies of a conversation's messages, wherever they are held.            *)
HeldMessages(c) ==
  {redis[c].messages, db[c].messages}
    \cup {r.messages : r \in {q \in requests : q.conv = c}}
    \cup {t.messages : t \in {u \in tasks : u.event.conv = c}}
    \cup {j.messages : j \in {k \in jobs : k.event.conv = c}}

AskIndexes(msgs) == {i \in 1 .. Len(msgs) : msgs[i].kind = "ask"}
Asks(msgs)       == {msgs[i].turn : i \in AskIndexes(msgs)}

(* Nothing is under way for the conversation anywhere in the system.       *)
Quiet(c) ==
  /\ client[c] # "sending"
  /\ \A r \in requests : r.conv # c
  /\ \A i \in 1 .. Len(chatQueue) : chatQueue[i].conv # c
  /\ \A e \in unacked : e.conv # c
  /\ \A t \in tasks : t.event.conv # c
  /\ \A i \in 1 .. Len(acceptQueue) : acceptQueue[i].conv # c
  /\ \A j \in jobs : j.event.conv # c

(* What a reader of the conversation is shown: Redis first, then the row.  *)
Transcript(c) == IF redis[c].here THEN redis[c].messages ELSE db[c].messages

(* What was said: all messages but the thinking.  A turn is in full when   *)
(* its question, then its reply and nothing else of it was said; n turns   *)
(* are told when each of them is in full and they follow one another.      *)
Spoken(msgs) == {i \in 1 .. Len(msgs) : msgs[i].kind # "thinking"}
InFull(msgs, t) ==
  \E i, j \in Spoken(msgs) :
    /\ i < j /\ msgs[i] = Ask(t)
    /\ msgs[j].kind \in ReplyKinds /\ msgs[j].turn = t
    /\ \A k \in Spoken(msgs) : msgs[k].turn = t => k \in {i, j}
Told(msgs, n) ==
  /\ \A i \in Spoken(msgs) : msgs[i].turn <= n
  /\ \A i, j \in Spoken(msgs) : i < j => msgs[i].turn <= msgs[j].turn
  /\ \A t \in 1 .. n : InFull(msgs, t)
----------------------------------------------------------------------------
(* A chat in Redis always has its conversation row, and so has every stop  *)
(* that is about to write it: newChat inserts before it sets, and nothing  *)
(* deletes rows.  Without it stopChat's repository.save, which names no    *)
(* username, would try to insert a row the table's NOT NULL refuses.       *)
KeyHasRow ==
  /\ \A c \in Conv : redis[c].here => db[c].here
  /\ \A r \in requests : r.pc \in {"save", "del", "update"} => db[r.conv].here

(* A chat whose agentStatus is hasReplied ends with a reply, whoever wrote *)
(* it last: the poll that sees hasReplied always finds a reply to show,    *)
(* and the getChat that found it so persists a chat that ends in one.  (A  *)
(* stop persists what it read, also of a turn that is still running.)      *)
RepliedEndsInReply ==
  /\ \A c \in Conv :
       redis[c].agentStatus = "hasReplied" =>
         /\ redis[c].messages # << >>
         /\ redis[c].messages[Len(redis[c].messages)].kind \in ReplyKinds
  /\ \A r \in requests :
       r.op = "get" /\ r.pc = "update" =>
         /\ r.messages # << >>
         /\ r.messages[Len(r.messages)].kind \in ReplyKinds

(* However stale a copy of the messages is, wherever it is held, the       *)
(* user's questions stand in it in the order they were sent, none twice.   *)
AsksInOrder ==
  \A c \in Conv : \A msgs \in HeldMessages(c) :
    \A i, j \in AskIndexes(msgs) : i < j => msgs[i].turn < msgs[j].turn

(* While no process dies, no consumer loses its connection, no store call  *)
(* fails and no confirm of a publish is lost, no copy of a conversation    *)
(* holds two replies to one question, although on accept two agents work   *)
(* on the same turn and each writes its own copy of the chat.              *)
OneReplyPerTurn ==
  \A c \in Conv : \A msgs \in HeldMessages(c) :
    \A i, j \in ReplyIndexes(msgs) : msgs[i].turn = msgs[j].turn => i = j

(* As long as the user waits for the reply of every turn, no store fails,  *)
(* no confirm is lost and no process dies or loses its consumer, epics are *)
(* only created for plans that were displayed to the user.                 *)
EpicsWereShown ==
  \A c \in Conv, t \in Turn :
    <<c, t>> \in epics =>
      \E i \in 1 .. Len(answers[c]) : /\ answers[c][i].kind = "plan"
                                      /\ answers[c][i].turn = t

(* A user who waits for every reply and every stop and accepts no plan     *)
(* finds, when nothing is under way, each question followed by its own     *)
(* reply and nothing else, also when the LLM failed: no turn lost,         *)
(* repeated or answered out of place. (Stores that fail, keys that expire  *)
(* and processes that die leave gaps.)                                     *)
FullTranscript ==
  \A c \in Conv :
    Quiet(c) /\ client[c] = "idle" => Told(Transcript(c), sent[c])

(* A turn of this conversation was left to the ticket-agent: its intent is *)
(* accept and the task does not reply.                                     *)
Accepted(c) ==
  \/ \E t \in Turn : fate[c][t] = "accepted"
  \/ \E k \in tasks : /\ k.event.conv = c
                       /\ \/ k.pc = "note"
                          \/ k.pc = "settle" /\ ~Replies(k)

(* What an agent said stands behind the question it is about.              *)
Together(msgs) ==
  \A i \in 1 .. Len(msgs) :
    msgs[i].kind # "ask" => i > 1 /\ msgs[i - 1].turn = msgs[i].turn

(* As long as the user waits for every reply, no turn was left to the      *)
(* ticket-agent, no store fails, no confirm is lost and no process dies or *)
(* loses its consumer, what an agent said stands behind its question in    *)
(* every copy of the conversation, also in those a racing stop or an       *)
(* expiry took questions from: no save slips a late message into another   *)
(* turn.                                                                   *)
TurnsStayTogether ==
  \A c \in Conv : ~Accepted(c) =>
    \A msgs \in HeldMessages(c) : Together(msgs)

(* Under the same conditions whatever is set under the key, by a POST, by  *)
(* a task's save of its own copy or by one that revives a key a stop just  *)
(* deleted, ends in the question asked last or what was said about it: no  *)
(* save takes a newer question back.                                       *)
NoSetGoesBack ==
  [][\A c \in Conv :
       ~Accepted(c) /\ redis'[c] # redis[c] /\ redis'[c].here =>
         LET msgs == redis'[c].messages
         IN  msgs # << >> /\ msgs[Len(msgs)].turn = sent[c]]_vars

(* An accept event on its way to the ticket-agent or in its hands.         *)
Pending(c, t) ==
  \/ \E i \in 1 .. Len(acceptQueue) :
       acceptQueue[i].conv = c /\ acceptQueue[i].turn = t
  \/ \E j \in jobs : /\ j.event.conv = c /\ j.event.turn = t
                      /\ j.pc # "ack"

(* A published accept event is not forgotten before the ticket-agent has   *)
(* worked it off, whenever that process dies or loses its connection.      *)
AcceptEventsAreKept ==
  [][\A c \in Conv, t \in Turn :
       Pending(c, t) =>
         \/ Pending(c, t)'
         \/ \E j \in jobs' : /\ j.event.conv = c /\ j.event.turn = t
                             /\ j.pc = "ack"]_vars

(* Under the conditions of EpicsWereShown the composed system does what    *)
(* the platform promises: each answer shown is the answer to the question  *)
(* asked last.                                                             *)
Promise == INSTANCE ChatPromise
  WITH asked <- sent,
       answered <- [c \in Conv |->
                     [i \in 1 .. Len(answers[c]) |-> answers[c][i].turn]]
KeepsPromise == Promise!Spec

(* ... and, with fair processes and a user who waits and accepts nothing,  *)
(* it does show one as long as only the LLM fails.                         *)
KeepsFairPromise == Promise!FairSpec

(* As long as nothing but the LLM fails and the user accepts nothing, a    *)
(* question on its way to the backend is eventually answered: the tab      *)
(* becomes usable again without the user giving up.                        *)
TurnsAreAnswered ==
  \A c \in Conv : client[c] = "sending" ~> client[c] = "idle"

(* A chat event the architect-agent has not finished is still queued,      *)
(* unacked or running, whatever fails around it.  Only a crash breaks it:  *)
(* the event is acked before its task is done.                             *)
NoEventIsLost ==
  \A c \in Conv, t \in Turn : fate[c][t] = "published" =>
    \/ \E i \in 1 .. Len(chatQueue) : chatQueue[i].conv = c /\ chatQueue[i].turn = t
    \/ \E e \in unacked : e.conv = c /\ e.turn = t
    \/ \E k \in tasks : k.event.conv = c /\ k.event.turn = t

(* A published event is eventually worked off by the architect-agent,      *)
(* whatever the stores, the broker, the LLM and the other turns do         *)
(* meanwhile, unless the agent's process dies: the event is then acked.    *)
(* Worked off it is also when load_chat raised, for the error is logged    *)
(* and nothing is tried again.                                             *)
EventsAreProcessed ==
  \A c \in Conv, t \in Turn :
    fate[c][t] = "published" ~> fate[c][t] \in {"processed", "accepted"}
----------------------------------------------------------------------------
(* What the documentation says and the code does not keep.                 *)

(* stopChat deletes the key only when every question in it is persisted.   *)
StopPersistsAll ==
  [][\A c \in Conv : redis[c].here /\ ~redis[c]'.here =>
       Asks(redis[c].messages) \subseteq Asks(db[c].messages)]_vars

(* An accepted turn is left unanswered: nothing is under way any more and  *)
(* the user still waits.                                                   *)
Abandoned(c) ==
  /\ Quiet(c) /\ client[c] = "waiting"
  /\ fate[c][sent[c]] = "accepted"
  /\ redis[c].here => redis[c].agentStatus = "isThinking"

(* The ticket-agent answers the accept of a plan the user was just shown.  *)
AcceptOfPlanIsAnswered ==
  \A c \in Conv : Abandoned(c) =>
    \A i \in 1 .. Len(answers[c]) :
      i = Len(answers[c]) => answers[c][i].kind # "plan"
=============================================================================
