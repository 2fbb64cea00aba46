----------------------------- MODULE Backend -----------------------------
(***************************************************************************)
(* The NestJS backend: ChatService.newChat, continueChat, stopChat and     *)
(* getChat.  A handler is a request record whose pc is the next store      *)
(* operation it awaits; handlers of different requests interleave between  *)
(* any two awaits.  A step is one operation on Redis, PostgreSQL or the    *)
(* broker, and the local code up to the next one.                          *)
(***************************************************************************)
EXTENDS ChatState

Step(r, pc, msgs) ==
  requests' = (requests \ {r}) \cup {[r EXCEPT !.pc = pc, !.messages = msgs]}

Ends(r) == requests' = requests \ {r}

Responds(r, status) ==
  /\ Ends(r)
  /\ client' = [client EXCEPT ![r.conv] = status]

(* Mutant: the row is never inserted.                                      *)
NeverInserted(r) == NoRow

(* newChat: INSERT of the conversation with the user's first message.      *)
FirstRow(r) == [here |-> TRUE, messages |-> <<Ask(r.turn)>>]

NewInsert(r) ==
  /\ r.op = "new" /\ r.pc = "insert"
  /\ db' = [db EXCEPT ![r.conv] = FirstRow(r)]
  /\ Step(r, "set", << >>)
  /\ UNCHANGED <<redis, brokerVars, tasks, jobs, epics, userVars, fate, faults>>

(* continueChat: the existing messages come from Redis, else from the row; *)
(* without a row the request fails with 404.                               *)
ContinueGet(r) ==
  /\ r.op = "continue" /\ r.pc = "get"
  /\ IF redis[r.conv].here
       THEN Step(r, "set", redis[r.conv].messages)
       ELSE Step(r, "find", << >>)
  /\ UNCHANGED <<storeVars, brokerVars, tasks, jobs, epics, userVars, fate, faults>>

ContinueFind(r) ==
  /\ r.op = "continue" /\ r.pc = "find"
  /\ IF db[r.conv].here
       THEN Step(r, "set", db[r.conv].messages) /\ UNCHANGED client
       ELSE Responds(r, "idle")
  /\ UNCHANGED <<storeVars, brokerVars, tasks, jobs, epics, sent, opens,
                 answers, fate, faults>>

(* Mutant: the new message is put first.                                   *)
AskedFirst(r) == <<Ask(r.turn)>> \o r.messages

(* What newChat and continueChat set: the existing messages and the new    *)
(* one.                                                                    *)
Asked(r) == Append(r.messages, Ask(r.turn))

(* newChat and continueChat: SET of existing messages plus the new one,    *)
(* agentStatus isThinking, EX 7200.                                        *)
SetThinking(r) ==
  /\ r.op \in {"new", "continue"} /\ r.pc = "set"
  /\ SetChat(r.conv, Asked(r), "isThinking", TRUE)
  /\ Step(r, "publish", r.messages)
  /\ UNCHANGED <<db, brokerVars, tasks, jobs, epics, userVars, fate, faults>>

(* Mutant: the event is counted as published and never sent.               *)
PublishNothing(r) ==
  /\ r.op \in {"new", "continue"} /\ r.pc = "publish"
  /\ fate' = [fate EXCEPT ![r.conv][r.turn] = "published"]
  /\ Responds(r, "waiting")
  /\ UNCHANGED <<storeVars, brokerVars, tasks, jobs, epics, sent, opens, answers,
                 faults>>

(* MessageService.publish swallows every error and RabbitMQService.publish *)
(* returns silently without a channel, so the caller answers 201 whether   *)
(* or not the event reached the exchange.                                  *)
Publish(r) ==
  /\ r.op \in {"new", "continue"} /\ r.pc = "publish"
  /\ \/ /\ chatQueue' = Append(chatQueue, [conv |-> r.conv, turn |-> r.turn,
                                           history |-> r.messages,
                                           delivery |-> 0])
        /\ fate' = [fate EXCEPT ![r.conv][r.turn] = "published"]
        /\ UNCHANGED faults
     \/ /\ Fails("broker")
        /\ fate' = [fate EXCEPT ![r.conv][r.turn] = "dropped"]
        /\ UNCHANGED chatQueue
  /\ Responds(r, "waiting")
  /\ UNCHANGED <<storeVars, unacked, acceptQueue, tasks, jobs, epics, sent, opens,
                 answers>>

(* Mutant: the row keeps what it had.                                      *)
PersistNothing(r) == UNCHANGED db

(* The messages a request read from Redis replace those of the row.        *)
Persist(r) == db' = [db EXCEPT ![r.conv].messages = r.messages]

(* stopChat: read the chat (404 when the key is gone), write its messages  *)
(* to the row, delete the key.  The row always exists (KeyHasRow), so      *)
(* repository.save never has to insert one without a username.             *)
StopGet(r) ==
  /\ r.op = "stop" /\ r.pc = "get"
  /\ IF redis[r.conv].here
       THEN Step(r, "save", redis[r.conv].messages)
       ELSE Ends(r)
  /\ UNCHANGED <<storeVars, brokerVars, tasks, jobs, epics, userVars, fate, faults>>

StopSave(r) ==
  /\ r.op = "stop" /\ r.pc = "save"
  /\ Persist(r)
  /\ Step(r, "del", r.messages)
  /\ UNCHANGED <<redis, brokerVars, tasks, jobs, epics, userVars, fate, faults>>

StopDel(r) ==
  /\ r.op = "stop" /\ r.pc = "del"
  /\ redis' = [redis EXCEPT ![r.conv] = NoChat]
  /\ Ends(r)
  /\ UNCHANGED <<db, brokerVars, tasks, jobs, epics, userVars, fate, faults>>

(* getChat: a replied chat found in Redis is also written to the row; any  *)
(* other outcome only reads.                                               *)
GetRead(r) ==
  /\ r.op = "get" /\ r.pc = "get"
  /\ IF redis[r.conv].here /\ redis[r.conv].agentStatus = "hasReplied"
       THEN Step(r, "update", redis[r.conv].messages)
       ELSE Ends(r)
  /\ UNCHANGED <<storeVars, brokerVars, tasks, jobs, epics, userVars, fate, faults>>

GetUpdate(r) ==
  /\ r.op = "get" /\ r.pc = "update"
  /\ Persist(r)
  /\ Ends(r)
  /\ UNCHANGED <<redis, brokerVars, tasks, jobs, epics, userVars, fate, faults>>

(* An awaited Redis or PostgreSQL call rejects, before the operation took  *)
(* effect or (the request is then already at the next pc) after it: the    *)
(* handler's exception becomes a 500 and nothing after that call runs.     *)
RequestFails(r) ==
  /\ Fails("store")
  /\ IF r.op \in {"new", "continue"}
       THEN Responds(r, "idle")
       ELSE Ends(r) /\ UNCHANGED client
  /\ UNCHANGED <<storeVars, brokerVars, tasks, jobs, epics, sent, opens,
                 answers, fate>>

(* The process dies: every request in flight is gone, its caller's fetch   *)
(* rejects.                                                                *)
BackendCrash ==
  /\ Fails("crash")
  /\ requests # {}
  /\ requests' = {}
  /\ client' = [c \in Conv |-> IF client[c] = "sending" THEN "idle"
                                                        ELSE client[c]]
  /\ UNCHANGED <<storeVars, brokerVars, tasks, jobs, epics, sent, opens, answers,
                 fate>>

BackendStep(r) ==
  \/ NewInsert(r) \/ ContinueGet(r) \/ ContinueFind(r)
  \/ SetThinking(r) \/ Publish(r)
  \/ StopGet(r) \/ StopSave(r) \/ StopDel(r)
  \/ GetRead(r) \/ GetUpdate(r)
=============================================================================
