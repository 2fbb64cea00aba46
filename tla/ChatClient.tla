---------------------------- MODULE ChatClient ----------------------------
(***************************************************************************)
(* The browser tab of ArchitectChat.tsx together with the gateway's poll   *)
(* of Redis.  A conversation is used by one tab at a time: the search bar  *)
(* is disabled while a POST or the wait for its reply is running.          *)
(***************************************************************************)
EXTENDS ChatState

RequestsOf(c) == {r \in requests : r.conv = c}

Sends(op, c, turn, pc) ==
  requests' = requests \cup {[op |-> op, conv |-> c, turn |-> turn, pc |-> pc,
                              messages |-> << >>]}

(* handleSearch: the first message of a conversation; handleContinue: a    *)
(* later one, possible once the conversation has a row to be found by.     *)
(* The tab does not wait for the stop it fired for the turn before, unless *)
(* Patient.                                                                *)
SendMessage(c) ==
  /\ client[c] = "idle" /\ sent[c] < MaxTurns
  /\ Patient => RequestsOf(c) = {}
  /\ \/ sent[c] = 0 /\ Sends("new", c, 1, "insert")
     \/ sent[c] > 0 /\ db[c].here /\ Sends("continue", c, sent[c] + 1, "get")
  /\ sent' = [sent EXCEPT ![c] = @ + 1]
  /\ client' = [client EXCEPT ![c] = "sending"]
  /\ UNCHANGED <<storeVars, brokerVars, tasks, jobs, epics, opens, answers, fate,
                 faults>>

(* The last message with agentStatus hasReplied, as a set.                 *)
ReplyIndexes(msgs) == {i \in 1 .. Len(msgs) : msgs[i].kind \in ReplyKinds}
LatestReply(msgs) ==
  {msgs[i] : i \in {j \in ReplyIndexes(msgs) :
                      \A k \in ReplyIndexes(msgs) : k <= j}}

(* Mutant: any chat found by a poll ends the wait.                         *)
IsThere(c) == redis[c].here

(* What ends the tab's wait.                                               *)
HasReplied(c) == redis[c].here /\ redis[c].agentStatus = "hasReplied"

(* A poll finds the chat with agentStatus hasReplied: the tab shows the    *)
(* latest reply, closes the socket and fires stopChat without awaiting it. *)
ReceiveReply(c) ==
  /\ client[c] = "waiting"
  /\ HasReplied(c)
  /\ \E m \in LatestReply(redis[c].messages) :
       answers' = [answers EXCEPT ![c] = Append(@, m)]
  /\ client' = [client EXCEPT ![c] = "idle"]
  /\ Sends("stop", c, sent[c], "get")
  /\ UNCHANGED <<storeVars, brokerVars, tasks, jobs, epics, sent, opens, fate,
                 faults>>

(* The wait ends without a reply: the gateway's 600 polls are used up, the *)
(* socket fails, or the user opens another conversation.  No stop is sent. *)
Leave(c) ==
  /\ Leaves
  /\ client[c] = "waiting"
  /\ client' = [client EXCEPT ![c] = "idle"]
  /\ UNCHANGED <<storeVars, requests, brokerVars, tasks, jobs, epics, sent, opens,
                 answers, fate, faults>>

(* The user opens the conversation from the history: getChat.              *)
OpenChat(c) ==
  /\ client[c] = "idle" /\ db[c].here /\ opens < MaxOpens
  /\ opens' = opens + 1
  /\ \A r \in RequestsOf(c) : r.op # "get"
  /\ Sends("get", c, sent[c], "get")
  /\ UNCHANGED <<storeVars, brokerVars, tasks, jobs, epics, client, sent, answers,
                 fate, faults>>
=============================================================================
