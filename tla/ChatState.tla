---------------------------- MODULE ChatState ----------------------------
(***************************************************************************)
(* The state the services of the architect platform share, and the data    *)
(* they exchange: the chat object kept in Redis under chat:{uuid}, the     *)
(* conversation row in PostgreSQL, the two RabbitMQ queues, and what each  *)
(* process holds in memory between two awaits.  The actions are in the     *)
(* modules Backend, ArchitectAgent, TicketAgent and ChatClient;            *)
(* ChatSystem composes them.                                               *)
(*                                                                         *)
(* The text of a message is abstracted to the turn it belongs to: the user *)
(* message of turn t is "the t-th thing the user asked", and everything    *)
(* the agents append while they work on that event carries the same t.     *)
(***************************************************************************)
EXTENDS Naturals, Sequences

CONSTANTS
  Conv,         \* the conversations, one uuid each
  MaxTurns,     \* bound: user messages sent in one conversation
  MaxUpdates,   \* bound: graph updates of one planning turn after the intent
  MaxOpens,     \* bound: how often the user opens conversations from the history
  MaxFaults,    \* bound: how many faults happen
  Intents,      \* what IntentNode's LLM may answer
  Faults,       \* which faults the environment may inject
  Patient,      \* the client waits for its own requests before it asks again
  Leaves        \* the client may abandon a turn before the reply is seen

Turn == 1 .. MaxTurns

IntentKinds == {"undefined", "plan", "refine", "accept"}
FaultKinds  == {"store", "broker", "confirm", "llm", "crash", "expiry"}

ASSUME ChatAssumption ==
  /\ MaxTurns \in Nat
  /\ MaxUpdates \in Nat \ {0}
  /\ MaxOpens \in Nat
  /\ MaxFaults \in Nat
  /\ Intents \subseteq IntentKinds
  /\ Faults \subseteq FaultKinds
  /\ Patient \in BOOLEAN
  /\ Leaves \in BOOLEAN

VARIABLES
  redis,        \* chat:{uuid}, per conversation
  db,           \* the conversations table, per conversation
  requests,     \* backend requests in flight, each between two awaits
  chatQueue,    \* RabbitMQ queue of chat events
  unacked,      \* chat event delivered to the architect-agent, not acked
  tasks,        \* asyncio tasks of the architect-agent
  acceptQueue,  \* RabbitMQ queue of accept events
  jobs,         \* the ticket-agent's event in hand (at most one)
  epics,        \* epics stored by the ticket service
  client,       \* what the user's browser tab is doing, per conversation
  sent,         \* user messages sent so far, per conversation
  answers,      \* history: replies displayed to the user, per conversation
  fate,         \* history: what became of the event of each turn
  opens,        \* conversations opened from the history so far (bounded)
  faults        \* faults so far (bounded)

storeVars  == <<redis, db>>
brokerVars == <<chatQueue, unacked, acceptQueue>>
userVars   == <<client, sent, opens, answers>>
vars == <<redis, db, requests, chatQueue, unacked, tasks, acceptQueue, jobs,
          epics, client, sent, opens, answers, fate, faults>>
----------------------------------------------------------------------------
(* Messages.  "ask" is a User message; "thinking" an Agent message with    *)
(* agentStatus isThinking; the other kinds are Agent messages with         *)
(* agentStatus hasReplied, by what their content is: a ReplyInterface, the *)
(* comment on an undefined request, an error text, a FinalReplyInterface.  *)
ReplyKinds == {"plan", "comment", "error", "tickets"}
Kinds      == {"ask", "thinking"} \cup ReplyKinds

(* The node that produced the message; "work_node" stands for the nodes    *)
(* between intent and reply.                                               *)
Nodes == {"none", "intent_node", "work_node", "reply_node"}

Message == [kind : Kinds, node : Nodes, turn : Turn]

Ask(t)            == [kind |-> "ask", node |-> "none", turn |-> t]
Thinking(n, t)    == [kind |-> "thinking", node |-> n, turn |-> t]
Reply(k, n, t)    == [kind |-> k, node |-> n, turn |-> t]

(* Mutant: the field is gone instead of empty.                             *)
NodesDropped(msgs) ==
  [i \in 1 .. Len(msgs) |-> [kind |-> msgs[i].kind, turn |-> msgs[i].turn]]

(* What the ticket-agent's own MessageInterface keeps of the messages it   *)
(* re-serialises: every field but node.                                    *)
WithoutNodes(msgs) == [i \in 1 .. Len(msgs) |-> [msgs[i] EXCEPT !.node = "none"]]

(* The messages IntentNode recognises as plans: written by reply_node and  *)
(* holding a ReplyInterface; and the latest of them, if there is one.      *)
PlanIndexes(history) ==
  {i \in 1 .. Len(history) : /\ history[i].kind = "plan"
                             /\ history[i].node = "reply_node"}
LatestPlan(history) ==
  {history[i] : i \in {j \in PlanIndexes(history) :
                         \A k \in PlanIndexes(history) : k <= j}}
----------------------------------------------------------------------------
(* The chat object in Redis and the row in PostgreSQL.                     *)
ChatStatus == {"isThinking", "hasReplied"}
Chat == [here : BOOLEAN, messages : Seq(Message), agentStatus : ChatStatus,
         ttl : BOOLEAN]
Row  == [here : BOOLEAN, messages : Seq(Message)]

NoChat == [here |-> FALSE, messages |-> << >>, agentStatus |-> "isThinking",
           ttl |-> FALSE]
NoRow  == [here |-> FALSE, messages |-> << >>]

(* SET key value [EX ttl]: the whole object is written and, without EX,    *)
(* the time to live of the key is cleared.                                 *)
SetChat(c, msgs, status, ttl) ==
  redis' = [redis EXCEPT ![c] = [here |-> TRUE, messages |-> msgs,
                                 agentStatus |-> status, ttl |-> ttl]]
----------------------------------------------------------------------------
(* What the processes hold.                                                *)
ChatEvent   == [conv : Conv, turn : Turn, history : Seq(Message),
                delivery : Nat]
AcceptEvent == [conv : Conv, turn : Turn, plan : Message, delivery : Nat]

RequestPc == {"insert", "get", "find", "set", "publish", "save", "del", "update"}
Request ==
  [op : {"new", "continue"}, conv : Conv, turn : Turn, pc : RequestPc,
   messages : Seq(Message)]
    \cup
  [op : {"stop", "get"}, conv : Conv, turn : 0 .. MaxTurns, pc : RequestPc,
   messages : Seq(Message)]

Task == [event : ChatEvent,
         pc : {"load", "mark", "intent", "publish", "note", "work", "settle"},
         messages : Seq(Message), intent : IntentKinds \cup {"none"},
         prior : SUBSET Message, updates : Nat, error : BOOLEAN]

Job == [event : AcceptEvent, pc : {"load", "create", "reply", "ack"},
        messages : Seq(Message), error : BOOLEAN]

Fates == {"unsent", "published", "dropped", "processed", "accepted"}

(* A fault of kind f happens.                                              *)
Fails(f) ==
  /\ f \in Faults /\ faults < MaxFaults
  /\ faults' = faults + 1

Init ==
  /\ redis = [c \in Conv |-> NoChat]
  /\ db = [c \in Conv |-> NoRow]
  /\ requests = {}
  /\ chatQueue = << >>
  /\ unacked = {}
  /\ tasks = {}
  /\ acceptQueue = << >>
  /\ jobs = {}
  /\ epics = {}
  /\ client = [c \in Conv |-> "idle"]
  /\ sent = [c \in Conv |-> 0]
  /\ opens = 0
  /\ answers = [c \in Conv |-> << >>]
  /\ fate = [c \in Conv |-> [t \in Turn |-> "unsent"]]
  /\ faults = 0

(* Types of every variable: the shapes of the stored objects and of what   *)
(* each process holds.                                                     *)
TypeOK ==
  /\ redis \in [Conv -> Chat]
  /\ db \in [Conv -> Row]
  /\ requests \subseteq Request
  /\ chatQueue \in Seq(ChatEvent)
  /\ unacked \subseteq ChatEvent
  /\ tasks \subseteq Task
  /\ acceptQueue \in Seq(AcceptEvent)
  /\ jobs \subseteq Job
  /\ epics \subseteq (Conv \X Turn)
  /\ client \in [Conv -> {"idle", "sending", "waiting"}]
  /\ sent \in [Conv -> 0 .. MaxTurns]
  /\ opens \in Nat
  /\ answers \in [Conv -> Seq(Message)]
  /\ fate \in [Conv -> [Turn -> Fates]]
  /\ faults \in Nat
=============================================================================
