--------------------------- MODULE TicketAgent ---------------------------
(***************************************************************************)
(* The ticket-agent: RabbitMQConsumer takes one accept event at a time and *)
(* acks it only after TicketService.execute returned, so an event in hand  *)
(* is redelivered when the process dies or its connection drops.  The      *)
(* LLM's tool calls that create the epic and its tickets, through the MCP  *)
(* server and the ticket service, are one step.                            *)
(***************************************************************************)
EXTENDS ChatState

JobBecomes(j, k) == jobs' = (jobs \ {j}) \cup {k}

TicketDeliver ==
  /\ jobs = {} /\ acceptQueue # << >>
  /\ jobs' = {[event |-> Head(acceptQueue), pc |-> "load", messages |-> << >>,
               error |-> FALSE]}
  /\ acceptQueue' = Tail(acceptQueue)
  /\ UNCHANGED <<storeVars, requests, chatQueue, unacked, tasks, epics, userVars,
                 fate, faults>>

(* load_chat: GET; a missing key raises, the exception is swallowed and    *)
(* the event is acked.                                                     *)
TicketLoad(j) ==
  /\ j.pc = "load"
  /\ LET chat == redis[j.event.conv] IN
       JobBecomes(j, IF chat.here
                       THEN [j EXCEPT !.pc = "create",
                                      !.messages = chat.messages]
                       ELSE [j EXCEPT !.pc = "ack"])
  /\ UNCHANGED <<storeVars, requests, brokerVars, tasks, epics, userVars, fate,
                 faults>>

(* Mutant: the epic is filed under the accepting turn.                     *)
EpicOfTurn(j) == <<j.event.conv, j.event.turn>>

(* The plan an accept event carries, whose epic is created.                *)
EpicOf(j) == <<j.event.conv, j.event.plan.turn>>

(* create_node and the tools: the ticket service saves the plan's epic     *)
(* under the epic's own id, so saving it again changes nothing.            *)
TicketCreate(j) ==
  /\ j.pc = "create"
  /\ epics' = epics \cup {EpicOf(j)}
  /\ JobBecomes(j, [j EXCEPT !.pc = "reply"])
  /\ UNCHANGED <<storeVars, requests, brokerVars, tasks, userVars, fate, faults>>

(* The LLM or a tool fails, before or after the epic was saved.            *)
TicketGraphFails(j) ==
  /\ Fails("llm")
  /\ j.pc \in {"create", "reply"}
  /\ JobBecomes(j, [j EXCEPT !.pc = "reply", !.error = TRUE])
  /\ UNCHANGED <<storeVars, requests, brokerVars, tasks, epics, userVars, fate>>

(* append_reply_message: the copy loaded at the start, without its node    *)
(* tags, plus the reply.                                                   *)
Replied(j) ==
  Append(WithoutNodes(j.messages),
         Reply(IF j.error THEN "error" ELSE "tickets", "none", j.event.turn))

TicketReply(j) ==
  /\ j.pc = "reply"
  /\ SetChat(j.event.conv, Replied(j), "hasReplied", FALSE)
  /\ JobBecomes(j, [j EXCEPT !.pc = "ack"])
  /\ UNCHANGED <<db, requests, brokerVars, tasks, epics, userVars, fate, faults>>

(* Redis rejects: the exception is swallowed and the event is acked.       *)
TicketFails(j) ==
  /\ Fails("store")
  /\ j.pc \in {"load", "reply"}
  /\ JobBecomes(j, [j EXCEPT !.pc = "ack"])
  /\ UNCHANGED <<storeVars, requests, brokerVars, tasks, epics, userVars, fate>>

TicketAck(j) ==
  /\ j.pc = "ack"
  /\ jobs' = jobs \ {j}
  /\ UNCHANGED <<storeVars, requests, brokerVars, tasks, epics, userVars, fate,
                 faults>>

(* Mutant: the event was acked when it was taken.                          *)
TicketCrashLoses ==
  /\ Fails("crash")
  /\ jobs # {} /\ jobs' = {}
  /\ UNCHANGED <<storeVars, requests, brokerVars, tasks, epics, userVars, fate>>

(* The process dies, or its connection drops as it acks: the event goes    *)
(* back to the head of the queue.                                          *)
TicketCrash ==
  /\ Fails("crash")
  /\ \E j \in jobs :
       acceptQueue' = <<[j.event EXCEPT !.delivery = @ + 1]>> \o acceptQueue
  /\ jobs' = {}
  /\ UNCHANGED <<storeVars, requests, chatQueue, unacked, tasks, epics, userVars,
                 fate>>

JobStep(j) ==
  \/ TicketLoad(j) \/ TicketCreate(j) \/ TicketReply(j) \/ TicketAck(j)
=============================================================================
