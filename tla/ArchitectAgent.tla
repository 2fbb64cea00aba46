-------------------------- MODULE ArchitectAgent --------------------------
(***************************************************************************)
(* The architect-agent: RabbitMQConsumer starts one asyncio task per chat  *)
(* event and acks the event at once; the task runs ChatService.execute,    *)
(* which loads the chat, streams the graph's updates into it and appends   *)
(* the reply.  The task works on the copy of the chat it loaded and every  *)
(* save writes that whole copy.  The nodes between the intent and the      *)
(* reply are "work" updates here; module ArchitectGraph has their detail.  *)
(***************************************************************************)
EXTENDS ChatState

NewTask(e) == [event |-> e, pc |-> "load", messages |-> << >>,
               intent |-> "none", prior |-> {}, updates |-> 0,
               error |-> FALSE]

Becomes(t, u) == tasks' = (tasks \ {t}) \cup {u}

Finishes(t, outcome) ==
  /\ tasks' = tasks \ {t}
  /\ fate' = [fate EXCEPT ![t.event.conv][t.event.turn] = outcome]

(* Mutant: the event is taken and no task is created.                      *)
DeliverNothing ==
  /\ unacked = {} /\ chatQueue # << >>
  /\ unacked' = {Head(chatQueue)}
  /\ chatQueue' = Tail(chatQueue)
  /\ UNCHANGED <<storeVars, requests, tasks, acceptQueue, jobs, epics, userVars,
                 fate, faults>>

(* The consumer takes the next event (prefetch 1) and creates its task.    *)
Deliver ==
  /\ unacked = {} /\ chatQueue # << >>
  /\ unacked' = {Head(chatQueue)}
  /\ chatQueue' = Tail(chatQueue)
  /\ tasks' = tasks \cup {NewTask(Head(chatQueue))}
  /\ UNCHANGED <<storeVars, requests, acceptQueue, jobs, epics, userVars, fate,
                 faults>>

(* message.process() exits without waiting for the task: the ack.          *)
Ack ==
  /\ unacked # {}
  /\ unacked' = {}
  /\ UNCHANGED <<storeVars, requests, chatQueue, tasks, acceptQueue, jobs, epics,
                 userVars, fate, faults>>

(* An unacked event goes back to the head of its queue, marked redelivered.*)
Requeue ==
  /\ unacked' = {}
  /\ \/ unacked = {} /\ UNCHANGED chatQueue
     \/ \E e \in unacked :
          chatQueue' = <<[e EXCEPT !.delivery = @ + 1]>> \o chatQueue

(* The process dies with its tasks.                                        *)
ArchitectCrash ==
  /\ Fails("crash")
  /\ unacked # {} \/ tasks # {}
  /\ tasks' = {}
  /\ Requeue
  /\ UNCHANGED <<storeVars, requests, acceptQueue, jobs, epics, userVars, fate>>

(* The consumer's connection drops before the ack arrived; start() runs it *)
(* again and the tasks go on.                                              *)
ConsumerDisconnect ==
  /\ Fails("crash")
  /\ unacked # {}
  /\ Requeue
  /\ UNCHANGED <<storeVars, requests, tasks, acceptQueue, jobs, epics, userVars,
                 fate>>

(* load_chat: GET; a missing key raises and MessageProcessor swallows it.  *)
TaskLoad(t) ==
  /\ t.pc = "load"
  /\ LET chat == redis[t.event.conv] IN
       IF chat.here
         THEN /\ Becomes(t, [t EXCEPT !.pc = "mark",
                                      !.messages = chat.messages])
              /\ UNCHANGED fate
         ELSE Finishes(t, "processed")
  /\ UNCHANGED <<storeVars, requests, brokerVars, jobs, epics, userVars, faults>>

(* load_chat: SET of what was read, now isThinking, without EX.            *)
TaskMark(t) ==
  /\ t.pc = "mark"
  /\ SetChat(t.event.conv, t.messages, "isThinking", FALSE)
  /\ Becomes(t, [t EXCEPT !.pc = "intent"])
  /\ UNCHANGED <<db, requests, brokerVars, jobs, epics, userVars, fate, faults>>

(* One pass of the astream loop: append_thinking_message, then save_chat.  *)
(* When the SET rejects, the except branch records the error and leaves    *)
(* the loop; the message stays in the task's copy.                         *)
ThinkAloud(t, node, next) ==
  LET msgs == Append(t.messages, Thinking(node, t.event.turn)) IN
  \/ /\ SetChat(t.event.conv, msgs, "isThinking", FALSE)
     /\ Becomes(t, [next EXCEPT !.messages = msgs])
     /\ UNCHANGED faults
  \/ /\ Fails("store")
     /\ Becomes(t, [next EXCEPT !.messages = msgs, !.pc = "settle",
                                !.error = TRUE])
     /\ UNCHANGED redis

(* IntentNode answers undefined, plan or refine; for refine the latest     *)
(* plan of the event's history becomes prior_solution.                     *)
TaskIntent(t) ==
  /\ t.pc = "intent"
  /\ \E i \in Intents \ {"accept"} :
       ThinkAloud(t, "intent_node",
         [t EXCEPT !.intent = i,
                   !.prior = IF i = "refine" THEN LatestPlan(t.event.history)
                                             ELSE {},
                   !.pc = IF i = "undefined" THEN "settle" ELSE "work"])
  /\ UNCHANGED <<db, requests, brokerVars, jobs, epics, userVars, fate>>

(* IntentNode answers accept: with a plan in the history the accept event  *)
(* is published, inside the node, before its update is streamed.           *)
TaskAccept(t) ==
  /\ t.pc = "intent" /\ "accept" \in Intents
  /\ Becomes(t, [t EXCEPT !.pc = IF LatestPlan(t.event.history) = {}
                                   THEN "note" ELSE "publish"])
  /\ UNCHANGED <<storeVars, requests, brokerVars, jobs, epics, userVars, fate,
                 faults>>

(* The accept event: the latest plan of the history and the event's ids.   *)
HandsOver(t) ==
  \E m \in LatestPlan(t.event.history) :
    acceptQueue' = Append(acceptQueue,
      [conv |-> t.event.conv, turn |-> t.event.turn, plan |-> m, delivery |-> 0])

(* The node awaits the publisher's confirm.  A publish that raises fails   *)
(* the node; when only the confirm was lost, the event is out all the same.*)
TaskPublish(t) ==
  /\ t.pc = "publish"
  /\ \/ /\ HandsOver(t)
        /\ Becomes(t, [t EXCEPT !.pc = "note"])
        /\ UNCHANGED faults
     \/ /\ Fails("broker") /\ UNCHANGED acceptQueue
        /\ Becomes(t, [t EXCEPT !.pc = "settle", !.error = TRUE])
     \/ /\ Fails("confirm") /\ HandsOver(t)
        /\ Becomes(t, [t EXCEPT !.pc = "settle", !.error = TRUE])
  /\ UNCHANGED <<storeVars, requests, chatQueue, unacked, jobs, epics, userVars,
                 fate>>

(* The update of an accepting intent_node is streamed and saved.           *)
TaskNote(t) ==
  /\ t.pc = "note"
  /\ ThinkAloud(t, "intent_node",
                [t EXCEPT !.intent = "accept", !.pc = "settle"])
  /\ UNCHANGED <<db, requests, brokerVars, jobs, epics, userVars, fate>>

(* One more node of the planning path; the last one is reply_node.         *)
TaskWork(t) ==
  /\ t.pc = "work" /\ t.updates < MaxUpdates
  /\ \E last \in BOOLEAN :
       /\ t.updates + 1 = MaxUpdates => last
       /\ ThinkAloud(t, IF last THEN "reply_node" ELSE "work_node",
                     [t EXCEPT !.updates = @ + 1,
                               !.pc = IF last THEN "settle" ELSE "work"])
  /\ UNCHANGED <<db, requests, brokerVars, jobs, epics, userVars, fate>>

(* A node raises: the LLM call, its parsing, or LangGraph's step limit.    *)
GraphFails(t) ==
  /\ t.pc \in {"intent", "work"}
  /\ Fails("llm")
  /\ Becomes(t, [t EXCEPT !.pc = "settle", !.error = TRUE])
  /\ UNCHANGED <<storeVars, requests, brokerVars, jobs, epics, userVars, fate>>

(* Mutant: an accepted turn is answered by this agent too.                 *)
AlwaysReplies(t) == TRUE

(* After the loop, an accepted turn without error is left to the           *)
(* ticket-agent; every other one is answered here.                         *)
Replies(t) == t.intent # "accept" \/ t.error

(* The ticket-agent's turn: return and leave isThinking.                   *)
TaskReturn(t) ==
  /\ t.pc = "settle" /\ ~Replies(t)
  /\ Finishes(t, "accepted")
  /\ UNCHANGED <<storeVars, requests, brokerVars, jobs, epics, userVars, faults>>

(* Mutant: the reply is appended as one more thinking message.             *)
ThinkingReply(t) == Thinking("reply_node", t.event.turn)

(* This agent's turn: append_reply_message.  Every reply is tagged         *)
(* reply_node, error texts too, except those of an undefined request.      *)
ReplyOf(t) ==
  Reply(IF t.error THEN "error"
        ELSE IF t.intent = "undefined" THEN "comment" ELSE "plan",
        IF t.intent = "undefined" THEN "intent_node" ELSE "reply_node",
        t.event.turn)

(* Mutant: agentStatus is not updated with the reply.                      *)
TaskReplyThinking(t) ==
  /\ t.pc = "settle" /\ Replies(t)
  /\ SetChat(t.event.conv, Append(t.messages, ReplyOf(t)), "isThinking", FALSE)
  /\ Finishes(t, "processed")
  /\ UNCHANGED <<db, requests, brokerVars, jobs, epics, userVars, faults>>

TaskReply(t) ==
  /\ t.pc = "settle" /\ Replies(t)
  /\ SetChat(t.event.conv, Append(t.messages, ReplyOf(t)), "hasReplied", FALSE)
  /\ Finishes(t, "processed")
  /\ UNCHANGED <<db, requests, brokerVars, jobs, epics, userVars, faults>>

(* Redis rejects in load_chat or in append_reply_message: the exception    *)
(* reaches MessageProcessor, which logs it.                                *)
TaskFails(t) ==
  /\ Fails("store")
  /\ t.pc \in {"load", "mark", "settle"}
  /\ t.pc = "settle" => Replies(t)
  /\ Finishes(t, "processed")
  /\ UNCHANGED <<storeVars, requests, brokerVars, jobs, epics, userVars>>

TaskStep(t) ==
  \/ TaskLoad(t) \/ TaskMark(t) \/ TaskIntent(t) \/ TaskAccept(t)
  \/ TaskPublish(t) \/ TaskNote(t) \/ TaskWork(t)
  \/ TaskReturn(t) \/ TaskReply(t)
=============================================================================
