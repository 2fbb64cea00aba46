---------------------------- MODULE TicketGraph ----------------------------
(***************************************************************************)
(* The ticket-agent's job in detail, above all what TicketAgent's step     *)
(* TicketCreate stands for: the chat is loaded, the graph lets an LLM      *)
(* create the plan's epic and tickets, and the reply is set.  A turn       *)
(* of the LLM asks for any number of tool calls, which run concurrently;   *)
(* each goes through the mcp-server to the ticket-service, which saves a   *)
(* row under the id the plan gave it.  Calls fail or time out on the way,  *)
(* Redis may refuse the chat, and the accept event is redelivered when the *)
(* ticket-agent dies.                                                      *)
(*                                                                         *)
(* The LLM is external.  It uses the plan's data as they are and reports   *)
(* the tool results it saw; it calls what it likes, as often as it likes,  *)
(* and stops when it likes.                                                *)
(***************************************************************************)
EXTENDS Naturals

CONSTANTS
  Epic, Tickets,   \* what the plan asks for
  MaxTurns,        \* bound: turns with tool calls of a run (LangGraph's limit)
  MaxFaults        \* bound: failing calls, LLM and Redis errors, crashes

ASSUME PlanAssumption ==
  Epic \notin Tickets /\ MaxTurns \in Nat /\ MaxFaults \in Nat

Items == {Epic} \cup Tickets

VARIABLES
  registry,   \* whether Redis holds mcp_tools
  node,       \* where TicketService.execute is
  tools,      \* whether the graph was built with tools
  calls,      \* the tool calls of the current turn
  told,       \* items whose results are among the messages
  outcome,    \* how the graph ended
  posts,      \* POSTs at the ticket-service, with the turn they belong to
  saved,      \* rows of the ticket-service
  reply,      \* the reply last appended to the chat
  turns,      \* turns with tool calls so far; the number of the current one
  start,      \* turns of the deliveries before this one
  missed,     \* history: items of calls whose result no message reports
  refused,    \* history: Redis refused this delivery the GET or the SET
  faults

run        == <<node, tools, told, outcome>>
counts     == <<turns, start>>
history    == <<missed, refused>>
ticketVars == <<registry, run, calls, posts, saved, reply, counts, history, faults>>

NodeNames == {"load", "build", "create_node", "tools", "extract_node", "reply",
              "ack", "done"}
Outcomes  == {"none", "final", "error", "nothing"}

(* A call is on its way to the mcp-server, waits for its POST, has its row *)
(* saved, or has ended.                                                    *)
Calls == [item : Items, at : {"mcp", "post", "saved", "ok", "failed"}]

(* TypeORM's save first looks whether the row exists.                      *)
Posts == [item : Items, turn : Nat, looked : {"not", "absent", "present"}]

Replies == [kind : Outcomes, items : SUBSET Items]

TicketInit ==
  /\ registry \in BOOLEAN
  /\ node = "load" /\ tools = FALSE /\ told = {} /\ outcome = "none"
  /\ calls = {} /\ posts = {} /\ saved = {}
  /\ reply = [kind |-> "none", items |-> {}]
  /\ turns = 0 /\ start = 0 /\ missed = {} /\ refused = FALSE /\ faults = 0

Fault == faults < MaxFaults /\ faults' = faults + 1

----------------------------------------------------------------------------
(* The mcp-server's lifespan: its tools are announced when it starts.      *)
WriteToolsToRedis ==
  /\ ~registry /\ registry' = TRUE
  /\ UNCHANGED <<run, calls, posts, saved, reply, counts, history, faults>>

(* ChatManager.load_chat.                                                  *)
LoadChat ==
  /\ node = "load" /\ node' = "build"
  /\ UNCHANGED <<registry, tools, told, outcome, calls, posts, saved, reply, counts,
                 history, faults>>

(* McpToolBuilder.build: without mcp_tools the graph has no tools.         *)
Build ==
  /\ node = "build" /\ node' = "create_node" /\ tools' = registry
  /\ UNCHANGED <<registry, told, outcome, calls, posts, saved, reply, counts, history,
                 faults>>

(* Mutant: nothing limits the turns.                                       *)
CreateNodeUnlimited(S) ==
  /\ node = "create_node" /\ tools /\ S # {}
  /\ node' = "tools" /\ turns' = turns + 1
  /\ calls' = {[item |-> i, at |-> "mcp"] : i \in S}
  /\ UNCHANGED <<registry, tools, told, outcome, posts, saved, reply, start, history,
                 faults>>

(* create_node: the LLM asks for tool calls ...                            *)
CreateNode(S) ==
  /\ node = "create_node" /\ tools /\ turns < start + MaxTurns /\ S # {}
  /\ node' = "tools" /\ turns' = turns + 1
  /\ calls' = {[item |-> i, at |-> "mcp"] : i \in S}
  /\ UNCHANGED <<registry, tools, told, outcome, posts, saved, reply, start, history,
                 faults>>

(* ... or for none, and tools_condition leads on.                          *)
NoToolCalls ==
  /\ node = "create_node" /\ node' = "extract_node"
  /\ UNCHANGED <<registry, tools, told, outcome, calls, posts, saved, reply, counts,
                 history, faults>>

CallBecomes(c, at) == calls' = (calls \ {c}) \cup {[c EXCEPT !.at = at]}

PostOf(c) == [item |-> c.item, turn |-> turns, looked |-> "not"]

(* McpClient.call and EpicTool.create or TicketTool.create: both fetch a   *)
(* token, the MCP call is made and the row posted.                         *)
Forward(c) ==
  /\ c.at = "mcp" /\ CallBecomes(c, "post")
  /\ posts' = posts \cup {PostOf(c)}
  /\ UNCHANGED <<registry, run, saved, reply, counts, history, faults>>

(* The call that waits for the POST p, if it still does.                   *)
Waiting(p) ==
  {c \in calls : node = "tools" /\ c.item = p.item /\ c.at = "post" /\ p.turn = turns}

Ends(p, at) ==
  /\ posts' = posts \ {p}
  /\ calls' = (calls \ Waiting(p)) \cup {[c EXCEPT !.at = at] : c \in Waiting(p)}

Misses(items) == missed' = missed \cup items /\ UNCHANGED refused

(* EpicService.create, TicketService.create: save selects by the id ...    *)
Select(p) ==
  /\ p.looked = "not"
  /\ posts' = (posts \ {p}) \cup
       {[p EXCEPT !.looked = IF p.item \in saved THEN "present" ELSE "absent"]}
  /\ UNCHANGED <<registry, run, calls, saved, reply, counts, history, faults>>

(* Mutant: the entity is created and never saved.                          *)
WriteNothing(p) ==
  /\ p.looked # "not" /\ Ends(p, "saved")
  /\ UNCHANGED <<registry, run, saved, reply, counts, history, faults>>

(* Mutant: the service does not wait for the row it selected or wrote.     *)
WriteStays(p) ==
  /\ p.looked # "not" /\ saved' = saved \cup {p.item}
  /\ UNCHANGED <<registry, run, calls, posts, reply, counts, history, faults>>

(* ... and inserts or updates; the insert of an id that came meanwhile     *)
(* violates the primary key.                                               *)
Write(p) ==
  /\ p.looked # "not"
  /\ IF p.looked = "absent" /\ p.item \in saved
       THEN Ends(p, "failed") /\ Misses({p.item})
       ELSE Ends(p, "saved") /\ UNCHANGED history
  /\ saved' = saved \cup {p.item}
  /\ UNCHANGED <<registry, run, reply, counts, faults>>

(* The response passes the mcp-server to the tool's coroutine.             *)
Answer(c) ==
  /\ c.at = "saved" /\ CallBecomes(c, "ok")
  /\ UNCHANGED <<registry, run, posts, saved, reply, counts, history, faults>>

(* A token, Kong, the MCP session or the POST fails, or httpx times out: a *)
(* POST already made may still be worked off.                              *)
CallFails(c) ==
  /\ Fault
  /\ c.at \in {"mcp", "post", "saved"} /\ CallBecomes(c, "failed")
  /\ \/ UNCHANGED posts
     \/ posts' = {p \in posts : c \notin Waiting(p)}
  /\ Misses({c.item})
  /\ UNCHANGED <<registry, run, saved, reply, counts>>

(* What the tool messages of a turn report as created.                     *)
Results == {c.item : c \in {d \in calls : d.at = "ok"}}

(* Mutant: the turn ends with its first result.                            *)
ToolsReturnEarly ==
  /\ node = "tools" /\ node' = "create_node"
  /\ \E c \in calls : c.at \in {"ok", "failed"}
  /\ told' = told \cup Results
  /\ calls' = {}
  /\ UNCHANGED <<registry, tools, outcome, posts, saved, reply, counts, history,
                 faults>>

(* ToolNode: all calls of the turn ended; errors are tool messages too.    *)
ToolsReturn ==
  /\ node = "tools" /\ node' = "create_node"
  /\ \A c \in calls : c.at \in {"ok", "failed"}
  /\ told' = told \cup Results
  /\ calls' = {}
  /\ UNCHANGED <<registry, tools, outcome, posts, saved, reply, counts, history,
                 faults>>

Called == {c.item : c \in calls}

(* A turn is given up: of its calls on their way some are still posted.    *)
GiveUpTurn ==
  /\ calls' = {}
  /\ \E S \in SUBSET {c \in calls : c.at = "mcp"} :
       posts' = posts \cup {PostOf(c) : c \in S}

(* Other versions of ToolNode let the exception of a failed call through.  *)
ToolRaises ==
  /\ node = "tools" /\ \E c \in calls : c.at = "failed"
  /\ GiveUpTurn /\ Misses(Called)
  /\ node' = "reply" /\ outcome' = "error"
  /\ UNCHANGED <<registry, tools, told, saved, reply, counts, faults>>

(* The LLM raises, or Redis as the graph is built.                         *)
GraphFails ==
  /\ Fault
  /\ node \in {"build", "create_node", "extract_node"}
  /\ node' = "reply" /\ outcome' = "error"
  /\ UNCHANGED <<registry, tools, told, calls, posts, saved, reply, counts, history>>

(* LangGraph raises when a run takes too many steps.                       *)
RecursionLimit ==
  /\ node = "create_node" /\ turns = start + MaxTurns
  /\ node' = "reply" /\ outcome' = "error"
  /\ UNCHANGED <<registry, tools, told, calls, posts, saved, reply, counts, history,
                 faults>>

(* extract_node: the ids among the tool results, or no structured output.  *)
ExtractNode ==
  /\ node = "extract_node" /\ node' = "reply"
  /\ outcome' \in {"final", "nothing"}
  /\ UNCHANGED <<registry, tools, told, calls, posts, saved, reply, counts, history,
                 faults>>

(* append_reply_message, and the whole chat is set.                        *)
ReplyMade == [kind |-> outcome, items |-> IF outcome = "final" THEN told ELSE {}]

AppendReply ==
  /\ node = "reply" /\ node' = "ack"
  /\ reply' = ReplyMade
  /\ UNCHANGED <<registry, tools, told, outcome, calls, posts, saved, counts, history,
                 faults>>

(* The GET or the SET of the chat raises, or the key is gone: the exception*)
(* leaves TicketService.execute, MessageProcessor swallows it, and the     *)
(* event is acked.  A SET that raises may have been done.                  *)
RedisFails ==
  /\ Fault
  /\ node \in {"load", "reply"} /\ node' = "ack"
  /\ refused' = TRUE
  /\ \/ UNCHANGED reply
     \/ node = "reply" /\ reply' = ReplyMade
  /\ UNCHANGED <<registry, tools, told, outcome, calls, posts, saved, counts, missed>>

Ack ==
  /\ node = "ack" /\ node' = "done"
  /\ UNCHANGED <<registry, tools, told, outcome, calls, posts, saved, reply, counts,
                 history, faults>>

(* The ticket-agent dies before the ack: the event is delivered again and  *)
(* the graph starts with the plan only.                                    *)
Redeliver ==
  /\ Fault
  /\ node # "done" /\ node' = "load"
  /\ tools' = FALSE /\ told' = {} /\ outcome' = "none"
  /\ GiveUpTurn /\ start' = turns
  /\ missed' = missed \cup Called \cup told /\ refused' = FALSE
  /\ UNCHANGED <<registry, saved, reply, turns>>

CallStep(c) == Forward(c) \/ Answer(c)
PostStep(p) == Select(p) \/ Write(p)

ServiceStep ==
  \/ LoadChat \/ Build \/ (\E S \in SUBSET Items : CreateNode(S)) \/ NoToolCalls
  \/ ToolsReturn \/ ToolRaises \/ RecursionLimit
  \/ ExtractNode \/ AppendReply \/ Ack

TicketNext ==
  \/ WriteToolsToRedis \/ ServiceStep \/ GraphFails \/ RedisFails \/ Redeliver
  \/ \E c \in calls : CallStep(c) \/ CallFails(c)
  \/ \E p \in posts : PostStep(p)

TicketSpec == TicketInit /\ [][TicketNext]_ticketVars

(* Both services go on, and so do the calls in flight.                     *)
TicketFairSpec ==
  /\ TicketSpec
  /\ WF_ticketVars(ServiceStep)
  /\ WF_ticketVars(\E c \in calls : CallStep(c))
  /\ WF_ticketVars(\E p \in posts : PostStep(p))
----------------------------------------------------------------------------
(* Types of the run, its calls and the ticket-service.                     *)
TicketTypeOK ==
  /\ registry \in BOOLEAN /\ tools \in BOOLEAN
  /\ node \in NodeNames /\ outcome \in Outcomes
  /\ calls \subseteq Calls /\ posts \subseteq Posts
  /\ told \subseteq Items /\ saved \subseteq Items
  /\ reply \in Replies
  /\ start \in Nat /\ turns \in start .. start + MaxTurns
  /\ missed \subseteq Items /\ refused \in BOOLEAN
  /\ faults \in 0 .. MaxFaults

(* Every id the user is shown in a final reply is a row of the             *)
(* ticket-service, whatever the LLM called in which turn, and although     *)
(* calls fail, time out after their POST, or are made again.               *)
ReplyNamesRows == reply.items \subseteq saved

(* A final reply leaves no row unnamed but those made by a call that failed*)
(* on its way back, in a turn that was given up or in an earlier delivery  *)
(* of the event: what the tools of this run reported is all there.         *)
NoUnreportedRows ==
  [][reply' # reply /\ reply'.kind = "final" =>
       saved' \subseteq reply'.items \cup missed']_ticketVars

(* Whatever fails, the event is worked off, and unless Redis refused the   *)
(* chat to the last delivery, the accepted plan was answered.              *)
AcceptIsWorkedOff ==
  node # "done" ~> node = "done" /\ (reply.kind # "none" \/ refused)
=============================================================================
