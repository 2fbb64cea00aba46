# A formal model of the architect platform

This directory holds TLA+ modules that model the multi-agent architect platform,
the TLC configurations that check them, and proofs that TLAPS checks. Every
definition that stands for code names its source in `PROJECT.json` under `map`.

    tlc -workers 2 -config racing.cfg ChatSystem.tla     # check a run
    tlapm ChatSystemProofs.tla                           # check the proofs of a module

## 1. The system

A user describes software in a browser. Agents answer with a reviewed solution and
tickets; on "accept" a second agent files them.

| Component | State it keeps | Operations | Talks to |
|---|---|---|---|
| `frontend` chat page | the component's state (question, messages, answer, completed turns, loading) and its refs (conversation id, offset, socket) | send first / later message, follow the socket, stop, open from history, start anew | backend over HTTP and WebSocket |
| `backend` chat service | none between requests; each handler holds a copy of the chat across its awaits | `newChat`, `continueChat`, `stopChat`, `getChat`, `getHistory` | Redis, PostgreSQL, RabbitMQ |
| `backend` gateway | one timer per subscription | poll Redis every 500 ms, give up after 600 polls | Redis, the tab |
| `backend` RabbitMQ service | connection, channel, `reconnecting`, `closing` | connect with ten attempts, publish, reconnect | RabbitMQ |
| Redis | `chat:{uuid}` (the chat object, two hours to live when the backend wrote it), `mcp_tools` | GET, SET, DEL | |
| PostgreSQL | `conversations`, `epics`, `tickets` | insert, update, select | |
| `architect-agent` | asyncio tasks, each with a copy of the chat; a lazily opened publisher | consume chat events, run the graph, save after every node, publish accept events | Redis, RabbitMQ, an LLM |
| architect graph | one run's solution, tickets, comments, approvals | intent, solution, solution review, plan, plan review, reply | the LLM |
| `ticket-agent` | the event in hand with a copy of the chat | consume accept events, let an LLM call tools, append the reply | Redis, `mcp-server`, an LLM |
| `mcp-server` | none; announces its tools at start | `create_epic`, `create_ticket` | `ticket-service` |
| `ticket-service` | rows | create and read epics and tickets | PostgreSQL |
| token caches (backend, ticket-agent, mcp-server) | token, expiry, in-flight promise or lock | `getToken` | Keycloak |

Nothing locks the chat object. Every writer reads the whole object, keeps it over
one or many awaits and writes the whole object back, so the hard behaviours are
interleavings: a stop that is not awaited against the next question, a save of a
task against a stop, two agents on the accepted turn, a late `getChat`. Others are
failures: a process that dies between two awaits, an event delivered twice, a
publish without a channel, a key that expires while its event waits, a POST that
times out and is saved nevertheless, a request whose callback runs when the page
already shows something else, a late `close` of a connection that has been replaced.
`PROJECT.json` lists them under `hazards`, each at its line.

What makes the parts correct:

- backend and agents: a chat with `hasReplied` ends in a reply; questions stand in
  order; a row stands behind every key; each question gets one reply, its own; what is
  said about a question stands behind it, and no save takes a newer one back.
- queues: a published event is worked off; an accept event survives the consumer.
- architect graph: a reply holds approved artifacts that belong together, the
  generators see current comments, the run ends.
- ticket creation: what the user is told was created was created, what is left out is
  accounted for, and an accepted plan is answered.
- token caches: a token served is live, callers share one request, all return.
- chat page: one turn at a time; what is shown belongs to the conversation the next
  message goes to; nothing is shown twice; a wait ends as long as the socket lives.
- broker clients: a running backend without a channel is on its way to a new one, one
  connect loop runs at a time, leaked connections are accounted for, and a broker that
  stays up is connected to again.

## 2. Modules

| Module | Models |
|---|---|
| `ChatState` | data and variables shared by the services, `Init`, `TypeOK` |
| `ChatClient` | the tab and the gateway's poll: `SendMessage`, `ReceiveReply`, `Leave`, `OpenChat` |
| `Backend` | the handlers of `ChatService`, one action per awaited call |
| `ArchitectAgent` | the consumer (`Deliver`, `Ack`, redelivery) and the task: load, mark, the graph's updates, the saves, the reply |
| `TicketAgent` | the accept consumer and `TicketService.execute`, its graph as one step |
| `ChatSystem` | the composition, expiry, faults, fairness, and all properties of the whole |
| `ChatPromise` | the abstract specification: one question at a time, each followed by its own answer |
| `ArchitectGraph` | one run of the LangGraph graph with its two review loops |
| `UpdateStream` | the abstract specification of a run, as `ChatService.execute` consumes it |
| `TicketGraph` | the ticket-agent's job in detail: concurrent tool calls through `mcp-server` to `ticket-service`, and what Redis may refuse around them |
| `TokenCache` | both `KeycloakTokenService` implementations |
| `ChatPage` | the page's component with its requests, its socket and the gateway's subscription |
| `BrokerClients` | the backend's `connect()` loop and handlers, and the architect-agent's accept publisher |
| `ChatSystemProofs` | theorems about types, rows, replies and the order of the questions of the composed system |
| `ChatEventProofs` | extends it: the fate of the events, one reply per question |
| `ChatPromiseProofs` | extends that: the refinement of `ChatPromise`, plans and epics, full transcripts |
| `ArchitectGraphProofs`, `TicketGraphProofs`, `TokenCacheProofs`, `ChatPageProofs`, `BrokerClientsProofs` | theorems about the module of that name |

The chat modules share the variables of `ChatState` and are composed by `EXTENDS`;
the other five are independent: `ArchitectGraph` is linked to `ArchitectAgent` by
`UpdateStream`, which it implements and whose steps are exactly what `TaskIntent`,
`TaskAccept`, `TaskWork` and `GraphFails` consume. `ChatPage` takes the services to be
a chat that only grows, and shows what `ChatClient` takes for granted of its tab: that
it has one turn at a time (`OneTurnAtATime`) and waits no longer than the gateway
(`WaitEnds`) while its socket lives; a user who gets out of the wait for a silent one
is `Leave`. `BrokerClients` is what lies behind the `broker` fault of `ChatSystem`.

### How state and actions correspond to the code

*Messages.* The text of a message is abstracted to the turn it belongs to:
`Ask(t)` is the t-th question, everything an agent appends while it works on that
event carries the same t. A copy of a chat is thus a sequence in which order, loss
and repetition are visible and wording is not.

*Processes.* A record in `requests`, `tasks` or `jobs` is a handler between two
awaits; its `pc` names the next call and `messages` is the copy it holds. Code
between two awaits is one action. `redis[c].ttl` tells whether the last SET had an
EX: only keys the backend wrote expire.

*Broker.* The architect-agent acks when its task is created, so `unacked` holds at
most the event being handed over and the task lives on in memory only. The
ticket-agent acks after the work, so its job goes back to the head of the queue.

*Mutants.* Operators commented "Mutant" are a plausible bug of the definition that
follows them. They are not part of the model; each shows that a property can fail.

*Faults.* `Fails(f)` counts a fault: `store` (Redis or PostgreSQL rejects), `broker`
(no channel, or the accept publish raises), `confirm` (the accept event is out and the
publisher's confirm is lost, so that the publish raises all the same), `llm`, `crash`,
`expiry`. A rejected save leaves the key as it was.

*ArchitectGraph.* A solution or a set of tickets is the number of the generation
that made it; a comment names the artifact and generation it is about. Reviewers
answer anything. `Prompts` records what the generator is shown, the history variable
`raised` every comment a reviewer made, whether the state kept it or not.

*TicketGraph.* `calls` are the tool calls of the LLM's current turn, `posts` the
POSTs at the ticket-service. A POST has a life of its own: the call that made it may
have timed out, its turn may have been given up, the ticket-agent may have died.
`Select` and `Write` are the two statements of TypeORM's `save`; an insert of a row
that appeared between them violates the primary key. langgraph is unpinned
(`>=0.2`), so a failing tool is either a message to the LLM (`ToolsReturn`) or an
exception (`ToolRaises`). Around the graph, the chat is loaded (`LoadChat`) and the
reply is set (`AppendReply`); Redis may refuse either (`RedisFails`), whereupon the
event is acked without a reply, or with one that was set although the call raised. The
LLM is external: it copies the plan's ids and reports what the tool results say; it
calls what it likes and stops when it likes. `missed` and `refused` are history: what
no tool result reports, and that the last delivery was refused the chat. `start` is
the number of turns at the last delivery, which begins its count anew.

*TokenCache.* Time is a tick counter, a token the tick of its expiry at Keycloak.
`AwaitShared` is the backend's promise; `TakeLock`, `WaitForLock` and `EnterLock` the
asyncio lock with its second look at the cache. `Delay` stands for httpx's timeouts
added up; the backend's fetch has none.

*ChatPage.* `page` is one record: the React state and the refs of `ArchitectChat`, with
`polls`, the gateway's counter for the page's socket. `calls` are the requests in
flight; `Settle` runs the callback of a request, whatever the page shows by then,
because nothing cancels it. `Navigate` is both effects (`?session` and `?chat`) in the
order React runs them. A snapshot and the handler that receives it are one step: the
socket keeps the order, and a snapshot in flight when the page closes its socket is
never handled. `splitTurns` is `Split`, defined on the whole chat at once where the code
walks it: `Nth` names the n-th index of a set, so that the agent's messages (`Agents`),
the thinking log and the turns are picked by their rank and no recursion stands in the
way of the proofs. A socket ends with its `error` event, with a `close` that was not
clean (both are `SocketLost`), or silently (`SocketSilent`: a clean close, of which
`onclose` makes nothing, or a connection that is only half open, which neither side has
a timer to notice); `deaf` is a page whose socket did the latter. Two history variables
say what the properties except: `crossed` (the user moved on while a request was in
flight) and `cut` (a request failed, a wait ended before its reply, or a socket went
silent). `MayAct` and `MayFail` draw on one bound.

*BrokerClients.* A run of `connect()` is an element of `Loop` with its attempt and, once
dialled, its connection. A connection has handlers only from `open` on. One that is
`torn` before rejects the pending call, which `connect()` catches and tries again
(`AttemptFails`), unless amqplib emits an `error` first, which nobody listens to and
which ends the process (`Unhandled`): the model leaves both open. One that is `broken`
later emits `error` and `close`, in one go (`Notice`) or apart (`ErrorFirst`, then
`LateClose`; it is `half` in between). `strays` counts late closes that cleared a newer
channel. The publisher's `publish` stops at its awaits: `connecting` is the robust
connection, `opening` the channel and the exchange, and a task that skips them because
`_connection` is set publishes, or finds no exchange (`missing`).

## 3. Runs

| Run | Question | Bounds |
|---|---|---|
| `faults` | do stored chats stay well formed, ordered and backed by a row, and is every event worked off, whatever a fault does to an impatient user? | 1 conversation, 2 turns, 1 `getChat`, plan and accept, 1 fault of any kind but a crash |
| `crash` | is an accept event kept, and do the questions stay in order, when a process dies or loses its consumer at any point and events are delivered again? | 1 conversation, 2 turns, 1 crash |
| `racing` | is each question answered once and by its own answer, and does no save go back, when stops race with the next turn and both agents write? | 1 conversation, 3 turns, plan and accept, 1 expired key, no `getChat` |
| `patient` | does a user who waits for every request get a complete transcript and, under fairness, every answer? | 2 conversations, 2 turns each, refine and undefined, 1 LLM fault |
| `graph` | are replies approved, critiques current and complete, and does a run end as a stream of updates? | 12 nodes, 2 remarks |
| `tickets` | is what the user is told was created really there, what is left out accounted for, and the plan always worked off? | 1 epic, 1 ticket, 2 turns of calls per delivery, 2 faults |
| `tokens` | are tokens live, requests shared, and does everybody return? | 3 callers, 10 ticks, lifetime 4, buffer 2, timeout 2 |
| `page` | does the page show each turn's own messages once, in the conversation it writes to, and wait for ever on a silent socket only? | 2 conversations, 3 turns each, 4 messages, navigations and failures in all, 2 polls |
| `brokers` | does the backend come back from outages, and what do late events and a half-opened publisher leave behind? | 3 attempts, 2 outages, 4 connections, 2 loops, 2 tasks |
| `crash_loses_event` | violated: a crash redelivers the message (ARTICLE.md:867) | 1 crash |
| `stop_drops_question` | violated: a stop persists what it deletes (README.md:277) | 2 turns |
| `accept_hidden` | violated: the ticket-agent finalises the conversation (ARTICLE.md:89) | 2 turns |

*Why the bounds are enough.* The races of the chat involve at most two turns of one
conversation: a leftover of turn t (stop, task, job, getChat) and turn t+1. Three turns
in `racing` add plan, accept and one more in sequence; its fault takes the key from
under a task, a stop or a POST. Two conversations only meet in the queues and the single
consumer, which `patient` has. A fault of the chat system is a single lost, refused or
repeated step; one per behaviour is what an impatient user and fairness leave room for,
and a second one (the error reply of a failed save fails too) is covered by the
theorems, which bound no faults. `graph` needs six nodes to reply and each review loop
adds two, so twelve allow three rejections in any mix. Two tool calls are the fewest
that run concurrently, and two turns with two faults allow a call that fails and a retry
that meets the leftover POST, or a crash and a second delivery that does. Three callers
give one inside the lock and two waiting. In `page` two conversations are one to leave
and one to go to; four acts hold two conversations and the way back to the first, or a
turn, a second one, a navigation and a failure, in any order; and after two polls the
gateway gives up, so that a wait can end in each of its ways. In `brokers` the second
outage may hit during the recovery from the first; three attempts give one to fail, one
to be interrupted and a last one; with four connections one is always left to dial; the
second loop is there so that `OneLoop` could be violated; two tasks are the fewest that
meet in `publish`.

*Fairness.* `Fairness` of `ChatSystem` is weak fairness of each process: handlers,
consumers, tasks and the poll are driven by event loops that run what is ready and
nothing in the code blocks them. User and faults owe nothing. Fairness is stated per
process and not per record: `\E t \in tasks : TaskStep(t)` may prefer one task to
another, which the bounded number of turns makes harmless. In `TokenCache` a waiter
whose turn has come runs and a request ends; for the backend this assumes that Keycloak
or the network closes a connection, since its `fetch` has no timeout. In `TicketGraph`
calls end because httpx times out. The clock owes nothing. In `ChatPage` requests settle
(`Network`) and the gateway's interval ticks (`Socket`); the user and the agents owe
nothing, so `WaitEnds` covers an agent that never answers. A gateway's tick reaches the
page only while the socket is not silent. In `BrokerClients` each run of `connect()`
goes on and each connection is told of its end; the broker owes nothing: `Recovers` asks
only for the case that it stays up.

*Deadlock.* Every configuration says `CHECK_DEADLOCK FALSE`: the system rests when
its users ask nothing more, or when a bound is used up.

## 4. Proofs

All theorems are about the specification without fairness, for every value of the
constants that satisfies the module's `ASSUME` (bounds are naturals, sets of
intents and faults are subsets of the declared kinds).

`ChatSystemProofs`
- `TypeCorrect`: `TypeOK` is inductive.
- `RowsBehindKeys`: `KeyHasRow` is not inductive, because a process that read the key
  writes it later, when the key may be gone. `RowInv` adds that a row stands behind
  every task and job that has read its chat and every request about to set it
  (`newChat` sets after its insert, `continueChat` after it found the row).
- `RepliedChatsAreAnswered`: every SET writes status and messages together, but the
  copies travel; the invariant follows each writer to the message it appends last,
  and a getChat's copy to the moment it was read.
- `QuestionsStayInOrder`: order alone is not inductive, for a copy may be older than
  the store it overwrites, and the question `continueChat` appends must be newer than
  all those of the copy it read. `OrderInv` bounds the questions of every copy by
  `Seen`, the number sent less the one a `continueChat` still has to set, and says that
  a tab has one POST in flight, for the turn it sent last (`PostInv`).

`ArchitectGraphProofs`
- `GraphTypeCorrect`, `RepliesAreApproved` (the route through both reviews, and the
  tickets' `from` equal to the solution approved), `CritiqueIsCurrent` (comments are
  replaced as a whole by each review), `GraphIsUpdateStream` (initial states map to
  initial states, each node to a step of `UpdateStream`).

`TicketGraphProofs`, with `TicketInv`
- `FinalRepliesNameRows`: what a call, the messages or the reply report has a row
  (`ReportInv`); rows never disappear, and a call is only marked saved by `Write`.
- `FinalRepliesLeaveNoRowOut`: every row is of an item a message told, a call has in
  hand or is `missed` (`Heard`), and so is, or will be, the item of every POST
  (`HeardInv`); a final reply is made when no call is in hand.
- `TicketTypeCorrect`.

`TokenCacheProofs`, with `TokenInv`
- `ServedTokensAreLive`: `CacheInv` bounds the expiry a cache believes by the token's
  own plus `Slack`, 0 for the backend, which counts from before its request, and
  `Delay` for the Python services, which count from the arrival of the answer. With
  the code's 30 s buffer this is safe as long as a request takes less than that.
- `OneRequestPerTerm`: `RequestInv` says that at most one request is in flight and
  that it was sent when the term of the cached token was over; `LockInv` that the
  lock (or the promise) covers it.
- `TokenTypeCorrect`.

`ChatEventProofs`
- `EventsStayKnown`: without crashes a published event is queued or its task runs
  (`EventsKnown`), whatever else fails.
- `AcceptEventsStay`: under all faults, crashes included. The ticket-agent acks after the
  work and takes one event at a time (`OneJob`), so an event leaves the queue to return
  to it or to be worked off.
- `OneReplyEach`: assumes `Reliable`: no store call fails, no confirm is lost, no
  process dies and no consumer loses its connection, so that nothing is delivered twice
  (the LLM may fail, keys may expire, a publish may fail as a whole). A lost confirm or a
  second delivery does give two replies (section 5). `TurnInv` says that a turn is in one
  place at a time, `AcceptInv` that a turn handed to the ticket-agent has one accept
  event, and `CopiesFit` that a copy holds at most one reply per turn, and one only to
  a turn that is done, wherever the copy is and however old.

`ChatPromiseProofs`
- `PromiseIsKept`: under `Reliable` and for a user who leaves no turn (`~Leaves`) each
  step of the system is a step of `ChatPromise` or stutters. `PromiseInv` says which
  answers the tab has shown, that a turn with a newer one is done (`Done` of
  `ChatEventProofs`), and that a chat a poll would take for replied to is of the turn
  the tab waits for (`FreshInv`), although stops, getChats and expiries may write
  older copies. A tab that leaves takes the stale reply of a turn it has left, a save
  that is refused ends a wait without an answer: hence the assumptions.
- `EpicsFollowShownPlans`, under the same ones: there is one answer to what kind of
  reply a turn got, and every copy, event and displayed answer agrees on it (`Agreed`);
  so the plan an accept finds in its history is what the user was shown (`PlansShown`).
- `TurnsAreTogether` and `SetsGoForward`, under the same ones, with racing stops,
  expiries and late getChats. To `PromiseInv` `LastInv` adds that, once the question
  asked last is set, what is under the key ends in that question or in what was said
  about it, and so does the copy of the task that works on it. Both theorems are about
  conversations none of whose turns was left to the ticket-agent: after an accept the
  architect-agent's late save may write over the ticket-agent's reply or bring back a
  stopped chat (section 5).
- `TurnsAreToldInFull`: for a system that is `Calm`: `Reliable`, no key expires, the user
  waits for requests (`Patient`) and for answers, and accepts nothing. It is what the
  run `patient` is set up as, with lost publishes besides, for any number of
  conversations, turns and updates. None of these hypotheses can be dropped: the racing
  stop and the expiry lose what they delete, a failed or interrupted save leaves a gap.
  The invariant `Standing` says for each state of the tab what Redis, the row, the
  POST, the task and a late stop or getChat hold (`CalmAt`): all turns told in
  full between two turns, all but the last while one is under way.

`ChatPageProofs`, for any number of conversations, turns, requests and polls
- `PageTypeCorrect`: `PageTypeOK`, with `working` finite, without which the bound
  `MayAct` would mean nothing. The offset is a natural number because `Shown`
  counts a finite set.
- `WaitAlwaysCovered`: a page that loads has a request whose callback will run, or a
  socket whose end it takes for its own, unless that socket went silent.
- `AlwaysOneTurn`: from `OneRequest` (a request the user did not walk away from is the
  only one) and `SocketIsAwaited`. The page's record enters the invariant only by its
  fields, so that bounds and messages do not matter.
- `AddresseeAlwaysShown`: what is stored and fetched is of its own conversation, and
  socket and requests are for the one the next message would go to (`ShownInv`).
- `NothingEverShownTwice`: the page is the log of one conversation (`PageLog`): it shows
  the agents' messages from the offset on, and before them thoughts of those up to the
  offset, each in one place. A chat that grows keeps this, and `SplitLog` says that the
  turns `splitTurns` finds lie one behind the other in the agents' messages, as far as
  the last reply: the offset `getChat` computes is right.
- `TurnsAlwaysShowTheirOwn`: where turns alternate, an agent at work answers the question
  asked last and what it says stands in that question's turn (`SpeakInv`), so
  each turn of a fetched chat is its own (`SplitOwn`). `InStep` relates the page to the
  chats as long as nothing failed and the user waited: a chat whose last turn is open is
  the one the page waits for (`Ordered`, from which the alternation follows), the page at
  rest has counted all the agents said (`Counted`), and the socket and each POST are about
  the turn the page is on (`Heard`, `Posted`).

  Induction over data is done where it is needed: a set of naturals has a least element
  (`LeastElement`), from which `UpTo` steps through the turns of a copy.

`BrokerClientsProofs`
- `NeverStrandedAlways` and `NeverTwoLoops`: `reconnecting` is up exactly while a run of
  `connect()` is under way after the boot (`FlagTellsTheTruth`), there is one run
  at most (`OneLoop`), and no channel while it runs (`NoChannelMeanwhile`).
- `LeaksAlwaysStray`: connections with handlers that are not the current one (`Spare`)
  are at most as many as stray closes.
- `MissingAlwaysWhileOpening`: `PublisherInv` says that a connection without an exchange
  has a task that opens it, or opening has failed.
- `BrokerTypesAlways`.

Each safety invariant and action property that a run checks is the statement of a
theorem. Only model-checked is liveness (`TurnsAreAnswered`, `EventsAreProcessed`,
`KeepsFairPromise`, `RunEnds`, `AcceptIsWorkedOff`, `CallersReturn`, `WaitEnds`,
`Recovers`), which is beyond the prover together with fairness.

## 5. Where the code and its documentation differ

1. *A crash of the architect-agent loses the turn.* `rabbitmq_consumer.py:51` acks
   when the task is created; ARTICLE.md:867 promises redelivery. Run
   `crash_loses_event`.
2. *A stop can delete a question.* `chat.service.ts:101` deletes the key by name after
   saving what it read before; a question set in between is neither persisted nor
   kept, against README.md:277. Run `stop_drops_question`.
3. *An accepted plan can stay unanswered.* `chat_service.py:67` saves the accept
   turn's copy after the accept event was published; a ticket-agent that was faster
   has its reply overwritten, and the chat stays `isThinking`. Run `accept_hidden`.
4. *A refine after an accept has no prior plan.* The ticket-agent's
   `MessageInterface` has no `node`, so its save strips the tag refine looks for
   (`WithoutNodes`, `LatestPlan`); ARTICLE.md:920 says a refine starts from the prior
   plan. Modelled, without a run of its own.
5. *The refinement prompt is never built.* `solution_node.py:32` reads
   `solution_review_approved`, a key nothing writes (`SolutionReviewApproved`);
   ARTICLE.md:930 says a refine prompt shows the prior solution. Modelled, without a run
   of its own.
6. *A generator does see an empty critique.* ARTICLE.md:91 says it never does. The
   first prompt of a run is worded as a revision and has no comments, and a reviewer
   may reject without any (`solution_review_schema.py:6`, its default). What holds is
   `CommentsAreCurrent`: all that was remarked, and nothing else. Without a run.
7. *An exception does not bring the event back.* ARTICLE.md:867 speaks of a NACK on
   exception. Both `MessageProcessor`s swallow it (`message_processor.py:28` of the
   ticket-agent): a `load_chat` that raises counts as `processed`, and a reply the
   ticket-agent could not set (`chat_manager.py:48`) is not tried again
   (`EventsAreProcessed`, and `refused` in `AcceptIsWorkedOff`). Without a run.

Things the models of this directory make visible and no document speaks of:

- The effect of a new `?chat` resets all but `userMessage` (`ArchitectChat.tsx:210`):
  until `getChat` settles, and for ever if it fails, the old question stands there.
- A `getChat` or POST answered after the user moved on still writes into the page
  (`ArchitectChat.tsx:219`); the properties of `ChatPage` hold as long as nobody walks
  away from a request (`~crossed`), and `WaitIsCovered` always.
- A `close` that comes after the reconnect drops the new connection without closing it
  (`rabbitmq.service.ts:66`).
- A publisher whose channel could not be opened finds no exchange ever after
  (`rabbitmq_publisher.py:18`): `_connection` is set, and nothing resets it.
- A stop that races the next question persists that question's chat as it stands: the
  unfinished turn is in the row, and `getChat` returns rows as `hasReplied`
  (`chat.service.ts:95-99`, `121-127`). `RepliedEndsInReply` is therefore about what
  Redis says and a `getChat` persists, not about rows.
- The publisher's confirm can be lost after the broker took the accept event
  (`rabbitmq_publisher.py:25`): the turn gets the error reply and the ticket-agent's. So
  does an accepted turn whose update could not be saved (`chat_service.py:67`), and one
  that is delivered twice.
- A socket that is closed cleanly, or whose other end is gone without a word, leaves the
  page loading for good (`ArchitectChat.tsx:346`): neither side has a timer for it.
- The branch of the page's idle timer that would stop an idle conversation never runs:
  it asks for an active conversation whose status is `hasReplied`, and the handler of
  that status clears the active conversation (`ArchitectChat.tsx:262`).

## 6. Not modelled

- Rendering, login and the epic and ticket pages (fetch and show), `PlanCard` (shows a
  message); the sidebar is `Navigate` of `ChatPage`. Metrics, health, logging; Kong,
  Keycloak's realm and the monitoring stack: no state another part depends on, or
  third-party programs. The ticket proxy passes GETs through.
- Of the page: the pulse of the thinking log, the idle timer, unmounting; and a stop,
  which in `ChatPage` would shrink a chat that there only grows (`ChatSystem` has it).
- Two tabs of one conversation: nothing orders their reads and writes, so the second
  certainly overwrites the first.
- `onModuleDestroy` is modelled as `Destroy`; a signal does not run it, since
  `enableShutdownHooks` is never called.
- The JWKS routes, the middleware and token validation: stateless checks of
  cryptographic data.
- The text of prompts and answers, and the data transfer objects' validation beyond
  "a call may fail".
- LangGraph's scheduler, RabbitMQ, Redis, TypeORM: modelled by what the code relies
  on and marked external. The recursion limit of a graph run is a bound.
- In the chat modules, a SET of an agent that took effect although the call was rejected
  (`RequestFails` of the backend and `RedisFails` of `TicketGraph` have it), and an
  exception with an empty text (which `chat_service.py:72` takes for success).

## 7. Plan

Done: the chat system with its faults, the architect graph, ticket creation, the token
caches, the page with its gateway, the broker clients; their runs, and the theorems of
section 4. Left, in the order of what can hurt a user most:

1. Two tabs of one conversation, as a second client of `ChatSystem`, with the question
   that is lost as a violated run.
2. Refinements of `ChatSystem`: an agent's SET that took effect and was rejected, the
   empty error text, the claim that an accept without a plan is answered.
3. `ChatPage` above `ChatSystem` instead of a chat that only grows: a stop, an expired
   key and a process that died as the page sees them.
4. Proofs with weaker hypotheses: `TurnsAreTogether` and `SetsGoForward` past an accept
   whose late note changes nothing, `OneReplyEach` for all turns but those that were
   delivered twice or lost a confirm, and a `TurnsAreToldInFull` that says which turns
   an expiry or a racing stop may take.
