----------------------------- MODULE ChatPage -----------------------------
(***************************************************************************)
(* What ArchitectChat.tsx keeps while its user sends messages, waits,      *)
(* loads chats from the history and walks away from requests that are      *)
(* still in flight; with the requests, the page's socket and the gateway's *)
(* subscription behind it.  The services are reduced to a chat that only   *)
(* grows: what they may do to it is the subject of ChatSystem.             *)
(***************************************************************************)
EXTENDS Naturals, Sequences, FiniteSetsExt, Functions

CONSTANTS
  Conv,         \* the conversations that may come to exist
  None,         \* no conversation, no question: null
  MaxTurns,     \* bound: messages the user sends in one conversation
  MaxActs,      \* bound: messages, navigations and failures in all
  MaxPolls      \* MAX_POLLS of the gateway (600), a small number here

ASSUME PageAssumption ==
  /\ None \notin Conv
  /\ MaxTurns \in Nat /\ MaxActs \in Nat /\ MaxPolls \in Nat

VARIABLES
  chat,         \* the stored messages of each conversation
  working,      \* questions an agent has yet to answer
  calls,        \* requests of the page in flight
  page,         \* the state and refs of the component
  sent,         \* messages sent so far, per conversation
  acts,         \* messages, navigations and failures so far (bounded)
  crossed,      \* history: the user moved on while a request was in flight
  cut           \* history: a request failed or a wait ended before its reply

vars == <<chat, working, calls, page, sent, acts, crossed, cut>>
services == <<chat, working>>
----------------------------------------------------------------------------
(* A message says which question it belongs to; its text is left out.      *)
Question == [conv : Conv, turn : 1 .. MaxTurns]
Message  == [of : Question, kind : {"ask", "thinking", "reply"}]
Msg(k, q) == [of |-> q, kind |-> k]

IsAgents(m)   == m.kind # "ask"
IsThinking(m) == m.kind = "thinking"

(* How many indexes of a set are up to i, the n-th of them, and the        *)
(* messages at such indexes in their order (SelectSeq without recursion).  *)
Rank(S, i) == Cardinality(S \cap (1 .. i))
Nth(S, n)  == CHOOSE i \in S : Rank(S, i) = n
Picked(msgs, S) == [n \in 1 .. Cardinality(S) |-> msgs[Nth(S, n)]]

Agents(msgs)   == Picked(msgs, {i \in 1 .. Len(msgs) : IsAgents(msgs[i])})
Thinking(msgs) == Picked(msgs, {i \in 1 .. Len(msgs) : IsThinking(msgs[i])})

(* What the gateway reads as agentStatus hasReplied.                       *)
Replied(msgs) == msgs # << >> /\ msgs[Len(msgs)].kind = "reply"

(* splitTurns: every reply closes a turn that holds the agent's messages   *)
(* since the last question.  A turn that never got its reply is left out.  *)
Turn == [question : Question \cup {None}, messages : Seq(Message),
         answer : Message \cup {None}]

Split(msgs) ==
  LET Ends == {i \in 1 .. Len(msgs) : msgs[i].kind = "reply"}
      Last(e) == LET before == {i \in 1 .. e - 1 : msgs[i].kind # "thinking"}
                 IN  IF before = {} THEN 0 ELSE Max(before)
      TurnTo(e) == LET b == Last(e) IN
        [question |-> IF b > 0 /\ msgs[b].kind = "ask" THEN msgs[b].of ELSE None,
         messages |-> SubSeq(msgs, b + 1, e), answer |-> msgs[e]]
  IN  [n \in 1 .. Cardinality(Ends) |-> TurnTo(Nth(Ends, n))]

(* The agent's messages in the turns before the last: where the page's     *)
(* offset starts.                                                          *)
Shown(turns) ==
  Cardinality(UNION {{i} \X (1 .. Len(turns[i].messages)) : i \in 1 .. Len(turns)})

(* CompletedTurn: of a turn that is over only the thinking log is kept.    *)
Completed(turn) == [turn EXCEPT !.messages = Thinking(@)]
----------------------------------------------------------------------------
(* The component.  conversation and active are its two id refs, socket the *)
(* conversation its WebSocket has subscribed to, polls the gateway's count *)
(* for it, deaf whether it has gone without the page being told; answer    *)
(* stands for result and reply, of which one is set.                       *)
Page == [session : BOOLEAN, url : Conv \cup {None}, loading : BOOLEAN,
         error : BOOLEAN, question : Question \cup {None},
         messages : Seq(Message), answer : Message \cup {None},
         completed : Seq(Turn), conversation : Conv \cup {None},
         active : Conv \cup {None}, offset : Nat,
         socket : Conv \cup {None}, polls : Nat, deaf : BOOLEAN]

Blank == [session |-> FALSE, url |-> None, loading |-> FALSE, error |-> FALSE,
          question |-> None, messages |-> << >>, answer |-> None,
          completed |-> << >>, conversation |-> None, active |-> None,
          offset |-> 0, socket |-> None, polls |-> 0, deaf |-> FALSE]

(* hasConversation: which of the two layouts is rendered.                  *)
HasConversation == page.question # None \/ page.completed # << >>

(* The turns on the screen: the completed ones, each with its thinking log *)
(* and its answer, and below them the current one, whose answer is held    *)
(* back while the page is loading.                                         *)
Rendered ==
  page.completed \o
  IF page.question = None THEN << >>
  ELSE <<[question |-> page.question, messages |-> Thinking(page.messages),
          answer |-> IF page.loading THEN None ELSE page.answer]>>

(* conversationIdRef.current ?? chatId                                     *)
Addressee ==
  IF page.conversation # None THEN page.conversation ELSE page.url

(* disconnectWs: no handler of the old socket runs any more, and the       *)
(* gateway's handleDisconnect clears its interval.                         *)
Disconnected(p) == [p EXCEPT !.socket = None, !.polls = 0, !.deaf = FALSE]

(* Mutant: the socket is left open.                                        *)
EndedInPlace(p) == [p EXCEPT !.active = None, !.loading = FALSE]

(* endConversation.                                                        *)
Ended(p) == [Disconnected(p) EXCEPT !.active = None, !.loading = FALSE]

(* Mutant: the conversation the socket is for is not noted.                *)
SubscribedSilently(p, c) ==
  [p EXCEPT !.socket = c, !.polls = 0, !.deaf = FALSE]

(* subscribeToChat, with the gateway's handleSubscribe.                    *)
Subscribed(p, c) ==
  [p EXCEPT !.active = c, !.socket = c, !.polls = 0, !.deaf = FALSE]
----------------------------------------------------------------------------
CallPc == {"sent", "answered", "failed"}
Call == [op : {"new", "continue"}, conv : Conv, n : 1 .. MaxTurns,
         pc : CallPc, copy : Seq(Turn)]
          \cup
        [op : {"load"}, conv : Conv, n : 0 .. MaxActs, pc : CallPc,
         copy : Seq(Turn)]

(* newChat, continueChat and getChat of lib/api.ts; n tells the calls of   *)
(* one conversation apart: the turn, or a number of the loading.  The chat *)
(* that getChat returns is kept as the turns splitTurns will find in it.   *)
Request(op, c, n) ==
  [op |-> op, conv |-> c, n |-> n, pc |-> "sent", copy |-> << >>]

Init ==
  /\ chat = [c \in Conv |-> << >>]
  /\ working = {}
  /\ calls = {}
  /\ page = Blank
  /\ sent = [c \in Conv |-> 0]
  /\ acts = 0
  /\ crossed = FALSE
  /\ cut = FALSE

(* The user also waits while many questions are open, which spares TLC the *)
(* turns that pile up unanswered.                                          *)
MayAct  == acts + Cardinality(working) < MaxActs /\ acts' = acts + 1
MayFail == acts < MaxActs /\ acts' = acts + 1

(* Mutant: the next message still goes where the last one went.            *)
ChatResetInPart(p) ==
  [Blank EXCEPT !.question = p.question, !.loading = TRUE,
                !.conversation = p.conversation]

(* The two effects a navigation runs.  A new value of ?session resets the  *)
(* whole page; a new ?chat resets all but the user's question and loads.   *)
(* Neither cancels a request that is in flight.                            *)
SessionReset(p, changed) == IF changed THEN Blank ELSE p
ChatReset(p) == [Blank EXCEPT !.question = p.question, !.loading = TRUE]

(* The user follows a link: New Chat (a fresh session), a conversation of  *)
(* the sidebar, or back to the bare page.                                  *)
Navigate(session, url) ==
  /\ MayAct
  /\ session \/ page.session \/ url # page.url
  /\ url # None => chat[url] # << >>
  /\ LET p == SessionReset(page, session \/ page.session)
         loads == url # None /\ url # page.url
         q == IF loads THEN ChatReset(p) ELSE p
     IN  /\ page' = [q EXCEPT !.session = session, !.url = url]
         /\ calls' = calls \cup (IF loads THEN {Request("load", url, acts)} ELSE {})
  /\ crossed' = (crossed \/ calls # {})
  /\ cut' = (cut \/ page'.socket # page.socket)
  /\ UNCHANGED <<services, sent>>

(* handleSearch.  The id of the conversation is known to the page only     *)
(* when the call returns.                                                  *)
Search(c) ==
  /\ ~page.loading
  /\ ~HasConversation \/ Addressee = None
  /\ MayAct /\ sent[c] = 0 /\ MaxTurns > 0
  /\ sent' = [sent EXCEPT ![c] = 1]
  /\ page' = [Disconnected(page) EXCEPT
                !.loading = TRUE, !.error = FALSE, !.answer = None,
                !.messages = << >>, !.completed = << >>, !.offset = 0,
                !.question = [conv |-> c, turn |-> 1]]
  /\ calls' = calls \cup {Request("new", c, 1)}
  /\ UNCHANGED <<services, crossed, cut>>

(* Mutant: the messages of the turn that is over are not counted.          *)
OffsetStays(p) == p.offset

(* Mutant: the offset names the last message shown, not the next one.      *)
OffsetOfLast(p) == p.offset + Len(p.messages) - 1

(* The next turn begins behind what has been shown so far.                 *)
NextOffset(p) == p.offset + Len(p.messages)

(* handleContinue, and handleAccept, which calls it with a fixed text.     *)
Continue ==
  /\ ~page.loading
  /\ HasConversation /\ Addressee # None /\ MayAct
  /\ LET c == Addressee
         t == sent[c] + 1
         over == [question |-> page.question, answer |-> page.answer,
                  messages |-> Thinking(page.messages)]
     IN  /\ t <= MaxTurns
         /\ sent' = [sent EXCEPT ![c] = t]
         /\ page' = [Disconnected(page) EXCEPT
                       !.loading = TRUE, !.error = FALSE, !.answer = None,
                       !.messages = << >>, !.offset = NextOffset(page),
                       !.question = [conv |-> c, turn |-> t],
                       !.completed = IF page.question = None THEN @
                                     ELSE Append(@, over)]
         /\ calls' = calls \cup {Request("continue", c, t)}
  /\ UNCHANGED <<services, crossed, cut>>
----------------------------------------------------------------------------
(* The backend handles a call; the answer travels back.                    *)
Serve(k) ==
  /\ k \in calls /\ k.pc = "sent"
  /\ LET q == [conv |-> k.conv, turn |-> k.n] IN
     IF k.op = "load"
       THEN /\ calls' = (calls \ {k}) \cup
                          {[k EXCEPT !.pc = "answered", !.copy = Split(chat[k.conv])]}
            /\ UNCHANGED services
       ELSE /\ calls' = (calls \ {k}) \cup {[k EXCEPT !.pc = "answered"]}
            /\ chat' = [chat EXCEPT ![k.conv] = Append(@, Msg("ask", q))]
            /\ working' = working \cup {q}
  /\ UNCHANGED <<page, sent, acts, crossed, cut>>

(* A call or its answer is lost, or the backend rejects it.                *)
CallFails(k) ==
  /\ k \in calls /\ k.pc # "failed" /\ MayFail
  /\ calls' = (calls \ {k}) \cup {[k EXCEPT !.pc = "failed", !.copy = << >>]}
  /\ UNCHANGED <<services, page, sent, crossed, cut>>

(* The callbacks of newChat and continueChat.                              *)
Started(p, k) ==
  Subscribed(IF k.op = "new" THEN [p EXCEPT !.conversation = k.conv] ELSE p, k.conv)

(* Mutant: getChat leaves the offset at the start of the chat.             *)
LoadedAtStart(p, turns) ==
  IF turns = << >> THEN p
  ELSE [p EXCEPT !.question = turns[Len(turns)].question,
                 !.messages = turns[Len(turns)].messages,
                 !.answer = turns[Len(turns)].answer,
                 !.completed = [i \in 1 .. Len(turns) - 1 |-> Completed(turns[i])]]

(* The callback of getChat.  A chat without a finished turn shows nothing. *)
Loaded(p, turns) ==
  IF turns = << >> THEN p
  ELSE LET last == turns[Len(turns)]
           prev == SubSeq(turns, 1, Len(turns) - 1)
       IN  [p EXCEPT !.question = last.question, !.messages = last.messages,
                     !.answer = last.answer, !.offset = Shown(prev),
                     !.completed = [i \in 1 .. Len(prev) |-> Completed(prev[i])]]

(* A call settles and its callback runs, whatever the page shows by now.   *)
Settle(k) ==
  /\ k \in calls /\ k.pc # "sent"
  /\ calls' = calls \ {k}
  /\ page' = IF k.pc = "failed"
               THEN [page EXCEPT !.loading = FALSE, !.error = TRUE]
               ELSE IF k.op = "load"
                      THEN [Loaded(page, k.copy) EXCEPT !.loading = FALSE]
                      ELSE Started(page, k)
  /\ cut' = (cut \/ k.pc = "failed")
  /\ UNCHANGED <<services, sent, acts, crossed>>
----------------------------------------------------------------------------
(* The page's socket.  A snapshot the gateway sends and the handler that   *)
(* receives it are one step: the socket keeps the order, and what is       *)
(* still under way when the page closes the socket is never handled.       *)
Connected == page.socket # None /\ ~page.deaf

PollFinds ==
  /\ Connected /\ page.polls < MaxPolls
  /\ chat[page.socket] # << >>
  /\ LET msgs == chat[page.socket]
         all  == Agents(msgs)
         seen == [page EXCEPT !.polls = @ + 1,
                              !.messages = SubSeq(all, page.offset + 1, Len(all))]
     IN  page' = IF Replied(msgs)
                   THEN [Ended(seen) EXCEPT !.answer = msgs[Len(msgs)]]
                   ELSE seen
  /\ UNCHANGED <<services, calls, sent, acts, crossed, cut>>

(* The key is gone, or Redis does not answer.                              *)
PollMisses ==
  /\ Connected /\ page.polls < MaxPolls
  /\ page' = [page EXCEPT !.polls = @ + 1]
  /\ UNCHANGED <<services, calls, sent, acts, crossed, cut>>

(* Mutant: the gateway goes quiet instead of telling the page.             *)
PollsStop == [page EXCEPT !.polls = MaxPolls]

(* What the page makes of an error event, a socket error or a close that   *)
(* was not clean.                                                          *)
GivenUp == [Ended(page) EXCEPT !.error = TRUE]

(* The 601st poll: the gateway sends its error event.                      *)
TimedOut ==
  /\ Connected /\ page.polls = MaxPolls
  /\ page' = GivenUp
  /\ cut' = TRUE
  /\ UNCHANGED <<services, calls, sent, acts, crossed>>

(* onerror, or an onclose that was not clean; it may come long after the   *)
(* last snapshot.                                                          *)
SocketLost ==
  /\ page.socket # None /\ MayFail
  /\ page' = GivenUp
  /\ cut' = TRUE
  /\ UNCHANGED <<services, calls, sent, crossed>>

(* A clean close, of which onclose makes nothing, or a connection that is  *)
(* only half open: neither side has a timer that would notice.             *)
SocketSilent ==
  /\ Connected /\ MayFail
  /\ page' = [page EXCEPT !.deaf = TRUE]
  /\ cut' = TRUE
  /\ UNCHANGED <<services, calls, sent, crossed>>
----------------------------------------------------------------------------
(* The agents, as far as the page can tell: they append a thinking message *)
(* and a reply to a question.  No fairness: an agent that dies over its    *)
(* question is one that takes no further step.                             *)
AgentThinks(q) ==
  /\ q \in working
  /\ \A i \in 1 .. Len(chat[q.conv]) : chat[q.conv][i] # Msg("thinking", q)
  /\ chat' = [chat EXCEPT ![q.conv] = Append(@, Msg("thinking", q))]
  /\ UNCHANGED <<working, calls, page, sent, acts, crossed, cut>>

AgentReplies(q) ==
  /\ q \in working
  /\ working' = working \ {q}
  /\ chat' = [chat EXCEPT ![q.conv] = Append(@, Msg("reply", q))]
  /\ UNCHANGED <<calls, page, sent, acts, crossed, cut>>

User ==
  \/ \E c \in Conv : Navigate(TRUE, None) \/ Navigate(FALSE, c) \/ Search(c)
  \/ Navigate(FALSE, None)
  \/ Continue

Network == \E k \in calls : Serve(k) \/ Settle(k)
Socket  == PollFinds \/ PollMisses \/ TimedOut
Agent   == \E q \in working : AgentThinks(q) \/ AgentReplies(q)
Failure ==
  \/ \E k \in calls : CallFails(k)
  \/ SocketLost
  \/ SocketSilent

Next == User \/ Network \/ Socket \/ Agent \/ Failure
Spec == Init /\ [][Next]_vars
FairSpec == Spec /\ WF_vars(Network) /\ WF_vars(Socket)
----------------------------------------------------------------------------
(* Types of the page, its requests and the stored chats.                   *)
PageTypeOK ==
  /\ chat \in [Conv -> Seq(Message)]
  /\ working \subseteq Question
  /\ calls \subseteq Call
  /\ page \in Page
  /\ sent \in [Conv -> 0 .. MaxTurns]
  /\ acts \in 0 .. MaxActs
  /\ crossed \in BOOLEAN /\ cut \in BOOLEAN

(* While the page says it is loading, and so takes no input, something is  *)
(* under way that can end it: a request whose callback will run, or a      *)
(* socket whose errors are still taken for this conversation's.  Only a    *)
(* socket that went silent leaves the page loading with nothing to come.   *)
WaitIsCovered ==
  page.loading /\ ~page.deaf =>
    calls # {} \/ (page.socket # None /\ page.active = page.socket)

(* Unless the user walked away from a request, the search bar is disabled  *)
(* as long as a message is on its way or its reply is awaited: a page has  *)
(* one turn at a time.  ChatClient takes this for granted.                 *)
OneTurnAtATime ==
  ~crossed /\ (page.socket # None \/ \E k \in calls : k.op # "load")
    => page.loading

(* Unless the user walked away from a request, what the agents said on     *)
(* this page they said in the conversation the next message goes to.       *)
AddresseeIsShown ==
  ~crossed /\ Addressee # None =>
    \A t \in Range(Rendered) :
      \A m \in Range(t.messages) \cup ({t.answer} \ {None}) : m.of.conv = Addressee

(* A question follows the reply to the one before: what the services keep  *)
(* to when no turn is given up (ChatSystem).                               *)
TurnsAlternate ==
  \A c \in Conv : \A i \in 2 .. Len(chat[c]) :
    chat[c][i].kind = "ask" => chat[c][i - 1].kind = "reply"

(* The offset into the agent's messages is the number of those shown in    *)
(* earlier turns, whether they came by socket or by getChat and whether    *)
(* the waits ended well: no entry of the thinking log is displayed twice.  *)
NothingShownTwice ==
  LET turns == Rendered
      logs  == [i \in 1 .. Len(turns) |-> turns[i].messages] IN
  ~crossed /\ TurnsAlternate =>
    \A i, j \in DOMAIN logs : \A k \in DOMAIN logs[i], l \in DOMAIN logs[j] :
      logs[i][k] = logs[j][l] => i = j /\ k = l

(* As long as nothing failed and the user waited, each turn on the page    *)
(* shows the messages and the answer of its own question.                  *)
TurnsShowTheirOwn ==
  ~crossed /\ ~cut =>
    LET turns == Rendered IN
    \A i \in 1 .. Len(turns) :
      LET t == turns[i] IN
      /\ \A m \in Range(t.messages) : m.of = t.question
      /\ \/ t.answer = Msg("reply", t.question)
         \/ page.loading /\ i = Len(turns)

(* Requests that fail, lost connections, missing chats and the user's ways *)
(* through the page end every wait: requests settle, and the gateway gives *)
(* up after MAX_POLLS.  The exception is a socket that went silent: then   *)
(* only the user gets the page out of its wait.                            *)
WaitEnds == []<>(~page.loading \/ page.deaf)
============================================================================
