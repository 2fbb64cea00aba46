------------------------- MODULE TicketGraphProofs -------------------------
(***************************************************************************)
(* What holds of the creation of an accepted plan for every plan, bound    *)
(* and behaviour of the LLM and the network.                               *)
(***************************************************************************)
EXTENDS TicketGraph, TLAPS

USE PlanAssumption

(* Whatever is reported, by a call, the messages or the reply, has a row.  *)
ReportInv ==
  /\ \A c \in calls : c.at \in {"saved", "ok"} => c.item \in saved
  /\ told \subseteq saved
  /\ reply.items \subseteq saved

TicketInv == TicketTypeOK /\ ReportInv

(* Nothing is reported initially.                                          *)
LEMMA TicketInitInv == TicketInit => TicketInv
  <1> SUFFICES ASSUME TicketInit PROVE TicketInv
    OBVIOUS
  <1>1. reply \in Replies
    BY DEF TicketInit, Replies, Outcomes
  <1>2. TicketTypeOK
    <2>1. start \in Nat /\ turns \in start .. start + MaxTurns /\ faults \in 0 .. MaxFaults
      BY DEF TicketInit
    <2> QED
      BY <1>1, <2>1 DEF TicketInit, TicketTypeOK, NodeNames, Outcomes
  <1> QED
    BY <1>2 DEF TicketInit, TicketInv, ReportInv

(* The steps of TicketService.execute and of the graph's nodes.            *)
LEMMA ServiceKeepsInv ==
  ASSUME TicketInv, ServiceStep \/ GraphFails \/ RedisFails \/ WriteToolsToRedis
  PROVE  TicketInv'
  <1> USE DEF TicketInv, TicketTypeOK, run, counts, history
  <1>1. CASE LoadChat \/ Build
    BY <1>1 DEF LoadChat, Build, ReportInv, NodeNames
  <1>2. ASSUME NEW S \in SUBSET Items, CreateNode(S)
        PROVE  TicketInv'
    <2>1. calls' \subseteq Calls /\ turns' \in start .. start + MaxTurns
      BY <1>2 DEF CreateNode, Calls
    <2>2. \A c \in calls' : c.at = "mcp"
      BY <1>2 DEF CreateNode
    <2>3. ReportInv'
      BY <1>2, <2>2 DEF CreateNode, ReportInv
    <2> QED
      BY <1>2, <2>1, <2>3 DEF CreateNode, NodeNames
  <1>3. CASE NoToolCalls
    BY <1>3 DEF NoToolCalls, ReportInv, NodeNames
  <1>4. CASE ToolsReturn
    <2>1. Results \subseteq saved /\ Results \subseteq Items
      BY DEF Results, ReportInv, Calls
    <2> QED
      BY <1>4, <2>1 DEF ToolsReturn, ReportInv, NodeNames
  <1>5. CASE ToolRaises
    <2>1. posts' \subseteq Posts /\ calls' = {} /\ missed' \subseteq Items
      BY <1>5 DEF ToolRaises, GiveUpTurn, PostOf, Posts, Calls, Misses, Called
    <2> QED
      BY <1>5, <2>1 DEF Misses, ToolRaises, ReportInv, NodeNames, Outcomes
  <1>6. CASE RecursionLimit \/ GraphFails
    BY <1>6 DEF RecursionLimit, GraphFails, Fault, ReportInv,
                NodeNames, Outcomes
  <1>7. CASE ExtractNode
    <2>1. TicketTypeOK'
      BY <1>7 DEF ExtractNode, NodeNames, Outcomes
    <2>2. ReportInv'
      BY <1>7 DEF ExtractNode, ReportInv
    <2> QED
      BY <2>1, <2>2
  <1>8. CASE AppendReply \/ RedisFails
    <2>1. ReplyMade \in Replies /\ ReplyMade.items \subseteq saved
      BY DEF ReplyMade, Replies, ReportInv
    <2>2. reply' = ReplyMade \/ reply' = reply
      BY <1>8 DEF AppendReply, RedisFails
    <2>3. CASE AppendReply
      BY <2>1, <2>2, <2>3 DEF AppendReply, ReportInv, NodeNames
    <2>4. CASE RedisFails
      BY <2>1, <2>2, <2>4 DEF RedisFails, Fault, ReportInv, NodeNames
    <2> QED
      BY <1>8, <2>3, <2>4
  <1>9. CASE Ack
    BY <1>9 DEF Ack, ReportInv, NodeNames
  <1>10. CASE WriteToolsToRedis
    BY <1>10 DEF WriteToolsToRedis, ReportInv
  <1> QED
    BY <1>1, <1>2, <1>3, <1>4, <1>5, <1>6, <1>7, <1>8, <1>9, <1>10
       DEF ServiceStep

(* A call changes its stage, and reports a row only when there is one.     *)
LEMMA CallKeepsInv ==
  ASSUME TicketInv, NEW c \in calls, CallStep(c) \/ CallFails(c)
  PROVE  TicketInv'
  <1> USE DEF TicketInv, TicketTypeOK, run, counts, history
  <1>1. c \in Calls
    OBVIOUS
  <1>2. ASSUME NEW at \in {"mcp", "post", "saved", "ok", "failed"},
               CallBecomes(c, at)
        PROVE  calls' \subseteq Calls
    BY <1>1, <1>2 DEF CallBecomes, Calls
  <1>3. CASE Forward(c)
    <2>1. calls' \subseteq Calls /\ posts' \subseteq Posts
      BY <1>1, <1>2, <1>3 DEF Forward, PostOf, Posts, Calls
    <2>2. \A d \in calls' : d \in calls \/ d.at = "post"
      BY <1>1, <1>3 DEF Forward, CallBecomes, Calls
    <2> QED
      BY <1>3, <2>1, <2>2 DEF Forward, ReportInv
  <1>4. CASE Answer(c)
    <2>1. calls' \subseteq Calls
      BY <1>2, <1>4 DEF Answer
    <2>2. \A d \in calls' : d \in calls \/ d.item = c.item
      BY <1>1, <1>4 DEF Answer, CallBecomes, Calls
    <2> QED
      BY <1>4, <2>1, <2>2 DEF Answer, ReportInv
  <1>5. CASE CallFails(c)
    <2>1. calls' \subseteq Calls /\ posts' \subseteq posts
      BY <1>2, <1>5 DEF CallFails
    <2>2. \A d \in calls' : d \in calls \/ d.at = "failed"
      BY <1>1, <1>5 DEF CallFails, CallBecomes, Calls
    <2>3. faults' \in 0 .. MaxFaults /\ missed' \subseteq Items /\ refused' = refused
      BY <1>1, <1>5 DEF CallFails, Fault, Misses, Calls
    <2> QED
      BY <1>5, <2>1, <2>2, <2>3 DEF CallFails, ReportInv
  <1> QED
    BY <1>3, <1>4, <1>5 DEF CallStep

(* The ticket-service answers with success only after it saved the row.    *)
LEMMA PostKeepsInv ==
  ASSUME TicketInv, NEW p \in posts, PostStep(p)
  PROVE  TicketInv'
  <1> USE DEF TicketInv, TicketTypeOK, run, counts, history
  <1>1. p \in Posts
    OBVIOUS
  <1>2. CASE Select(p)
    <2>1. posts' \subseteq Posts
      BY <1>1, <1>2 DEF Select, Posts
    <2> QED
      BY <1>2, <2>1 DEF Select, ReportInv
  <1>3. CASE Write(p)
    <2>1. PICK at \in {"failed", "saved"} : Ends(p, at)
      BY <1>3 DEF Write
    <2>2. calls' \subseteq Calls /\ posts' \subseteq Posts
      BY <2>1 DEF Ends, Waiting, Calls
    <2>3. \A d \in calls' : d \in calls \/ d.item = p.item
      BY <2>1 DEF Ends, Waiting, Calls
    <2>4. saved' = saved \cup {p.item} /\ p.item \in Items
      BY <1>1, <1>3 DEF Write, Posts
    <2>5. missed' \subseteq Items /\ refused' = refused
      BY <1>3, <2>4 DEF Write, Misses
    <2> QED
      BY <1>3, <2>2, <2>3, <2>4, <2>5 DEF Write, ReportInv
  <1> QED
    BY <1>2, <1>3 DEF PostStep

(* A redelivered event starts with the plan only.                          *)
LEMMA RedeliverKeepsInv ==
  ASSUME TicketInv, Redeliver
  PROVE  TicketInv'
  <1>1. posts' \subseteq Posts /\ calls' = {}
    BY DEF Redeliver, GiveUpTurn, PostOf, Posts, Calls, TicketInv, TicketTypeOK
  <1>2. /\ faults' \in 0 .. MaxFaults
        /\ start' \in Nat /\ turns' \in start' .. start' + MaxTurns
    BY DEF Redeliver, Fault, TicketInv, TicketTypeOK
  <1>5. missed' \subseteq Items /\ refused' \in BOOLEAN
    BY DEF Redeliver, Called, Calls, TicketInv, TicketTypeOK
  <1>3. TicketTypeOK'
    BY <1>1, <1>2, <1>5 DEF Redeliver, TicketInv, TicketTypeOK, NodeNames, Outcomes
  <1>4. ReportInv'
    BY <1>1 DEF Redeliver, TicketInv, ReportInv
  <1> QED
    BY <1>3, <1>4 DEF TicketInv

(* TicketInv is inductive.                                                 *)
LEMMA TicketStepInv == TicketInv /\ [TicketNext]_ticketVars => TicketInv'
  <1> SUFFICES ASSUME TicketInv, [TicketNext]_ticketVars
               PROVE  TicketInv'
    OBVIOUS
  <1>1. CASE UNCHANGED ticketVars
    BY <1>1 DEF ticketVars, run, counts, history, TicketInv, TicketTypeOK, ReportInv,
                counts, history
  <1> QED
    BY <1>1, ServiceKeepsInv, CallKeepsInv, PostKeepsInv, RedeliverKeepsInv
       DEF TicketNext

(* The state of the run, its calls and the rows keep their types.          *)
THEOREM TicketTypeCorrect == TicketSpec => []TicketTypeOK
  <1>1. TicketInv => TicketTypeOK
    BY DEF TicketInv
  <1> QED
    BY TicketInitInv, TicketStepInv, <1>1, PTL DEF TicketSpec

(* Every id of a final reply is a row of the ticket-service, whatever LLM, *)
(* network, retries and redeliveries do.                                   *)
THEOREM FinalRepliesNameRows == TicketSpec => []ReplyNamesRows
  <1>1. TicketInv => ReplyNamesRows
    BY DEF TicketInv, ReportInv, ReplyNamesRows
  <1> QED
    BY TicketInitInv, TicketStepInv, <1>1, PTL DEF TicketSpec

----------------------------------------------------------------------------
(* The items whose fate is told: a message reports them, a call saved them *)
(* and will be reported, or a call of theirs failed.                       *)
Heard ==
  told \cup missed \cup {c.item : c \in {d \in calls : d.at \in {"saved", "ok"}}}

(* Every row is one of those, and every POST is one that a call waits for  *)
(* or another one for such an item.                                        *)
HeardInv ==
  /\ calls # {} => node = "tools"
  /\ saved \subseteq Heard
  /\ \A p \in posts : p.item \in Heard \/ Waiting(p) # {}

(* The steps of the service: a turn starts after every call of the one     *)
(* before has ended, and whatever is not told then is missed.              *)
LEMMA ServiceKeepsHeard ==
  ASSUME TicketInv, HeardInv,
         ServiceStep \/ GraphFails \/ RedisFails \/ Redeliver \/ WriteToolsToRedis
  PROVE  HeardInv'
  <1> USE DEF run, counts, history
  <1>1. CASE LoadChat \/ Build \/ NoToolCalls \/ RecursionLimit \/ GraphFails
               \/ ExtractNode \/ AppendReply \/ RedisFails \/ Ack \/ WriteToolsToRedis
    <2>1. /\ UNCHANGED <<told, calls, posts, saved, turns, missed>>
          /\ node' = node \/ calls = {}
      BY <1>1 DEF LoadChat, Build, NoToolCalls, RecursionLimit, GraphFails, ExtractNode,
                  AppendReply, RedisFails, Ack, WriteToolsToRedis, HeardInv
    <2> QED
      BY <2>1 DEF HeardInv, Heard, Waiting
  <1>2. ASSUME NEW S \in SUBSET Items, CreateNode(S)
        PROVE  HeardInv'
    <2>1. calls = {} /\ node' = "tools" /\ UNCHANGED <<told, missed, posts, saved>>
      BY <1>2 DEF CreateNode, HeardInv
    <2>2. \A i : i \in Heard => i \in Heard'
      BY <2>1 DEF Heard
    <2>3. \A p \in posts : p.item \in Heard
      BY <2>1 DEF HeardInv, Waiting
    <2> QED
      BY <2>1, <2>2, <2>3 DEF HeardInv
  <1>3. CASE ToolsReturn
    <2>1. /\ calls' = {} /\ told' = told \cup Results
          /\ UNCHANGED <<missed, posts, saved>>
          /\ \A c \in calls : c.at \in {"ok", "failed"}
      BY <1>3 DEF ToolsReturn
    <2>2. \A i : i \in Heard => i \in Heard'
      BY <2>1 DEF Heard, Results
    <2>3. \A p \in posts : p.item \in Heard
      BY <2>1 DEF HeardInv, Waiting
    <2> QED
      BY <2>1, <2>2, <2>3 DEF HeardInv
  <1>4. CASE ToolRaises \/ Redeliver
    <2>1. /\ calls' = {} /\ UNCHANGED saved
          /\ told \cup missed \cup Called \subseteq told' \cup missed'
      BY <1>4 DEF ToolRaises, Redeliver, GiveUpTurn, Misses
    <2>2. \A p \in posts' : p \in posts \/ p.item \in Called
      BY <1>4 DEF ToolRaises, Redeliver, GiveUpTurn, PostOf, Called
    <2>3. \A i : i \in Heard \/ i \in Called => i \in Heard'
      BY <2>1 DEF Heard, Called
    <2>4. \A p \in posts : p.item \in Heard \/ p.item \in Called
      BY DEF HeardInv, Waiting, Called
    <2> QED
      BY <2>1, <2>2, <2>3, <2>4 DEF HeardInv
  <1> QED
    BY <1>1, <1>2, <1>3, <1>4 DEF ServiceStep

(* A call that fails is missed; its POST, if it stays, is one for its item.*)
LEMMA CallKeepsHeard ==
  ASSUME TicketInv, HeardInv, NEW c \in calls, CallStep(c) \/ CallFails(c)
  PROVE  HeardInv'
  <1> USE DEF run, counts, history
  <1>0. c \in Calls /\ node = "tools"
    BY DEF TicketInv, TicketTypeOK, HeardInv
  <1>1. CASE Forward(c)
    <2> DEFINE d == [c EXCEPT !.at = "post"]
               q == PostOf(c)
    <2>1. /\ d.item = c.item /\ d.at = "post" /\ q.item = c.item /\ q.turn = turns
          /\ c.at = "mcp"
      BY <1>0, <1>1 DEF Forward, Calls, PostOf
    <2>2. /\ calls' = (calls \ {c}) \cup {d} /\ posts' = posts \cup {q}
          /\ UNCHANGED <<node, told, missed, saved, turns>>
      BY <1>1 DEF Forward, CallBecomes
    <2> HIDE DEF d, q
    <2>3. \A i : i \in Heard => i \in Heard'
      BY <2>1, <2>2 DEF Heard
    <2>4. \A p : Waiting(p) # {} => Waiting(p)' # {}
      BY <2>1, <2>2 DEF Waiting
    <2>5. ASSUME NEW p, p.item = c.item, p.turn = turns
          PROVE  Waiting(p)' # {}
      BY <1>0, <2>1, <2>2, <2>5 DEF Waiting
    <2>6. \A p \in posts' : p \in posts \/ (p.item = c.item /\ p.turn = turns)
      BY <2>1, <2>2
    <2>7. \A p \in posts' : p.item \in Heard' \/ Waiting(p)' # {}
      BY <2>3, <2>4, <2>5, <2>6 DEF HeardInv
    <2> QED
      BY <1>0, <2>2, <2>3, <2>7 DEF HeardInv
  <1>2. CASE Answer(c)
    <2> DEFINE d == [c EXCEPT !.at = "ok"]
    <2>1. d.item = c.item /\ d.at = "ok" /\ c.at = "saved"
      BY <1>0, <1>2 DEF Answer, Calls
    <2>2. /\ calls' = (calls \ {c}) \cup {d}
          /\ UNCHANGED <<node, told, missed, posts, saved, turns>>
      BY <1>2 DEF Answer, CallBecomes
    <2> HIDE DEF d
    <2>3. \A i : i \in Heard => i \in Heard'
      BY <2>1, <2>2 DEF Heard
    <2>4. \A p : Waiting(p) # {} => Waiting(p)' # {}
      BY <2>1, <2>2 DEF Waiting
    <2> QED
      BY <1>0, <2>2, <2>3, <2>4 DEF HeardInv, Waiting
  <1>3. CASE CallFails(c)
    <2> DEFINE d == [c EXCEPT !.at = "failed"]
    <2>1. d.item = c.item
      BY <1>0 DEF Calls
    <2>2. /\ calls' = (calls \ {c}) \cup {d} /\ posts' \subseteq posts
          /\ missed' = missed \cup {c.item}
          /\ UNCHANGED <<node, told, saved, turns>>
      BY <1>3 DEF CallFails, CallBecomes, Misses
    <2> HIDE DEF d
    <2>3. \A i : i \in Heard => i \in Heard'
      BY <2>1, <2>2 DEF Heard
    <2>4. c.item \in Heard'
      BY <2>2 DEF Heard
    <2>5. ASSUME NEW p, Waiting(p) # {}
          PROVE  Waiting(p)' # {} \/ p.item \in Heard'
      BY <2>2, <2>4, <2>5 DEF Waiting
    <2> QED
      BY <1>0, <2>2, <2>3, <2>5 DEF HeardInv
  <1> QED
    BY <1>1, <1>2, <1>3 DEF CallStep

(* A row that is written is one its call reports, or one of a call that    *)
(* was missed.                                                             *)
LEMMA PostKeepsHeard ==
  ASSUME TicketInv, HeardInv, NEW p \in posts, PostStep(p)
  PROVE  HeardInv'
  <1> USE DEF run, counts, history
  <1>0. p \in Posts /\ calls \subseteq Calls
    BY DEF TicketInv, TicketTypeOK
  <1>1. CASE Select(p)
    <2>1. /\ \A q \in posts' : \E u \in posts : u.item = q.item /\ u.turn = q.turn
          /\ UNCHANGED <<node, told, missed, calls, saved, turns>>
      BY <1>0, <1>1 DEF Select, Posts
    <2>2. /\ \A i : i \in Heard => i \in Heard'
          /\ \A q, u : /\ u.item = q.item /\ u.turn = q.turn /\ Waiting(u) # {}
                       => Waiting(q)' # {}
      BY <2>1 DEF Heard, Waiting
    <2> QED
      BY <2>1, <2>2 DEF HeardInv
  <1>2. CASE Write(p)
    <2> DEFINE at == IF p.looked = "absent" /\ p.item \in saved THEN "failed" ELSE "saved"
               Others == calls \ Waiting(p)
               Ended == {[c EXCEPT !.at = at] : c \in Waiting(p)}
    <2>1. /\ posts' = posts \ {p} /\ calls' = Others \cup Ended
          /\ saved' = saved \cup {p.item}
          /\ missed' = IF at = "failed" THEN missed \cup {p.item} ELSE missed
          /\ UNCHANGED <<node, told, turns>>
      BY <1>2 DEF Write, Ends, Misses
    <2>2. /\ \A d \in Ended : d.item = p.item /\ d.at = at
          /\ \A c \in Waiting(p) : c \in calls /\ c.item = p.item /\ c.at = "post"
          /\ Waiting(p) # {} <=> Ended # {}
          /\ Waiting(p) # {} => node = "tools"
      <3>1. /\ \A c \in Waiting(p) : c \in calls /\ c.item = p.item /\ c.at = "post"
            /\ Waiting(p) # {} => node = "tools"
        BY DEF Waiting
      <3>2. ASSUME NEW c \in Waiting(p)
            PROVE  [c EXCEPT !.at = at].item = p.item /\ [c EXCEPT !.at = at].at = at
        <4>1. c \in Calls /\ c.item = p.item
          BY <1>0, <3>1
        <4> HIDE DEF at
        <4> QED
          BY <4>1 DEF Calls
      <3> HIDE DEF at
      <3>3. \A d \in Ended : d.item = p.item /\ d.at = at
        BY <3>2
      <3>4. Waiting(p) # {} <=> Ended # {}
        OBVIOUS
      <3> QED
        BY <3>1, <3>3, <3>4
    <2>3. at \in {"failed", "saved"}
      OBVIOUS
    <2> HIDE DEF at, Ended
    <2>4. \A i : i \in Heard => i \in Heard'
      BY <2>1, <2>2 DEF Heard
    <2>5. p.item \in Heard'
      <3>1. CASE at = "failed"
        BY <2>1, <3>1 DEF Heard
      <3>2. CASE at = "saved" /\ Waiting(p) # {}
        <4>1. PICK d \in Ended : TRUE
          BY <2>2, <3>2
        <4>2. d \in calls' /\ d.item = p.item /\ d.at = "saved"
          BY <2>1, <2>2, <3>2, <4>1
        <4> QED
          BY <4>2 DEF Heard
      <3>3. CASE Waiting(p) = {}
        BY <2>4, <3>3 DEF HeardInv
      <3> QED
        BY <2>3, <3>1, <3>2, <3>3
    <2>6. ASSUME NEW q, Waiting(q) # {}
          PROVE  Waiting(q)' # {} \/ q.item \in Heard'
      <3>1. PICK c \in Waiting(q) : TRUE
        BY <2>6
      <3>2. /\ node = "tools" /\ c \in calls /\ c.item = q.item /\ c.at = "post"
            /\ q.turn = turns
        BY <3>1 DEF Waiting
      <3>3. CASE c \in Waiting(p)
        BY <2>2, <2>5, <3>2, <3>3
      <3>4. CASE c \notin Waiting(p)
        <4>1. c \in calls'
          BY <2>1, <3>2, <3>4
        <4>2. c \in Waiting(q)'
          BY <2>1, <3>2, <4>1 DEF Waiting
        <4> QED
          BY <4>2
      <3> QED
        BY <3>3, <3>4
    <2>7. calls' # {} => node' = "tools"
      BY <2>1, <2>2 DEF HeardInv
    <2>8. saved' \subseteq Heard'
      BY <2>1, <2>4, <2>5 DEF HeardInv
    <2>9. \A q \in posts' : q.item \in Heard' \/ Waiting(q)' # {}
      BY <2>1, <2>4, <2>6 DEF HeardInv
    <2> QED
      BY <2>7, <2>8, <2>9 DEF HeardInv
  <1> QED
    BY <1>1, <1>2 DEF PostStep

(* No step leaves a row unaccounted for.                                   *)
LEMMA HeardStep == TicketInv /\ HeardInv /\ [TicketNext]_ticketVars => HeardInv'
  <1> SUFFICES ASSUME TicketInv, HeardInv, [TicketNext]_ticketVars
               PROVE  HeardInv'
    OBVIOUS
  <1>1. CASE UNCHANGED ticketVars
    BY <1>1 DEF ticketVars, run, counts, history, HeardInv, Heard, Waiting
  <1> QED
    BY <1>1, ServiceKeepsHeard, CallKeepsHeard, PostKeepsHeard DEF TicketNext

(* A final reply names every row that was made by a call of this delivery  *)
(* whose result came back, whatever the LLM calls, whatever fails and      *)
(* however often the event was delivered before.                           *)
THEOREM FinalRepliesLeaveNoRowOut == TicketSpec => NoUnreportedRows
  <1> DEFINE Complete ==
        reply' # reply /\ reply'.kind = "final" =>
          saved' \subseteq reply'.items \cup missed'
  <1>1. TicketInit => HeardInv
    BY DEF TicketInit, HeardInv
  <1>2. TicketInv /\ HeardInv /\ [TicketNext]_ticketVars => [Complete]_ticketVars
    <2> SUFFICES ASSUME TicketInv, HeardInv, [TicketNext]_ticketVars,
                        reply' # reply, reply'.kind = "final"
                 PROVE  saved' \subseteq reply'.items \cup missed'
      OBVIOUS
    <2>1. AppendReply \/ RedisFails
      BY DEF TicketNext, ticketVars, counts, history, run, ServiceStep, LoadChat, Build,
             CreateNode, NoToolCalls, ToolsReturn, ToolRaises, RecursionLimit,
             ExtractNode, Ack, GraphFails, Redeliver, WriteToolsToRedis, CallStep,
             Forward, Answer, CallFails, PostStep, Select, Write
    <2>2. /\ node = "reply" /\ reply' = ReplyMade
          /\ UNCHANGED <<saved, missed>>
      BY <2>1 DEF AppendReply, RedisFails, history
    <2>3. saved \subseteq told \cup missed
      BY <2>2 DEF HeardInv, Heard
    <2>4. reply'.items = told
      BY <2>2 DEF ReplyMade
    <2> QED
      BY <2>2, <2>3, <2>4
  <1> QED
    BY TicketInitInv, TicketStepInv, HeardStep, <1>1, <1>2, PTL
       DEF TicketSpec, NoUnreportedRows
=============================================================================
