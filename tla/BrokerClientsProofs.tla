----------------------- MODULE BrokerClientsProofs -----------------------
(***************************************************************************)
(* Proofs about BrokerClients: the backend is never left without a channel *)
(* and without an attempt to get one, and every connection it leaves open  *)
(* is paid for by a 'close' that came late.                                *)
(***************************************************************************)
EXTENDS BrokerClients, FiniteSetTheorems, TLAPS

Active(k) == loops[k].attempt > 0

(* The flag that keeps a second run of connect() from starting says        *)
(* whether one is under way, and it never lets two run at once.            *)
FlagTellsTheTruth ==
  /\ life = "running" => (reconnecting <=> \E k \in Loop : Active(k))
  /\ life = "booting" => ~reconnecting
OneLoop == \A j, k \in Loop : Active(j) /\ Active(k) => j = k

(* The channel is cleared before connect() runs.                           *)
NoChannelMeanwhile ==
  /\ life = "booting" => channel = None
  /\ life = "running" /\ channel = None => closing \/ gaveUp \/ reconnecting
  /\ (\E k \in Loop : Active(k)) => channel = None

(* Connections with handlers that are not in use, whether or not the       *)
(* broker still serves them.                                               *)
Spare == {l \in Link : link[l] \in {"open", "broken"}} \ {channel}

Run == [attempt : 0 .. MaxAttempts, conn : Link \cup {None}]
TypeInv ==
  /\ life \in {"booting", "running", "exited"}
  /\ loops \in [Loop -> Run]
  /\ link \in [Link -> Stage]
  /\ channel \in Link \cup {None}
  /\ reconnecting \in BOOLEAN /\ closing \in BOOLEAN /\ gaveUp \in BOOLEAN
  /\ strays \in Nat

IInv ==
  /\ TypeInv
  /\ FlagTellsTheTruth
  /\ OneLoop
  /\ NoChannelMeanwhile
  /\ Cardinality(Spare) <= strays
----------------------------------------------------------------------------
(* A run of connect() is idle or begins at its first attempt.              *)
LEMMA Runs == Idle \in Run /\ Start \in Run
BY BrokerAssumption DEF Idle, Start, Run

(* Of finitely many connections, a set is finite and its size a number.    *)
LEMMA LinksAreFinite ==
  ASSUME NEW S, S \subseteq Link
  PROVE  IsFiniteSet(S) /\ Cardinality(S) \in Nat
BY FS_Subset, FS_CardinalityType, BrokerAssumption

(* A set that takes in one connection grows by one at most.                *)
LEMMA OneMore ==
  ASSUME NEW S, NEW T, NEW c, S \subseteq Link, c \in Link, T \subseteq S \cup {c}
  PROVE  Cardinality(T) <= Cardinality(S) + 1
<1>1. IsFiniteSet(S \cup {c}) /\ Cardinality(S \cup {c}) \in Nat
  BY LinksAreFinite
<1>2. Cardinality(S \cup {c}) <= Cardinality(S) + 1
  BY LinksAreFinite, FS_AddElement
<1>3. Cardinality(T) <= Cardinality(S \cup {c}) /\ Cardinality(T) \in Nat
  BY <1>1, FS_Subset, LinksAreFinite
<1> QED
  BY <1>1, <1>2, <1>3, LinksAreFinite

(* A set that gives one connection for another does not grow.              *)
LEMMA OneForOne ==
  ASSUME NEW S, NEW T, NEW c, NEW l, S \subseteq Link, c \in Link, l \in S,
         T \subseteq (S \ {l}) \cup {c}
  PROVE  Cardinality(T) <= Cardinality(S)
<1>1. Cardinality(S \ {l}) = Cardinality(S) - 1
  BY LinksAreFinite, FS_RemoveElement
<1>2. Cardinality(T) <= Cardinality(S \ {l}) + 1
  BY OneMore
<1> QED
  BY <1>1, <1>2, LinksAreFinite

(* The spare connections are connections.                                  *)
LEMMA SpareLinks == Spare \subseteq Link
BY DEF Spare
----------------------------------------------------------------------------
(* At boot one run of connect() is under way and no connection exists.     *)
LEMMA InitIInv == Init => IInv
<1> SUFFICES ASSUME Init PROVE IInv
  OBVIOUS
<1> USE BrokerAssumption
<1>1. PICK k \in Loop : loops = [j \in Loop |-> IF j = k THEN Start ELSE Idle]
  BY DEF Init
<1>2. TypeInv
  BY <1>1, Runs DEF Init, TypeInv, Stage
<1>3. OneLoop /\ FlagTellsTheTruth /\ NoChannelMeanwhile
  BY <1>1 DEF Init, OneLoop, FlagTellsTheTruth, NoChannelMeanwhile, Active, Start, Idle
<1>4. Spare = {}
  BY DEF Init, Spare
<1>5. Cardinality(Spare) <= strays
  BY <1>4, FS_EmptySet DEF Init
<1> QED
  BY <1>2, <1>3, <1>5 DEF IInv

(* Steps of the broker: the handlers of a connection outlive it.           *)
LEMMA BrokerIInv ==
  ASSUME IInv, Outage \/ Recover
  PROVE  IInv'
<1>1. UNCHANGED <<life, loops, channel, reconnecting, closing, gaveUp, strays>>
  BY DEF Outage, Recover, backend
<1>2. link' \in [Link -> Stage]
  BY DEF IInv, TypeInv, Outage, Recover, backend, Severed, Stage
<1>3. \A l \in Link : link'[l] \in {"open", "broken"} <=> link[l] \in {"open", "broken"}
  BY DEF IInv, TypeInv, Outage, Recover, backend, Severed, Stage
<1>4. Spare' = Spare
  BY <1>1, <1>3 DEF Spare
<1>5. TypeInv'
  BY <1>1, <1>2 DEF IInv, TypeInv
<1>6. FlagTellsTheTruth' /\ OneLoop' /\ NoChannelMeanwhile'
  BY <1>1 DEF IInv, FlagTellsTheTruth, OneLoop, NoChannelMeanwhile, Active
<1> QED
  BY <1>1, <1>4, <1>5, <1>6 DEF IInv

(* An attempt that gets its connection is the same run of connect().    *)
LEMMA DialIInv ==
  ASSUME IInv, NEW k \in Loop, NEW l \in Link, Dial(k, l)
  PROVE  IInv'
<1>1. UNCHANGED <<life, channel, reconnecting, closing, gaveUp, strays>>
  BY DEF Dial
<1>2. \A j \in Loop : loops'[j].attempt = loops[j].attempt
  BY DEF IInv, TypeInv, Run, Dial
<1>3. Spare' = Spare
  BY <1>1 DEF IInv, TypeInv, Dial, Spare
<1>4. TypeInv'
  BY <1>1 DEF IInv, TypeInv, Run, Dial, Stage
<1>5. FlagTellsTheTruth' /\ OneLoop' /\ NoChannelMeanwhile'
  BY <1>1, <1>2 DEF IInv, FlagTellsTheTruth, OneLoop, NoChannelMeanwhile, Active
<1> QED
  BY <1>1, <1>3, <1>4, <1>5 DEF IInv

(* An attempt that fails takes nothing that was in use.                    *)
LEMMA FailedAttempt ==
  ASSUME IInv, NEW k \in Loop, AttemptFails(k), UNCHANGED channel
  PROVE  link' \in [Link -> Stage] /\ Spare' = Spare
<1>1. loops[k].conn \in Link \cup {None}
  BY DEF IInv, TypeInv, Run
<1>2. link' \in [Link -> Stage]
  BY <1>1 DEF IInv, TypeInv, AttemptFails, Stage
<1>3. \A l \in Link : link'[l] \in {"open", "broken"} <=> link[l] \in {"open", "broken"}
  BY <1>1 DEF IInv, TypeInv, AttemptFails
<1> QED
  BY <1>2, <1>3 DEF Spare

(* One that fails goes on as the same run, with its next attempt.          *)
LEMMA RefusedIInv ==
  ASSUME IInv, NEW k \in Loop, Refused(k)
  PROVE  IInv'
<1>1. UNCHANGED <<life, channel, reconnecting, closing, gaveUp, strays>>
  BY DEF Refused
<1>2. \A j \in Loop : loops'[j].attempt > 0 <=> loops[j].attempt > 0
  BY DEF IInv, TypeInv, Run, Refused, Trying, NextAttempt
<1>3. TypeInv'
  <2>1. NextAttempt(k) \in Run
    BY BrokerAssumption DEF IInv, TypeInv, Run, Refused, NextAttempt
  <2> QED BY <1>1, <2>1, FailedAttempt DEF IInv, TypeInv, Refused
<1>4. FlagTellsTheTruth' /\ OneLoop' /\ NoChannelMeanwhile'
  BY <1>1, <1>2 DEF IInv, FlagTellsTheTruth, OneLoop, NoChannelMeanwhile, Active
<1>5. Spare' = Spare
  BY <1>1, FailedAttempt DEF Refused
<1> QED
  BY <1>1, <1>3, <1>4, <1>5 DEF IInv

(* The only run under way ends, with its connection in use.                *)
LEMMA DeclaredIInv ==
  ASSUME IInv, NEW k \in Loop, Declared(k)
  PROVE  IInv'
<1> DEFINE c == loops[k].conn
<1>1. /\ c \in Link /\ link[c] = "declaring" /\ link' = [link EXCEPT ![c] = "open"]
      /\ channel' = c /\ reconnecting' = FALSE /\ life' = "running" /\ gaveUp' = FALSE
      /\ loops' = [loops EXCEPT ![k] = Idle]
      /\ UNCHANGED <<closing, strays>>
  BY DEF IInv, TypeInv, Run, Declared
<1>2. Active(k) /\ channel = None
  BY DEF IInv, Declared, Trying, Active, NoChannelMeanwhile
<1> HIDE DEF c
<1>3. \A j \in Loop : ~Active(j)'
  BY <1>1, <1>2 DEF IInv, TypeInv, Run, OneLoop, Active, Idle
<1>4. TypeInv'
  BY <1>1, Runs DEF IInv, TypeInv, Stage
<1>5. FlagTellsTheTruth' /\ OneLoop' /\ NoChannelMeanwhile'
  BY <1>1, <1>3, BrokerAssumption DEF FlagTellsTheTruth, OneLoop, NoChannelMeanwhile
<1>6. Spare' = Spare
  BY <1>1, <1>2, BrokerAssumption DEF IInv, TypeInv, Spare
<1> QED
  BY <1>1, <1>4, <1>5, <1>6 DEF IInv

(* A run that gives up leaves none behind.                                 *)
LEMMA GiveUpIInv ==
  ASSUME IInv, NEW k \in Loop, GiveUp(k)
  PROVE  IInv'
<1>1. /\ gaveUp' = TRUE /\ loops' = [loops EXCEPT ![k] = Idle]
      /\ UNCHANGED <<channel, closing, strays>>
      /\ Active(k) /\ life # "exited"
  BY DEF GiveUp, Trying, Active
<1>2. \/ life' = "exited" /\ reconnecting' = reconnecting
      \/ life = "running" /\ life' = "running" /\ reconnecting' = FALSE
  BY <1>1 DEF GiveUp, IInv, TypeInv
<1>3. \A j \in Loop : ~Active(j)'
  BY <1>1 DEF IInv, TypeInv, Run, OneLoop, Active, Idle
<1>4. link' \in [Link -> Stage] /\ Spare' = Spare
  BY FailedAttempt DEF GiveUp
<1>5. TypeInv'
  BY <1>1, <1>2, <1>4, Runs DEF IInv, TypeInv
<1>6. FlagTellsTheTruth' /\ OneLoop' /\ NoChannelMeanwhile'
  BY <1>1, <1>2, <1>3 DEF FlagTellsTheTruth, OneLoop, NoChannelMeanwhile
<1> QED
  BY <1>1, <1>4, <1>5, <1>6 DEF IInv

(* A process that is gone keeps every promise about a running one.         *)
LEMMA UnhandledIInv ==
  ASSUME IInv, NEW k \in Loop, Unhandled(k)
  PROVE  IInv'
<1>1. /\ life' = "exited"
      /\ UNCHANGED <<loops, link, channel, reconnecting, closing, gaveUp, strays>>
  BY DEF Unhandled
<1>2. TypeInv' /\ FlagTellsTheTruth' /\ OneLoop' /\ NoChannelMeanwhile'
  BY <1>1 DEF IInv, TypeInv, FlagTellsTheTruth, OneLoop, NoChannelMeanwhile, Active
<1>3. Spare' = Spare
  BY <1>1 DEF Spare
<1> QED
  BY <1>1, <1>2, <1>3 DEF IInv
----------------------------------------------------------------------------
(* handleDisconnect leaves a run of connect() under way, and no other.     *)
LEMMA HandleDisconnectIInv ==
  ASSUME IInv, life = "running", HandleDisconnect,
         link' \in [Link -> Stage], UNCHANGED <<life, closing>>, strays' \in Nat,
         Cardinality(Spare') <= strays'
  PROVE  IInv'
<1>1. channel' = None
  BY DEF HandleDisconnect
<1>2. CASE closing \/ reconnecting
  <2>1. UNCHANGED <<loops, reconnecting, gaveUp>>
    BY <1>2 DEF HandleDisconnect
  <2>2. TypeInv'
    BY <1>1, <2>1 DEF IInv, TypeInv
  <2>3. FlagTellsTheTruth' /\ OneLoop' /\ NoChannelMeanwhile'
    BY <1>1, <1>2, <2>1 DEF IInv, FlagTellsTheTruth, OneLoop, NoChannelMeanwhile, Active
  <2> QED
    BY <2>2, <2>3 DEF IInv
<1>3. CASE ~(closing \/ reconnecting)
  <2>1. reconnecting' = TRUE /\ gaveUp' = FALSE
    BY <1>3 DEF HandleDisconnect
  <2>2. PICK k \in Loop : loops' = [loops EXCEPT ![k] = Start]
    BY <1>3 DEF HandleDisconnect
  <2>3. \A j \in Loop : ~Active(j)
    BY <1>3 DEF IInv, FlagTellsTheTruth
  <2>4. \A j \in Loop : Active(j)' <=> j = k
    BY <2>2, <2>3 DEF IInv, TypeInv, Run, Active, Start
  <2>5. TypeInv'
    BY <1>1, <2>1, <2>2, Runs DEF IInv, TypeInv
  <2>6. FlagTellsTheTruth' /\ OneLoop' /\ NoChannelMeanwhile'
    BY <1>1, <2>1, <2>4 DEF FlagTellsTheTruth, OneLoop, NoChannelMeanwhile
  <2> QED
    BY <2>5, <2>6 DEF IInv
<1> QED
  BY <1>2, <1>3

(* A broken connection that is noticed makes room for the one it clears.   *)
LEMMA NoticedIInv ==
  ASSUME IInv, NEW l \in Link, Notice(l) \/ ErrorFirst(l)
  PROVE  IInv'
<1>1. PICK s \in {"none", "half"} : link' = [link EXCEPT ![l] = s]
  BY DEF Notice, ErrorFirst
<1>2. /\ life = "running" /\ link[l] = "broken" /\ HandleDisconnect
      /\ UNCHANGED <<life, closing, strays>>
  BY DEF Notice, ErrorFirst, Running
<1>3. channel' = None
  BY <1>2 DEF HandleDisconnect
<1>4. link' \in [Link -> Stage]
  BY <1>1 DEF IInv, TypeInv, Stage
<1>5. Cardinality(Spare') <= Cardinality(Spare)
  <2>1. CASE l = channel \/ channel = None
    <3>1. Spare' \subseteq Spare
      BY <1>1, <1>3, <2>1 DEF IInv, TypeInv, Spare
    <3> QED
      BY <3>1, FS_Subset, LinksAreFinite, SpareLinks
  <2>2. CASE l # channel /\ channel # None
    <3>1. l \in Spare /\ channel \in Link
      BY <1>2, <2>2 DEF IInv, TypeInv, Spare
    <3>2. Spare' \subseteq (Spare \ {l}) \cup {channel}
      BY <1>1, <1>3 DEF IInv, TypeInv, Spare
    <3> QED
      BY <3>1, <3>2, OneForOne, SpareLinks
  <2> QED
    BY <2>1, <2>2
<1>6. Spare' \subseteq Link
  BY DEF Spare
<1>7. Cardinality(Spare) \in Nat /\ Cardinality(Spare') \in Nat
  BY <1>6, LinksAreFinite, SpareLinks
<1>8. Cardinality(Spare') <= strays' /\ strays' \in Nat
  BY <1>2, <1>5, <1>7 DEF IInv, TypeInv
<1> QED
  BY <1>2, <1>4, <1>8, HandleDisconnectIInv

(* A late 'close' that clears a channel is counted.                        *)
LEMMA LateCloseIInv ==
  ASSUME IInv, NEW l \in Link, LateClose(l)
  PROVE  IInv'
<1>1. /\ life = "running" /\ link' = [link EXCEPT ![l] = "none"] /\ HandleDisconnect
      /\ strays' = (IF channel = None THEN strays ELSE strays + 1)
      /\ UNCHANGED <<life, closing>>
  BY DEF LateClose, Running
<1>2. channel' = None
  BY <1>1 DEF HandleDisconnect
<1>3. link' \in [Link -> Stage] /\ strays' \in Nat
  BY <1>1 DEF IInv, TypeInv, Stage
<1>4. Cardinality(Spare) \in Nat /\ Cardinality(Spare) <= strays
  BY LinksAreFinite, SpareLinks DEF IInv
<1>5. Cardinality(Spare') <= strays'
  <2>1. Spare' \subseteq Link
    BY DEF Spare
  <2>2. CASE channel = None
    <3>1. Spare' \subseteq Spare
      BY <1>1, <1>2, <2>2 DEF IInv, TypeInv, Spare
    <3>2. Cardinality(Spare') <= Cardinality(Spare) /\ Cardinality(Spare') \in Nat
      BY <2>1, <3>1, FS_Subset, LinksAreFinite, SpareLinks
    <3> QED
      BY <1>1, <1>4, <2>2, <3>2 DEF IInv, TypeInv
  <2>3. CASE channel # None
    <3>1. channel \in Link
      BY <2>3 DEF IInv, TypeInv
    <3>2. Spare' \subseteq Spare \cup {channel}
      BY <1>1, <1>2 DEF IInv, TypeInv, Spare
    <3>3. Cardinality(Spare') <= Cardinality(Spare) + 1 /\ Cardinality(Spare') \in Nat
      BY <2>1, <3>1, <3>2, OneMore, LinksAreFinite, SpareLinks
    <3> QED
      BY <1>1, <1>4, <2>3, <3>3 DEF IInv, TypeInv
  <2> QED
    BY <2>2, <2>3
<1> QED
  BY <1>1, <1>3, <1>5, HandleDisconnectIInv

(* Shutting down closes the connection in use.                             *)
LEMMA DestroyIInv ==
  ASSUME IInv, Destroy
  PROVE  IInv'
<1>1. /\ closing' = TRUE /\ channel' = None
      /\ link' = (IF channel = None THEN link ELSE [link EXCEPT ![channel] = "none"])
      /\ UNCHANGED <<life, loops, reconnecting, gaveUp, strays>>
  BY DEF Destroy
<1>2. TypeInv'
  BY <1>1 DEF IInv, TypeInv, Stage
<1>3. FlagTellsTheTruth' /\ OneLoop' /\ NoChannelMeanwhile'
  BY <1>1 DEF IInv, FlagTellsTheTruth, OneLoop, NoChannelMeanwhile, Active
<1>4. Spare' = Spare
  BY <1>1, BrokerAssumption DEF IInv, TypeInv, Spare
<1> QED
  BY <1>1, <1>2, <1>3, <1>4 DEF IInv

(* Steps that do not touch the backend.                                    *)
LEMMA QuietIInv ==
  ASSUME IInv, UNCHANGED backend
  PROVE  IInv'
<1>1. UNCHANGED <<life, loops, link, channel, reconnecting, closing, gaveUp, strays>>
  BY DEF backend
<1>2. Spare' = Spare
  BY <1>1 DEF Spare
<1> QED
  BY <1>1, <1>2
     DEF IInv, TypeInv, FlagTellsTheTruth, OneLoop, NoChannelMeanwhile, Active

(* Every step keeps the invariant.                                         *)
LEMMA NextIInv == IInv /\ [Next]_vars => IInv'
<1> SUFFICES ASSUME IInv, [Next]_vars PROVE IInv'
  OBVIOUS
<1>1. CASE Outage \/ Recover
  BY <1>1, BrokerIInv
<1>2. CASE \E k \in Loop : Step(k)
  <2>1. PICK k \in Loop : Step(k)
    BY <1>2
  <2> QED
    BY <2>1, DeclaredIInv, UnhandledIInv, RefusedIInv, GiveUpIInv, DialIInv DEF Step
<1>3. CASE \E l \in Link : Told(l)
  BY <1>3, NoticedIInv, LateCloseIInv DEF Told
<1>4. CASE Destroy
  BY <1>4, DestroyIInv
<1>5. CASE \E t \in Task : Publish(t) \/ Connected(t) \/ Opened(t)
  BY <1>5, QuietIInv DEF Publish, Connected, Opened
<1>6. CASE UNCHANGED vars
  BY <1>6, QuietIInv DEF vars
<1> QED
  BY <1>1, <1>2, <1>3, <1>4, <1>5, <1>6 DEF Next
----------------------------------------------------------------------------
(* A running backend without a channel is about to get one, is closing or  *)
(* has used up its attempts.                                               *)
THEOREM NeverStrandedAlways == Spec => []NeverStranded
<1>1. IInv => NeverStranded
  BY DEF IInv, FlagTellsTheTruth, NoChannelMeanwhile, NeverStranded, Active
<1> QED
  BY <1>1, InitIInv, NextIInv, PTL DEF Spec

(* reconnecting keeps two runs of connect() from racing each other.        *)
THEOREM NeverTwoLoops == Spec => []OneLoop
<1>1. IInv => OneLoop
  BY DEF IInv
<1> QED
  BY <1>1, InitIInv, NextIInv, PTL DEF Spec

(* Only a late 'close' leaves a connection open that is not in use.        *)
THEOREM LeaksAlwaysStray == Spec => []LeaksAreStrayCloses
<1>1. ASSUME IInv PROVE LeaksAreStrayCloses
  <2> DEFINE L == {l \in Link : link[l] = "open"} \ {channel}
  <2>1. L \subseteq Spare
    BY DEF Spare
  <2>2. Cardinality(L) <= Cardinality(Spare)
    BY <2>1, FS_Subset, LinksAreFinite, SpareLinks
  <2>3. Cardinality(L) \in Nat /\ Cardinality(Spare) \in Nat
    BY <2>1, SpareLinks, LinksAreFinite
  <2> HIDE DEF L
  <2>4. Cardinality(L) <= strays
    BY <1>1, <2>2, <2>3 DEF IInv, TypeInv
  <2> QED
    BY <2>4 DEF LeaksAreStrayCloses, L
<1> QED
  BY <1>1, InitIInv, NextIInv, PTL DEF Spec
----------------------------------------------------------------------------
(* The other publisher: between the connection and the exchange somebody   *)
(* is opening it, or has failed to.                                        *)
States == {"idle", "connecting", "opening", "published", "missing", "failed"}
PublisherInv ==
  /\ task \in [Task -> States]
  /\ connection \in BOOLEAN /\ exchange \in BOOLEAN /\ halfOpen \in BOOLEAN
  /\ connection /\ ~exchange => halfOpen \/ \E t \in Task : task[t] = "opening"

(* Every step keeps it.                                                    *)
LEMMA PublisherStep == PublisherInv /\ [Next]_vars => PublisherInv'
<1> SUFFICES ASSUME PublisherInv, [Next]_vars PROVE PublisherInv'
  OBVIOUS
<1>1. CASE UNCHANGED publisher
  BY <1>1 DEF PublisherInv, publisher
<1>2. ASSUME NEW t \in Task, Publish(t) PROVE PublisherInv'
  BY <1>2 DEF PublisherInv, Publish, States
<1>3. ASSUME NEW t \in Task, Connected(t) PROVE PublisherInv'
  BY <1>3 DEF PublisherInv, Connected, States
<1>4. ASSUME NEW t \in Task, Opened(t) PROVE PublisherInv'
  BY <1>4 DEF PublisherInv, Opened, States
<1>5. \/ UNCHANGED publisher
      \/ \E t \in Task : Publish(t) \/ Connected(t) \/ Opened(t)
  BY DEF Next, vars, Step, Told, Outage, Recover, Dial, Declared, Unhandled, Refused,
         GiveUp, Notice, ErrorFirst, LateClose, Destroy
<1> QED
  BY <1>1, <1>2, <1>3, <1>4, <1>5

(* A publish misses the exchange only while another task opens it, or      *)
(* after opening it has failed.                                            *)
THEOREM MissingAlwaysWhileOpening == Spec => MissingOnlyWhileOpening
<1> DEFINE A == \A t \in Task :
                  task[t] # "missing" /\ task'[t] = "missing" =>
                    halfOpen \/ \E u \in Task \ {t} : task[u] = "opening"
<1>1. Init => PublisherInv
  BY DEF Init, PublisherInv, States
<1>2. PublisherInv /\ [Next]_vars => [A]_vars
  <2> SUFFICES ASSUME PublisherInv, [Next]_vars, NEW t \in Task,
                      task[t] # "missing", task'[t] = "missing"
               PROVE  halfOpen \/ \E u \in Task \ {t} : task[u] = "opening"
    OBVIOUS
  <2>1. task' # task
    OBVIOUS
  <2>2. \E u \in Task : Publish(u) \/ Connected(u) \/ Opened(u)
    BY <2>1 DEF Next, vars, publisher, Step, Told, Outage, Recover, Dial, Declared,
           Unhandled, Refused, GiveUp, Notice, ErrorFirst, LateClose, Destroy
  <2>3. task[t] # "opening" /\ connection /\ ~exchange
    BY <2>2 DEF PublisherInv, Publish, Connected, Opened
  <2> QED
    BY <2>3 DEF PublisherInv
<1>3. PublisherInv /\ [Next]_vars => PublisherInv'
  BY PublisherStep
<1> HIDE DEF A
<1>4. Spec => [][A]_vars
  BY <1>1, <1>2, <1>3, PTL DEF Spec
<1> QED
  BY <1>4 DEF A, MissingOnlyWhileOpening

(* The fields and the control state of both clients keep their types.      *)
THEOREM BrokerTypesAlways == Spec => []BrokerTypeOK
<1> DEFINE T == up \in BOOLEAN /\ outages \in 0 .. MaxOutages
<1>1. Init => T /\ IInv /\ PublisherInv
  <2>1. Init => T
    BY BrokerAssumption DEF Init
  <2>2. Init => PublisherInv
    BY DEF Init, PublisherInv, States
  <2> QED
    BY <2>1, <2>2, InitIInv
<1>2. T /\ [Next]_vars => T'
  <2>1. ASSUME T, Outage \/ Recover PROVE T'
    <3>1. \/ up' = FALSE /\ outages' = outages + 1 /\ outages < MaxOutages
          \/ up' = TRUE /\ outages' = outages
      BY <2>1 DEF Outage, Recover
    <3>2. up' \in BOOLEAN
      BY <3>1
    <3>3. outages' \in 0 .. MaxOutages
      BY <2>1, <3>1, BrokerAssumption
    <3> QED
      BY <3>2, <3>3
  <2>2. [Next]_vars => (Outage \/ Recover) \/ UNCHANGED <<up, outages>>
    <3>1. \A k \in Loop : Step(k) => UNCHANGED <<up, outages>>
      BY DEF Step, Dial, Declared, Unhandled, Refused, GiveUp
    <3>2. \A l \in Link : Told(l) => UNCHANGED <<up, outages>>
      BY DEF Told, Notice, ErrorFirst, LateClose
    <3>3. Destroy => UNCHANGED <<up, outages>>
      BY DEF Destroy
    <3>4. \A t \in Task : Publish(t) \/ Connected(t) \/ Opened(t) => UNCHANGED <<up, outages>>
      BY DEF Publish, Connected, Opened
    <3> QED
      BY <3>1, <3>2, <3>3, <3>4 DEF Next, vars
  <2> QED
    BY <2>1, <2>2, BrokerAssumption
<1>3. T /\ IInv /\ PublisherInv => BrokerTypeOK
  BY DEF IInv, TypeInv, Run, PublisherInv, States, BrokerTypeOK
<1> QED
  BY <1>1, <1>2, <1>3, NextIInv, PublisherStep, PTL DEF Spec
============================================================================
