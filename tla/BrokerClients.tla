--------------------------- MODULE BrokerClients ---------------------------
(***************************************************************************)
(* The two publishers of the system and a broker that goes away and comes  *)
(* back: RabbitMQService of the backend, which connects at boot and        *)
(* reconnects on the events of its connection, and RabbitMQPublisher of    *)
(* the architect-agent, which connects when it first has something to      *)
(* publish and leaves reconnecting to aio_pika.                            *)
(***************************************************************************)
EXTENDS Naturals, FiniteSets

CONSTANTS
  Link,         \* connections amqplib can hold at a time
  Loop,         \* runs of connect() that can be under way at a time
  Task,         \* tasks of the architect-agent that publish
  None,         \* no connection: null
  MaxAttempts,  \* maxAttempts (10), a small number here
  MaxOutages    \* bound: outages of the broker

ASSUME BrokerAssumption ==
  /\ None \notin Link /\ IsFiniteSet(Link) /\ Loop # {}
  /\ MaxAttempts \in Nat \ {0} /\ MaxOutages \in Nat

VARIABLES
  up,           \* whether the broker takes connections
  outages,      \* outages so far (bounded)
  life,         \* the backend: booting, running or exited
  loops,        \* runs of connect(): the attempt, 0 for none, and its connection
  link,         \* the stage of each connection of the backend
  channel,      \* connection and channel, which are set and cleared together
  reconnecting,
  closing,
  gaveUp,       \* history: the last run of connect() gave up
  strays,       \* history: late events 'close' that cleared a newer channel
  task,         \* where each task of the architect-agent is in publish()
  connection,   \* _connection is set
  exchange,     \* _exchange is set
  halfOpen      \* history: opening the channel or the exchange failed

backend   == <<life, loops, link, channel, reconnecting, closing, gaveUp, strays>>
publisher == <<task, connection, exchange, halfOpen>>
vars == <<up, outages, backend, publisher>>

(* A connection has its two handlers from "open" on.  It is torn or broken *)
(* when the broker is gone and the client has not been told, half when its *)
(* 'error' has been emitted and its 'close' has not.                       *)
Stage == {"none", "declaring", "torn", "open", "broken", "half"}
Idle  == [attempt |-> 0, conn |-> None]
Start == [attempt |-> 1, conn |-> None]

Init ==
  /\ up \in BOOLEAN
  /\ outages = 0
  /\ life = "booting"
  /\ \E k \in Loop : loops = [j \in Loop |-> IF j = k THEN Start ELSE Idle]
  /\ link = [l \in Link |-> "none"]
  /\ channel = None
  /\ reconnecting = FALSE /\ closing = FALSE
  /\ gaveUp = FALSE /\ strays = 0
  /\ task = [t \in Task |-> "idle"]
  /\ connection = FALSE /\ exchange = FALSE /\ halfOpen = FALSE
----------------------------------------------------------------------------
(* The broker.                                                             *)
Severed == [declaring |-> "torn", open |-> "broken"]

Outage ==
  /\ up /\ outages < MaxOutages
  /\ up' = FALSE /\ outages' = outages + 1
  /\ link' = [l \in Link |->
                IF link[l] \in DOMAIN Severed THEN Severed[link[l]] ELSE link[l]]
  /\ UNCHANGED <<life, loops, channel, reconnecting, closing, gaveUp, strays, publisher>>

Recover ==
  /\ ~up /\ up' = TRUE
  /\ UNCHANGED <<outages, backend, publisher>>
----------------------------------------------------------------------------
(* connect(), one attempt after the other.                                 *)
Trying(k) == life # "exited" /\ loops[k].attempt > 0

Dial(k, l) ==
  /\ Trying(k) /\ loops[k].conn = None /\ up
  /\ link[l] = "none"
  /\ link' = [link EXCEPT ![l] = "declaring"]
  /\ loops' = [loops EXCEPT ![k].conn = l]
  /\ UNCHANGED <<up, outages, life, channel, reconnecting, closing, gaveUp, strays, publisher>>

(* Mutant: the flag of the reconnect stays up.                             *)
DeclaredInSilence(k) ==
  /\ Trying(k) /\ loops[k].conn # None
  /\ link[loops[k].conn] = "declaring"
  /\ link' = [link EXCEPT ![loops[k].conn] = "open"]
  /\ channel' = loops[k].conn
  /\ loops' = [loops EXCEPT ![k] = Idle]
  /\ life' = "running"
  /\ gaveUp' = FALSE
  /\ UNCHANGED <<up, outages, reconnecting, closing, strays, publisher>>

(* The exchange, the queue and the binding are there: the handlers are     *)
(* registered and the channel is put to use.                               *)
Declared(k) ==
  /\ Trying(k) /\ loops[k].conn # None
  /\ link[loops[k].conn] = "declaring"
  /\ link' = [link EXCEPT ![loops[k].conn] = "open"]
  /\ channel' = loops[k].conn
  /\ loops' = [loops EXCEPT ![k] = Idle]
  /\ reconnecting' = FALSE
  /\ life' = "running"
  /\ gaveUp' = FALSE
  /\ UNCHANGED <<up, outages, closing, strays, publisher>>

(* The connection breaks before it has an 'error' handler, and amqplib     *)
(* emits one: an 'error' that nobody listens to ends the process.          *)
Unhandled(k) ==
  /\ Trying(k) /\ loops[k].conn # None
  /\ link[loops[k].conn] = "torn"
  /\ life' = "exited"
  /\ UNCHANGED <<up, outages, loops, link, channel, reconnecting, closing, gaveUp,
                 strays, publisher>>

(* What connect() catches: nobody takes the connection, or it breaks while *)
(* a call is pending on it, which is rejected.                             *)
AttemptFails(k) ==
  LET c == loops[k].conn IN
  \/ c = None /\ ~up /\ UNCHANGED link
  \/ c # None /\ link[c] = "torn" /\ link' = [link EXCEPT ![c] = "none"]

NextAttempt(k) == [attempt |-> loops[k].attempt + 1, conn |-> None]

(* Mutant: the attempts are counted and not compared.                      *)
RefusedAgain(k) ==
  /\ Trying(k) /\ AttemptFails(k)
  /\ loops[k].attempt <= MaxAttempts
  /\ loops' = [loops EXCEPT ![k] = NextAttempt(k)]
  /\ UNCHANGED <<up, outages, life, channel, reconnecting, closing, gaveUp, strays,
                 publisher>>

(* The attempt fails, and after a pause another one begins.                *)
Refused(k) ==
  /\ Trying(k) /\ AttemptFails(k)
  /\ loops[k].attempt < MaxAttempts
  /\ loops' = [loops EXCEPT ![k] = NextAttempt(k)]
  /\ UNCHANGED <<up, outages, life, channel, reconnecting, closing, gaveUp, strays,
                 publisher>>

(* The last attempt throws: out of onModuleInit, which ends the boot, or   *)
(* into the catch of handleDisconnect.                                     *)
GiveUp(k) ==
  /\ Trying(k) /\ AttemptFails(k)
  /\ loops[k].attempt = MaxAttempts
  /\ loops' = [loops EXCEPT ![k] = Idle]
  /\ gaveUp' = TRUE
  /\ IF life = "booting"
       THEN life' = "exited" /\ UNCHANGED reconnecting
       ELSE reconnecting' = FALSE /\ UNCHANGED life
  /\ UNCHANGED <<up, outages, channel, closing, strays, publisher>>
----------------------------------------------------------------------------
(* Mutant: every event of a connection starts a run of connect().          *)
ReconnectAnyway ==
  /\ channel' = None
  /\ IF closing
       THEN UNCHANGED <<loops, reconnecting, gaveUp>>
       ELSE /\ reconnecting' = TRUE /\ gaveUp' = FALSE
            /\ \E k \in Loop : loops[k].attempt = 0 /\ loops' = [loops EXCEPT ![k] = Start]

(* Mutant: the flag is never raised again once it was.                     *)
ForgetToReconnect ==
  /\ channel' = None
  /\ reconnecting' = ~closing
  /\ UNCHANGED <<loops, gaveUp>>

(* handleDisconnect, whichever connection the event came from.             *)
HandleDisconnect ==
  /\ channel' = None
  /\ IF closing \/ reconnecting
       THEN UNCHANGED <<loops, reconnecting, gaveUp>>
       ELSE /\ reconnecting' = TRUE /\ gaveUp' = FALSE
            /\ \E k \in Loop : loops[k].attempt = 0 /\ loops' = [loops EXCEPT ![k] = Start]

Running == life = "running"

(* amqplib emits 'error' and then 'close', usually in one go; it emits     *)
(* 'close' alone when the broker takes its leave.                          *)
Notice(l) ==
  /\ Running /\ link[l] = "broken"
  /\ link' = [link EXCEPT ![l] = "none"]
  /\ HandleDisconnect
  /\ UNCHANGED <<up, outages, life, closing, strays, publisher>>

(* The 'close' waits for an answer of the broker, or for the socket.       *)
ErrorFirst(l) ==
  /\ Running /\ link[l] = "broken"
  /\ link' = [link EXCEPT ![l] = "half"]
  /\ HandleDisconnect
  /\ UNCHANGED <<up, outages, life, closing, strays, publisher>>

LateClose(l) ==
  /\ Running /\ link[l] = "half"
  /\ link' = [link EXCEPT ![l] = "none"]
  /\ HandleDisconnect
  /\ strays' = IF channel = None THEN strays ELSE strays + 1
  /\ UNCHANGED <<up, outages, life, closing, publisher>>

(* onModuleDestroy, which Nest runs when the application is closed.  The   *)
(* 'close' of the connection finds the flag set.                           *)
Destroy ==
  /\ Running /\ ~closing
  /\ closing' = TRUE
  /\ channel' = None
  /\ link' = IF channel = None THEN link ELSE [link EXCEPT ![channel] = "none"]
  /\ UNCHANGED <<up, outages, life, loops, reconnecting, gaveUp, strays, publisher>>
----------------------------------------------------------------------------
(* Mutant: the field is set before the connection is there.                *)
PublishEagerly(t) ==
  /\ task[t] \notin {"connecting", "opening"}
  /\ task' = [task EXCEPT ![t] =
                IF ~connection THEN "connecting"
                ELSE IF ~exchange THEN "missing"
                ELSE IF up THEN "published" ELSE "failed"]
  /\ connection' = TRUE
  /\ UNCHANGED <<up, outages, backend, exchange, halfOpen>>

(* publish() of RabbitMQPublisher up to its first await.  is_closed is     *)
(* never true of a robust connection, which nobody closes.                 *)
Publish(t) ==
  /\ task[t] \notin {"connecting", "opening"}
  /\ task' = [task EXCEPT ![t] =
                IF ~connection THEN "connecting"
                ELSE IF ~exchange THEN "missing"
                ELSE IF up THEN "published" ELSE "failed"]
  /\ UNCHANGED <<up, outages, backend, connection, exchange, halfOpen>>

Connected(t) ==
  /\ task[t] = "connecting"
  /\ task' = [task EXCEPT ![t] = IF up THEN "opening" ELSE "failed"]
  /\ connection' = (connection \/ up)
  /\ UNCHANGED <<up, outages, backend, exchange, halfOpen>>

(* The channel and the exchange, awaited one after the other; then the     *)
(* message is published.                                                   *)
Opened(t) ==
  /\ task[t] = "opening"
  /\ task' = [task EXCEPT ![t] = IF up THEN "published" ELSE "failed"]
  /\ exchange' = (exchange \/ up)
  /\ halfOpen' = (halfOpen \/ ~up)
  /\ UNCHANGED <<up, outages, backend, connection>>
----------------------------------------------------------------------------
Step(k) ==
  Declared(k) \/ Unhandled(k) \/ Refused(k) \/ GiveUp(k) \/ \E l \in Link : Dial(k, l)
Told(l) == Notice(l) \/ ErrorFirst(l) \/ LateClose(l)

Next ==
  \/ Outage \/ Recover
  \/ \E k \in Loop : Step(k)
  \/ \E l \in Link : Told(l)
  \/ Destroy
  \/ \E t \in Task : Publish(t) \/ Connected(t) \/ Opened(t)

Spec == Init /\ [][Next]_vars
FairSpec ==
  /\ Spec
  /\ \A k \in Loop : WF_vars(Step(k))
  /\ \A l \in Link : WF_vars(Told(l))
----------------------------------------------------------------------------
(* Types of the fields and of the two clients' control state.              *)
BrokerTypeOK ==
  /\ up \in BOOLEAN /\ outages \in 0 .. MaxOutages
  /\ life \in {"booting", "running", "exited"}
  /\ loops \in [Loop -> [attempt : 0 .. MaxAttempts, conn : Link \cup {None}]]
  /\ link \in [Link -> Stage]
  /\ channel \in Link \cup {None}
  /\ reconnecting \in BOOLEAN /\ closing \in BOOLEAN /\ gaveUp \in BOOLEAN
  /\ strays \in Nat
  /\ task \in [Task -> {"idle", "connecting", "opening", "published", "missing", "failed"}]
  /\ connection \in BOOLEAN /\ exchange \in BOOLEAN /\ halfOpen \in BOOLEAN

(* A backend that runs without a channel, and so drops every event it is   *)
(* asked to publish, is on its way to a new one, unless it is shutting     *)
(* down or its ten attempts are used up.                                   *)
NeverStranded ==
  life = "running" /\ channel = None =>
    closing \/ gaveUp \/ \E k \in Loop : loops[k].attempt > 0

(* No more connections are open and not in use than late 'close' events    *)
(* have cleared a newer channel: handleDisconnect does not tell the events *)
(* of an older connection from those of its own, and drops a connection    *)
(* without closing it, but never otherwise.                                *)
LeaksAreStrayCloses ==
  Cardinality({l \in Link : link[l] = "open"} \ {channel}) <= strays

(* A publish fails for want of an exchange only while another task is      *)
(* opening the first one, or after opening it has failed: nothing sets the *)
(* exchange from then on but a second task already under way.              *)
MissingOnlyWhileOpening ==
  [][\A t \in Task :
       task[t] # "missing" /\ task'[t] = "missing" =>
         halfOpen \/ \E u \in Task \ {t} : task[u] = "opening"]_vars

(* Once the broker stays up, the backend comes to hold a channel that      *)
(* works, also when connections broke while they were being set up.  The   *)
(* exceptions: it had used up its attempts, was shut down, or was ended by *)
(* the 'error' of a connection that it was not yet listening to.           *)
Healthy == channel # None /\ link[channel] = "open"
Recovers ==
  <>[]up => <>[](Healthy \/ gaveUp \/ closing \/ life = "exited")
============================================================================
