----------------------------- MODULE TokenCache -----------------------------
(***************************************************************************)
(* KeycloakTokenService, the cache of one service's access token.  Two     *)
(* implementations: the backend coalesces concurrent callers into one      *)
(* in-flight promise; the ticket-agent and the mcp-server take an          *)
(* asyncio.Lock and check the cache again inside.  A behaviour is one      *)
(* service with either of them, chosen initially.                          *)
(*                                                                         *)
(* Time is counted in ticks.  A token is known by the tick at which        *)
(* Keycloak will consider it expired; 0 is no token.                       *)
(***************************************************************************)
EXTENDS Integers, Sequences

CONSTANTS
  Callers,    \* concurrent getToken calls
  Lifetime,   \* expires_in of a token
  Buffer,     \* REFRESH_BUFFER_SECONDS
  Delay,      \* ticks after which httpx's timeouts have ended a token request
  MaxTime     \* bound: the clock

ASSUME TokenAssumption ==
  Lifetime \in Nat \ {0} /\ Buffer \in Nat /\ Delay \in Nat /\ MaxTime \in Nat

VARIABLES
  impl,       \* "promise" (backend) or "lock" (ticket-agent, mcp-server)
  now,        \* the clock
  cache,      \* accessToken and expiresAt
  requests,   \* token requests in flight; token is 0 until Keycloak issued it
  lock,       \* the caller inside the lock, as a set
  queue,      \* callers waiting for the lock, in order
  pc          \* what each caller is doing

tokenVars == <<impl, now, cache, requests, lock, queue, pc>>

CallerPc == {"idle", "queued", "requesting", "awaiting", "got", "failed"}
Cache    == [token : Nat, expiresAt : Nat]
Requests == [by : Callers, start : Nat, token : Nat]

TokenInit ==
  /\ impl \in {"promise", "lock"}
  /\ now = 0 /\ cache = [token |-> 0, expiresAt |-> 0]
  /\ requests = {} /\ lock = {} /\ queue = << >>
  /\ pc = [c \in Callers |-> "idle"]

(* The test at the head of getToken, and again inside the lock.            *)
Fresh == cache.token # 0 /\ now + Buffer < cache.expiresAt

Becomes(c, state) == pc' = [pc EXCEPT ![c] = state]

(* fetchNewToken starts: the assertion is signed and posted.               *)
Send(c) == requests' = requests \cup {[by |-> c, start |-> now, token |-> 0]}

GetCached(c) ==
  /\ pc[c] = "idle" /\ Fresh
  /\ Becomes(c, "got")
  /\ UNCHANGED <<impl, now, cache, requests, lock, queue>>

(* Backend: the first caller starts the request, all of them await it.     *)
AwaitShared(c) ==
  /\ impl = "promise" /\ pc[c] = "idle" /\ ~Fresh
  /\ IF requests = {} THEN Send(c) ELSE UNCHANGED requests
  /\ Becomes(c, "awaiting")
  /\ UNCHANGED <<impl, now, cache, lock, queue>>

(* Python services: the lock is free and is taken without a pause ...      *)
TakeLock(c) ==
  /\ impl = "lock" /\ pc[c] = "idle" /\ ~Fresh
  /\ lock = {} /\ queue = << >>
  /\ lock' = {c} /\ Send(c) /\ Becomes(c, "requesting")
  /\ UNCHANGED <<impl, now, cache, queue>>

(* ... or the caller joins those who wait for it.                          *)
WaitForLock(c) ==
  /\ impl = "lock" /\ pc[c] = "idle" /\ ~Fresh
  /\ lock # {} \/ queue # << >>
  /\ queue' = Append(queue, c) /\ Becomes(c, "queued")
  /\ UNCHANGED <<impl, now, cache, requests, lock>>

(* Mutant: no second look at the cache.                                    *)
EnterBlindly(c) ==
  /\ lock = {} /\ queue # << >> /\ c = Head(queue)
  /\ queue' = Tail(queue)
  /\ lock' = {c} /\ Send(c) /\ Becomes(c, "requesting")
  /\ UNCHANGED <<impl, now, cache>>

(* The next waiter enters the lock and checks the cache again.             *)
EnterLock(c) ==
  /\ lock = {} /\ queue # << >> /\ c = Head(queue)
  /\ queue' = Tail(queue)
  /\ \/ Fresh /\ Becomes(c, "got") /\ UNCHANGED <<lock, requests>>
     \/ ~Fresh /\ lock' = {c} /\ Send(c) /\ Becomes(c, "requesting")
  /\ UNCHANGED <<impl, now, cache>>

(* Keycloak issues the token.                                              *)
Issue(r) ==
  /\ r.token = 0
  /\ requests' = (requests \ {r}) \cup {[r EXCEPT !.token = now + Lifetime]}
  /\ UNCHANGED <<impl, now, cache, lock, queue, pc>>

(* Those whose call ends with the request.                                 *)
Waiting(r) == {c \in Callers : c = r.by \/ pc[c] = "awaiting"}

Resolves(r, state) ==
  /\ requests' = requests \ {r}
  /\ pc' = [c \in Callers |-> IF c \in Waiting(r) THEN state ELSE pc[c]]

(* Mutant: the backend, too, counts from the arrival of the answer.        *)
ExpiresLate(r) == now + Lifetime

(* Mutant: the arguments of the sum are taken for those of a difference.   *)
ExpiresBackwards(r) == Lifetime - (IF impl = "promise" THEN r.start ELSE now)

(* When the cache takes the token to expire: the backend counts from       *)
(* before its request, the Python services from the arrival of the answer. *)
ExpiresAt(r) == (IF impl = "promise" THEN r.start ELSE now) + Lifetime

(* The answer arrives: the cache is set and the callers return.            *)
Receive(r) ==
  /\ r.token # 0
  /\ cache' = [token |-> r.token, expiresAt |-> ExpiresAt(r)]
  /\ Resolves(r, "got")
  /\ lock' = {}
  /\ UNCHANGED <<impl, now, queue>>

(* Mutant: the lock is only released on success.                           *)
RejectKeepsLock(r) ==
  /\ Resolves(r, "failed")
  /\ UNCHANGED <<impl, now, cache, lock, queue>>

(* The request fails, before or after Keycloak issued a token: its callers *)
(* fail, the lock is released, the promise is forgotten.                   *)
Reject(r) ==
  /\ Resolves(r, "failed")
  /\ lock' = {}
  /\ UNCHANGED <<impl, now, cache, queue>>

(* The caller uses the token, or passes its error on, and may ask again.   *)
Return(c) ==
  /\ pc[c] \in {"got", "failed"}
  /\ Becomes(c, "idle")
  /\ UNCHANGED <<impl, now, cache, requests, lock, queue>>

(* Time passes.  An httpx request does not outlive its timeouts; the       *)
(* backend's fetch has none.                                               *)
Tick ==
  /\ now < MaxTime
  /\ impl = "lock" => \A r \in requests : now < r.start + Delay
  /\ now' = now + 1
  /\ UNCHANGED <<impl, cache, requests, lock, queue, pc>>

GetToken(c) ==
  \/ GetCached(c) \/ AwaitShared(c)
  \/ TakeLock(c) \/ WaitForLock(c) \/ EnterLock(c)

TokenNext ==
  \/ \E c \in Callers : GetToken(c) \/ Return(c)
  \/ \E r \in requests : Issue(r) \/ Receive(r) \/ Reject(r)
  \/ Tick

TokenSpec == TokenInit /\ [][TokenNext]_tokenVars

(* A waiter whose turn it is runs; a request is answered or fails.         *)
TokenFairSpec ==
  /\ TokenSpec
  /\ WF_tokenVars(\E c \in Callers : EnterLock(c))
  /\ WF_tokenVars(\E r \in requests : Issue(r) \/ Receive(r) \/ Reject(r))
----------------------------------------------------------------------------
(* Types of the clock, the cache, the requests and the callers.            *)
TokenTypeOK ==
  /\ impl \in {"promise", "lock"}
  /\ now \in Nat
  /\ cache \in Cache
  /\ requests \subseteq Requests
  /\ lock \subseteq Callers
  /\ queue \in Seq(Callers)
  /\ pc \in [Callers -> CallerPc]

(* How much later than Keycloak a cache may believe its token to expire.   *)
Slack == IF impl = "promise" THEN 0 ELSE Delay

(* A token served from the cache has the whole refresh buffer left before  *)
(* Keycloak lets it expire; with the lock, less the time a token request   *)
(* may take, because that cache starts counting when the answer arrives.   *)
CachedTokensAreLive == Fresh => now + Buffer < cache.token + Slack

(* A cached token is replaced only by one issued when its term was over:   *)
(* callers that meet an expired cache together cost one round trip, also   *)
(* those that waited for the lock while another one fetched.               *)
TermIsUsed ==
  [][cache' # cache /\ cache.token # 0 =>
       cache'.token + Buffer >= cache.expiresAt + Lifetime]_tokenVars

(* Whoever asks for a token gets one or an error; a failed request neither *)
(* keeps the lock nor leaves its promise behind for others to hang on.     *)
CallersReturn ==
  \A c \in Callers :
    pc[c] \in {"queued", "requesting", "awaiting"} ~> pc[c] \in {"got", "failed"}
=============================================================================
