-------------------------- MODULE TokenCacheProofs --------------------------
(***************************************************************************)
(* What holds of the token caches for every number of callers, lifetime,   *)
(* refresh buffer and request timeout.                                     *)
(***************************************************************************)
EXTENDS TokenCache, TLAPS

USE TokenAssumption

(* At most one token request is in flight, it was sent when the cached     *)
(* token's term was over, and its age bounds what its token can be.        *)
RequestInv ==
  /\ \A p, r \in requests : p = r
  /\ \A r \in requests :
       /\ r.start <= now
       /\ r.token # 0 => r.start + Lifetime <= r.token
       /\ impl = "lock" => now <= r.start + Delay
       /\ cache.token # 0 => r.start + Buffer >= cache.expiresAt

(* The lock is held as long as a request is in flight; the backend has     *)
(* neither the lock nor its queue.                                         *)
LockInv ==
  /\ impl = "promise" => queue = << >>
  /\ impl = "lock" /\ lock = {} => requests = {}

(* The cache never believes a token to live longer than Slack allows.      *)
CacheInv == cache.token # 0 => cache.expiresAt <= cache.token + Slack

TokenInv == TokenTypeOK /\ RequestInv /\ LockInv /\ CacheInv

(* Initially there is neither a token nor a request.                       *)
LEMMA TokenInitInv == TokenInit => TokenInv
  BY DEF TokenInit, TokenInv, TokenTypeOK, RequestInv, LockInv, CacheInv,
         Cache, CallerPc

(* A caller that sends a request does so when none is in flight and the    *)
(* cache is not fresh.                                                     *)
LEMMA SendKeepsInv ==
  ASSUME TokenInv, NEW c \in Callers, ~Fresh, requests = {}, Send(c),
         UNCHANGED <<impl, now, cache>>
  PROVE  RequestInv' /\ requests' \subseteq Requests
  <1>1. requests' = {[by |-> c, start |-> now, token |-> 0]}
    BY DEF Send
  <1>2. now \in Nat /\ cache \in Cache
    BY DEF TokenInv, TokenTypeOK
  <1>3. requests' \subseteq Requests
    BY <1>1, <1>2 DEF Requests
  <1>4. cache.token # 0 => now + Buffer >= cache.expiresAt
    BY <1>2 DEF Fresh, Cache
  <1> QED
    BY <1>1, <1>2, <1>3, <1>4 DEF RequestInv

(* Every step of a caller preserves the invariant.                         *)
LEMMA CallerKeepsInv ==
  ASSUME TokenInv, NEW c \in Callers, GetToken(c) \/ Return(c)
  PROVE  TokenInv'
  <1> USE DEF TokenInv
  <1>0. /\ \A s \in CallerPc : Becomes(c, s) => pc' \in [Callers -> CallerPc]
        /\ {"got", "awaiting", "requesting", "queued", "idle"} \subseteq CallerPc
    BY DEF TokenTypeOK, Becomes, CallerPc
  <1>1. CASE GetCached(c)
    BY <1>0, <1>1 DEF GetCached, TokenTypeOK, RequestInv, LockInv, CacheInv, Slack
  <1>2. CASE AwaitShared(c)
    <2>1. CASE requests = {}
      <3>1. RequestInv' /\ requests' \subseteq Requests
        BY <1>2, <2>1, SendKeepsInv DEF AwaitShared
      <3> QED
        BY <1>0, <1>2, <3>1 DEF AwaitShared, TokenTypeOK, LockInv, CacheInv, Slack
    <2>2. CASE requests # {}
      BY <1>0, <1>2, <2>2
         DEF AwaitShared, TokenTypeOK, RequestInv, LockInv, CacheInv, Slack
    <2> QED
      BY <2>1, <2>2
  <1>3. CASE TakeLock(c)
    <2>1. RequestInv' /\ requests' \subseteq Requests
      BY <1>3, SendKeepsInv DEF TakeLock, LockInv
    <2> QED
      BY <1>0, <1>3, <2>1 DEF TakeLock, TokenTypeOK, LockInv, CacheInv, Slack
  <1>4. CASE WaitForLock(c)
    BY <1>0, <1>4
       DEF WaitForLock, TokenTypeOK, RequestInv, LockInv, CacheInv, Slack
  <1>5. CASE EnterLock(c)
    <2>1. impl = "lock" /\ requests = {}
      BY <1>5 DEF EnterLock, LockInv, TokenTypeOK
    <2>2. queue' \in Seq(Callers)
      BY <1>5 DEF EnterLock, TokenTypeOK
    <2>3. CASE Fresh
      BY <1>0, <1>5, <2>1, <2>2, <2>3
         DEF EnterLock, TokenTypeOK, RequestInv, LockInv, CacheInv, Slack
    <2>4. CASE ~Fresh
      <3>1. RequestInv' /\ requests' \subseteq Requests
        BY <1>5, <2>1, <2>4, SendKeepsInv DEF EnterLock
      <3> QED
        BY <1>0, <1>5, <2>1, <2>2, <2>4, <3>1
           DEF EnterLock, TokenTypeOK, LockInv, CacheInv, Slack
    <2> QED
      BY <2>3, <2>4
  <1>6. CASE Return(c)
    BY <1>0, <1>6 DEF Return, TokenTypeOK, RequestInv, LockInv, CacheInv, Slack
  <1> QED
    BY <1>1, <1>2, <1>3, <1>4, <1>5, <1>6 DEF GetToken

(* Every step of a request preserves the invariant.                        *)
LEMMA RequestKeepsInv ==
  ASSUME TokenInv, NEW r \in requests, Issue(r) \/ Receive(r) \/ Reject(r)
  PROVE  TokenInv'
  <1> USE DEF TokenInv
  <1>1. /\ r \in Requests /\ now \in Nat /\ cache \in Cache
        /\ requests = {r}
    BY DEF TokenTypeOK, RequestInv
  <1>2. \A s \in CallerPc : Resolves(r, s) =>
          pc' \in [Callers -> CallerPc] /\ requests' = {}
    BY <1>1 DEF Resolves, TokenTypeOK
  <1>3. CASE Issue(r)
    <2>1. requests' = {[r EXCEPT !.token = now + Lifetime]}
      BY <1>1, <1>3 DEF Issue
    <2>2. [r EXCEPT !.token = now + Lifetime] \in Requests
      BY <1>1 DEF Requests
    <2>3. RequestInv'
      BY <1>1, <1>3, <2>1 DEF Issue, RequestInv, Requests
    <2> QED
      BY <1>3, <2>1, <2>2, <2>3 DEF Issue, TokenTypeOK, LockInv, CacheInv, Slack
  <1>4. CASE Receive(r)
    <2>1. /\ requests' = {} /\ lock' = {} /\ pc' \in [Callers -> CallerPc]
          /\ cache' = [token |-> r.token, expiresAt |-> ExpiresAt(r)]
          /\ UNCHANGED <<impl, now, queue>>
      BY <1>2, <1>4 DEF Receive, CallerPc
    <2>2. ExpiresAt(r) \in Nat /\ r.token \in Nat
      BY <1>1 DEF ExpiresAt, Requests
    <2>3. ExpiresAt(r) <= r.token + Slack
      BY <1>1, <1>4 DEF Receive, ExpiresAt, Slack, RequestInv, Requests, TokenTypeOK
    <2> QED
      BY <2>1, <2>2, <2>3
         DEF TokenTypeOK, Cache, RequestInv, LockInv, CacheInv, Slack
  <1>5. CASE Reject(r)
    <2>1. /\ requests' = {} /\ lock' = {} /\ pc' \in [Callers -> CallerPc]
          /\ UNCHANGED <<impl, now, cache, queue>>
      BY <1>2, <1>5 DEF Reject, CallerPc
    <2> QED
      BY <2>1 DEF TokenTypeOK, RequestInv, LockInv, CacheInv, Slack
  <1> QED
    BY <1>3, <1>4, <1>5

(* So does the clock: no request of the Python services outlives Delay.    *)
LEMMA TickKeepsInv ==
  ASSUME TokenInv, Tick
  PROVE  TokenInv'
  BY DEF Tick, TokenInv, TokenTypeOK, RequestInv, LockInv, CacheInv, Slack,
         Requests, Cache

(* TokenInv is inductive.                                                  *)
LEMMA TokenStepInv == TokenInv /\ [TokenNext]_tokenVars => TokenInv'
  <1> SUFFICES ASSUME TokenInv, [TokenNext]_tokenVars
               PROVE  TokenInv'
    OBVIOUS
  <1>1. CASE \E c \in Callers : GetToken(c) \/ Return(c)
    BY <1>1, CallerKeepsInv
  <1>2. CASE \E r \in requests : Issue(r) \/ Receive(r) \/ Reject(r)
    BY <1>2, RequestKeepsInv
  <1>3. CASE Tick
    BY <1>3, TickKeepsInv
  <1>4. CASE UNCHANGED tokenVars
    BY <1>4 DEF tokenVars, TokenInv, TokenTypeOK, RequestInv, LockInv, CacheInv,
                Slack
  <1> QED
    BY <1>1, <1>2, <1>3, <1>4 DEF TokenNext

(* The state of the cache, its requests and its callers keeps its type.    *)
THEOREM TokenTypeCorrect == TokenSpec => []TokenTypeOK
  <1>1. TokenInv => TokenTypeOK
    BY DEF TokenInv
  <1> QED
    BY TokenInitInv, TokenStepInv, <1>1, PTL DEF TokenSpec

(* A token served from either cache still has the refresh buffer, less the *)
(* longest token request for the Python services, before it expires.       *)
THEOREM ServedTokensAreLive == TokenSpec => []CachedTokensAreLive
  <1>1. TokenInv => CachedTokensAreLive
    BY DEF TokenInv, CacheInv, CachedTokensAreLive, Fresh, TokenTypeOK, Cache,
           Slack
  <1> QED
    BY TokenInitInv, TokenStepInv, <1>1, PTL DEF TokenSpec

(* However many callers meet an expired cache, one request replaces it:    *)
(* the next token is never issued before the term of the last is over.     *)
THEOREM OneRequestPerTerm == TokenSpec => TermIsUsed
  <1> DEFINE Renewal ==
        cache' # cache /\ cache.token # 0 =>
          cache'.token + Buffer >= cache.expiresAt + Lifetime
  <1>1. TokenInv /\ [TokenNext]_tokenVars => [Renewal]_tokenVars
    <2> SUFFICES ASSUME TokenInv, [TokenNext]_tokenVars, cache' # cache,
                        cache.token # 0
                 PROVE  cache'.token + Buffer >= cache.expiresAt + Lifetime
      OBVIOUS
    <2>1. PICK r \in requests : Receive(r)
      BY DEF TokenNext, tokenVars, GetToken, GetCached, AwaitShared, TakeLock,
             WaitForLock, EnterLock, Return, Issue, Reject, Tick
    <2>2. /\ cache'.token = r.token
          /\ r.start + Lifetime <= r.token
          /\ r.start + Buffer >= cache.expiresAt
      BY <2>1 DEF Receive, TokenInv, RequestInv
    <2> QED
      BY <2>2 DEF TokenInv, TokenTypeOK, Cache, Requests
  <1> QED
    BY TokenInitInv, TokenStepInv, <1>1, PTL DEF TokenSpec, TermIsUsed
=============================================================================
