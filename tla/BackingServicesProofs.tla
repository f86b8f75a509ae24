------------------------ MODULE BackingServicesProofs -----------------------
(***************************************************************************)
(* Proofs about the cache and the health probes, for any number of calls,   *)
(* probes, retries and outages: nobody waits for a client that has given    *)
(* up, the latch does not outlive the next connection unless a call fell    *)
(* between connect and ready, and no probe vouches for what did not answer. *)
(***************************************************************************)
EXTENDS BackingServices, TLAPS

USE OutagesAssumption, RetriesAssumption

\* What the latch says of a connection that is being made: CacheReady, which
\* does not look at the latch, relies on it.
LatchJustified == CacheStatus \in {"connect", "ready"} /\ connectionFailed => hasty

CacheInv == RedisTypeOK /\ CacheTypeOK /\ HealthTypeOK /\ GivenUp /\ Waiting /\ LatchJustified

\* A step of the cache's client keeps CacheInv.
LEMMA CacheEventLemma == CacheInv /\ Cache(CacheEvent) => CacheInv'
<1>. SUFFICES ASSUME CacheInv, Cache(CacheEvent) PROVE CacheInv'
  OBVIOUS
<1>. USE DEF CacheInv, Cache, RedisTypeOK, CacheTypeOK, HealthTypeOK, GivenUp, Waiting,
       LatchJustified, CacheStatus, Become, Statuses, Clients, CallStates
<1>1. CASE CacheConnects
  BY <1>1 DEF CacheConnects, Connects, LatchAfterConnect
<1>2. CASE CacheReady
  <2>1. RedisTypeOK' /\ HealthTypeOK'
    BY <1>2 DEF CacheReady, GetsReady
  <2>2. connectionFailed' \in BOOLEAN /\ booting' \in BOOLEAN /\ hasty' \in BOOLEAN
    BY <1>2, Zenon DEF CacheReady, GetsReady
  <2>3. attempts' \in 0 .. MaxRetries + 1 /\ call' \in [CacheCalls -> CallStates]
    BY <1>2 DEF CacheReady, GetsReady
  <2>4. GivenUp' /\ Waiting' /\ LatchJustified'
    BY <1>2 DEF CacheReady, GetsReady
  <2>. QED  BY <2>1, <2>2, <2>3, <2>4
<1>3. CASE CacheCloses
  <2>1. RedisTypeOK' /\ HealthTypeOK'
    BY <1>3 DEF CacheCloses, Closing, LatchAfterClose, CallersLatch, GivesUp
  <2>2. connectionFailed' \in BOOLEAN /\ booting' \in BOOLEAN /\ hasty' \in BOOLEAN
    BY <1>3, Zenon DEF CacheCloses, Closing, LatchAfterClose, CallersLatch, GivesUp
  <2>3. attempts' \in 0 .. MaxRetries + 1 /\ call' \in [CacheCalls -> CallStates]
    BY <1>3 DEF CacheCloses, Closing, LatchAfterClose, CallersLatch, GivesUp
  <2>4. GivenUp' /\ Waiting' /\ LatchJustified'
    BY <1>3 DEF CacheCloses, Closing, LatchAfterClose, CallersLatch, GivesUp
  <2>. QED  BY <2>1, <2>2, <2>3, <2>4
<1>4. CASE CacheReconnects
  BY <1>4 DEF CacheReconnects, cacheVars
<1>. QED  BY <1>1, <1>2, <1>3, <1>4 DEF CacheEvent

\* So does a call, which may disable the cache while it is being connected.
LEMMA CallLemma ==
  ASSUME CacheInv, NEW k \in CacheCalls, Cache(Call(k) \/ CallStep(k))
  PROVE  CacheInv'
<1>. USE DEF CacheInv, Cache, RedisTypeOK, CacheTypeOK, HealthTypeOK, GivenUp, Waiting,
       LatchJustified, CacheStatus, Become, Statuses, Clients, CallStates, At
<1>1. CASE Call(k)
  <2>1. RedisTypeOK' /\ HealthTypeOK'
    BY <1>1 DEF Call
  <2>2. connectionFailed' \in BOOLEAN /\ booting' \in BOOLEAN /\ hasty' \in BOOLEAN
    BY <1>1, Zenon DEF Call
  <2>3. attempts' \in 0 .. MaxRetries + 1 /\ call' \in [CacheCalls -> CallStates]
    BY <1>1 DEF Call
  <2>4. CASE CacheStatus = "ready"
    BY <1>1, <2>1, <2>2, <2>3, <2>4 DEF Call
  <2>5. CASE CacheStatus \in {"connecting", "connect"}
    <3>1. hasty' = (hasty \/ CacheStatus = "connect") /\ status' = status /\ call' = call
      BY <1>1, <2>5 DEF Call
    <3>2. GivenUp' /\ Waiting' /\ LatchJustified'
      BY <1>1, <2>5, <3>1 DEF Call
    <3>. QED  BY <2>1, <2>2, <2>3, <3>2
  <2>6. CASE CacheStatus = "reconnecting"
    BY <1>1, <2>1, <2>2, <2>3, <2>6 DEF Call
  <2>. QED  BY <1>1, <2>4, <2>5, <2>6 DEF Call
<1>2. CASE TimeOut(k)
  BY <1>2 DEF TimeOut
<1>3. CASE PingReply(k)
  BY <1>3 DEF PingReply
<1>4. CASE CommandReply(k)
  BY <1>4 DEF CommandReply
<1>. QED  BY <1>1, <1>2, <1>3, <1>4 DEF CallStep

\* The health check's client and its probes leave the cache alone.
LEMMA HealthLemma ==
  ASSUME CacheInv, Health(HealthEvent) \/ \E p \in Probes : Health(BeginProbe(p) \/ ProbeStep(p))
  PROVE  CacheInv'
<1>. USE DEF CacheInv, Health, RedisTypeOK, CacheTypeOK, HealthTypeOK, GivenUp, Waiting,
       LatchJustified, CacheStatus, Become, Statuses, Clients, cacheVars
<1>1. CASE Health(HealthEvent)
  <2>1. CASE (Connects("health") \/ GetsReady("health")) /\ UNCHANGED probe
    BY <1>1, <2>1 DEF Connects, GetsReady
  <2>2. CASE HealthCloses
    BY <1>1, <2>2 DEF HealthCloses, Closing
  <2>. QED  BY <1>1, <2>1, <2>2 DEF HealthEvent
<1>2. ASSUME NEW p \in Probes, Health(BeginProbe(p) \/ ProbeStep(p)) PROVE CacheInv'
  <2>1. CASE BeginProbe(p)
    BY <1>2, <2>1 DEF BeginProbe, Databases
  <2>2. CASE CheckDatabase(p)
    BY <1>2, <2>2 DEF CheckDatabase, Databases
  <2>3. CASE SendPing(p)
    BY <1>2, <2>3 DEF SendPing
  <2>4. CASE PingAnswered(p)
    BY <1>2, <2>4 DEF PingAnswered, Databases
  <2>5. CASE Respond(p)
    BY <1>2, <2>5 DEF Respond, NoProbe
  <2>. QED  BY <1>2, <2>1, <2>2, <2>3, <2>4, <2>5 DEF ProbeStep
<1>. QED  BY <1>1, <1>2

\* The databases, and a new process.
LEMMA EnvironmentLemma == CacheInv /\ (Environment \/ Restart) => CacheInv'
<1>. SUFFICES ASSUME CacheInv, Environment \/ Restart PROVE CacheInv'
  OBVIOUS
<1>. USE DEF CacheInv, RedisTypeOK, CacheTypeOK, HealthTypeOK, GivenUp, Waiting,
       LatchJustified, CacheStatus, Statuses, Clients, CallStates
<1>1. CASE Environment
  BY <1>1 DEF Environment, GoDown, ComeUp, cacheVars, NoProbe, Databases
<1>2. CASE Restart
  <2>1. RedisTypeOK' /\ HealthTypeOK'
    BY <1>2 DEF Restart, Constructed, CacheRestarted, HealthRestarted, NoProbe
  <2>2. connectionFailed' \in BOOLEAN /\ booting' \in BOOLEAN /\ hasty' \in BOOLEAN
    BY <1>2, Zenon DEF Restart, Constructed, CacheRestarted, HealthRestarted, NoProbe
  <2>3. attempts' \in 0 .. MaxRetries + 1 /\ call' \in [CacheCalls -> CallStates]
    BY <1>2 DEF Restart, Constructed, CacheRestarted, HealthRestarted, NoProbe
  <2>4. GivenUp' /\ Waiting' /\ LatchJustified'
    BY <1>2 DEF Restart, Constructed, CacheRestarted, HealthRestarted, NoProbe
  <2>. QED  BY <2>1, <2>2, <2>3, <2>4
<1>. QED  BY <1>1, <1>2

LEMMA BackingStepLemma == CacheInv /\ [BackingNext]_backingVars => CacheInv'
<1>. SUFFICES ASSUME CacheInv, [BackingNext]_backingVars PROVE CacheInv'
  OBVIOUS
<1>1. CASE UNCHANGED backingVars
  BY <1>1 DEF backingVars, cacheVars, CacheInv, RedisTypeOK, CacheTypeOK, HealthTypeOK, GivenUp,
       Waiting, LatchJustified, CacheStatus
<1>2. CASE BackingNext
  BY <1>2, CacheEventLemma, CallLemma, HealthLemma, EnvironmentLemma DEF BackingNext, ClientStep
<1>. QED  BY <1>1, <1>2

LEMMA BackingInitLemma == BackingInit => CacheInv
<1>. SUFFICES ASSUME BackingInit PROVE CacheInv
  OBVIOUS
<1>1. RedisTypeOK /\ HealthTypeOK
  BY DEF BackingInit, RedisTypeOK, HealthTypeOK, Constructed, Statuses, Clients, HealthStarted,
       NoProbe
<1>2. CacheTypeOK
  <2>1. connectionFailed \in BOOLEAN /\ booting \in BOOLEAN /\ hasty \in BOOLEAN
    BY Zenon DEF BackingInit, CacheStarted
  <2>2. attempts \in 0 .. MaxRetries + 1 /\ call \in [CacheCalls -> CallStates]
    BY DEF BackingInit, CacheStarted, CallStates
  <2>. QED  BY <2>1, <2>2 DEF CacheTypeOK
<1>3. GivenUp /\ Waiting /\ LatchJustified
  BY DEF BackingInit, GivenUp, Waiting, LatchJustified, CacheStatus, Constructed, CacheStarted
<1>. QED  BY <1>1, <1>2, <1>3 DEF CacheInv

\* Whoever waits has something to wait for, in every state the process and its
\* databases can be in (ensureConnection, retryStrategy).
THEOREM BackingInvHolds == BackingSpec => []BackingInv
<1>1. CacheInv => BackingInv
  BY DEF CacheInv, BackingInv
<1>. QED  BY <1>1, BackingInitLemma, BackingStepLemma, PTL DEF BackingSpec

\* A ready cache is disabled only by a call that fell between connect and ready:
\* the connect handler clears every earlier failure.
THEOREM ReadyCacheIsUsable == BackingSpec => []UsableWhenReady
<1>1. CacheInv => UsableWhenReady
  BY DEF CacheInv, LatchJustified, UsableWhenReady
<1>. QED  BY <1>1, BackingInitLemma, BackingStepLemma, PTL DEF BackingSpec

-----------------------------------------------------------------------------
(* The probes *)

\* A check that succeeded saw its database answer, and what answers now has
\* been seen.
ProbesHonest ==
  \A p \in Probes : probe[p].pc # "idle" => probe[p].ok \subseteq probe[p].seen /\ up \subseteq probe[p].seen

\* No step makes a probe vouch for more than it has seen.
LEMMA HonestLemma ==
  CacheInv /\ ProbesHonest /\ [BackingNext]_backingVars => ProbesHonest'
<1>. SUFFICES ASSUME CacheInv, ProbesHonest, [BackingNext]_backingVars PROVE ProbesHonest'
  OBVIOUS
<1>. USE DEF CacheInv, ProbesHonest, HealthTypeOK
<1>1. CASE probe' = probe /\ up' = up
  BY <1>1
<1>2. CASE Health(HealthCloses)
  BY <1>2 DEF Health, HealthCloses
<1>3. ASSUME NEW p \in Probes, Health(BeginProbe(p) \/ ProbeStep(p)) PROVE ProbesHonest'
  <2>. USE DEF Health
  <2>1. CASE BeginProbe(p)
    BY <1>3, <2>1 DEF BeginProbe
  <2>2. CASE CheckDatabase(p)
    BY <1>3, <2>2 DEF CheckDatabase
  <2>3. CASE SendPing(p)
    BY <1>3, <2>3 DEF SendPing
  <2>4. CASE PingAnswered(p)
    BY <1>3, <2>4 DEF PingAnswered, Answers
  <2>5. CASE Respond(p)
    BY <1>3, <2>5 DEF Respond, NoProbe
  <2>. QED  BY <1>3, <2>1, <2>2, <2>3, <2>4, <2>5 DEF ProbeStep
<1>4. CASE Environment
  BY <1>4 DEF Environment, GoDown, ComeUp, NoProbe
<1>5. CASE Restart
  BY <1>5 DEF Restart, HealthRestarted, NoProbe
<1>. QED  BY <1>1, <1>2, <1>3, <1>4, <1>5
       DEF BackingNext, ClientStep, Cache, Health, HealthEvent, backingVars

\* The readiness probe says ok only of databases that answered while it ran
\* (checkReady), however they come and go.
THEOREM ReadyIsTrue == BackingSpec => []ReadyTrue
<1>1. BackingInit => ProbesHonest
  BY DEF BackingInit, HealthStarted, NoProbe, ProbesHonest
<1>2. CacheInv /\ ProbesHonest => ReadyTrue
  BY DEF CacheInv, HealthTypeOK, ProbesHonest, ReadyTrue, AllHealthy
<1>. QED  BY <1>1, <1>2, BackingInitLemma, BackingStepLemma, HonestLemma, PTL DEF BackingSpec
=============================================================================
