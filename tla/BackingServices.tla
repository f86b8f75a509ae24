--------------------------- MODULE BackingServices --------------------------
(***************************************************************************)
(* The process and the databases behind it: cache calls and health probes   *)
(* while Redis and PostgreSQL go down and come back and the server restarts. *)
(***************************************************************************)
EXTENDS CacheService, HealthService

backingVars == <<up, outages, status, cacheVars, probe>>

\* The cache connects at once, the health check when it is asked.
Constructed == [cache |-> "connecting", health |-> "wait"]

\* The databases may be down when the process starts.
BackingInit == up \in SUBSET Databases /\ outages = 0 /\ status = Constructed
               /\ CacheStarted /\ HealthStarted

Cache(A) == A /\ UNCHANGED <<up, outages, probe>>
Health(A) == A /\ UNCHANGED <<up, outages, cacheVars>>

\* The probes under way see a database come up.
Environment ==
  /\ \E d \in Databases : GoDown(d) \/ ComeUp(d)
  /\ probe' = [p \in Probes |-> IF probe[p] = NoProbe THEN NoProbe
                                ELSE [probe[p] EXCEPT !.seen = @ \cup up']]
  /\ UNCHANGED <<status, cacheVars>>

\* onModuleDestroy, or a crash, and the constructors again.
Restart ==
  /\ outages < MaxOutages /\ outages' = outages + 1
  /\ status' = Constructed /\ CacheRestarted /\ HealthRestarted
  /\ UNCHANGED up

ClientStep == Cache(CacheEvent) \/ Health(HealthEvent)

BackingNext ==
  \/ ClientStep \/ Environment \/ Restart
  \/ \E k \in CacheCalls : Cache(Call(k) \/ CallStep(k))
  \/ \E p \in Probes : Health(BeginProbe(p) \/ ProbeStep(p))

BackingSpec == BackingInit /\ [][BackingNext]_backingVars

\* Attempts to connect end, timers fire and answers come.  Nobody has to call
\* or probe, and no database has to come back.
FairBackingSpec ==
  /\ BackingSpec
  /\ WF_backingVars(Cache(CacheEvent)) /\ WF_backingVars(Health(HealthEvent))
  /\ \A k \in CacheCalls : WF_backingVars(Cache(CallStep(k)))
  /\ \A p \in Probes : WF_backingVars(Health(ProbeStep(p)))

-----------------------------------------------------------------------------
(* Properties *)

\* A client that has given up is not waited for, and the cache knows it.
GivenUp ==
  /\ CacheStatus = "end" => connectionFailed /\ \A k \in CacheCalls : call[k] = "idle"
  /\ status["health"] = "end" => \A p \in Probes : probe[p].pc # "ping"

\* A call that waits for a connection has one under way, and neither client
\* does what its options exclude.
Waiting ==
  /\ (\E k \in CacheCalls : call[k] = "connecting") \/ booting =>
       CacheStatus \in {"connecting", "connect"}
  /\ CacheStatus # "wait" /\ status["health"] # "reconnecting"

BackingInv == RedisTypeOK /\ CacheTypeOK /\ HealthTypeOK /\ GivenUp /\ Waiting

\* The cache is disabled while its connection is ready only if a call failed
\* between connect and ready: a failed start, a time-out or an outage does not
\* disable it beyond the next connection.
UsableWhenReady == CacheStatus = "ready" /\ connectionFailed => hasty

\* A probe that is going to say ok asked for nothing that did not answer at
\* some moment since it began, however the databases come and go.
ReadyTrue ==
  \A p \in Probes : probe[p].pc = "answer" /\ AllHealthy(p) => Asked(probe[p].kind) \subseteq probe[p].seen

\* Every cache call and every probe is answered in the end, even if Redis never
\* comes back: the retries run out.
EveryCallAnswered ==
  /\ \A k \in CacheCalls : call[k] # "idle" ~> call[k] = "idle"
  /\ \A p \in Probes : probe[p].pc # "idle" ~> probe[p].pc = "idle"
=============================================================================
