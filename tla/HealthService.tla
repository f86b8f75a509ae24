---------------------------- MODULE HealthService ---------------------------
(***************************************************************************)
(* HealthService: the probes of the database, of Redis and of both.  Its    *)
(* Redis client connects at the first ping, and never tries again.  The     *)
(* liveness probe asks nothing and is left out; so is a client that could   *)
(* not be constructed, since its host has a default.                        *)
(***************************************************************************)
EXTENDS RedisClient

CONSTANT Probes     \* slots for probes that run at the same time

VARIABLES probe     \* the probe in each slot

\* checks: what it still has to ask, in order; ok: the checks that succeeded;
\* seen: auxiliary, the databases that answered at some moment since it began.
NoProbe == [pc |-> "idle", kind |-> "none", ok |-> {}, seen |-> {}]

Asked(kind) == IF kind = "ready" THEN Databases ELSE {kind}

HealthTypeOK ==
  probe \in [Probes -> [pc   : {"idle", "postgres", "redis", "ping", "answer"},
                        kind : {"none", "ready", "postgres", "redis"},
                        ok   : SUBSET Databases, seen : SUBSET Databases]]

HealthStarted   == probe  = [p \in Probes |-> NoProbe]
HealthRestarted == probe' = [p \in Probes |-> NoProbe]

\* checkReady, checkDatabase and checkRedis begin.
BeginProbe(p) ==
  /\ probe[p] = NoProbe
  /\ \E kind \in {"ready", "postgres", "redis"} :
       probe' = [probe EXCEPT ![p] = [pc |-> IF kind = "redis" THEN "redis" ELSE "postgres",
                                      kind |-> kind, ok |-> {}, seen |-> up]]
  /\ UNCHANGED status

\* The query SELECT 1 is answered, or fails.
CheckDatabase(p) ==
  /\ probe[p].pc = "postgres"
  /\ probe' = [probe EXCEPT ![p].ok = @ \cup ({"postgres"} \cap up),
                            ![p].pc = IF probe[p].kind = "ready" THEN "redis" ELSE "answer"]
  /\ UNCHANGED status

\* ping() connects the first time, waits unless there is an end, and then fails.
SendPing(p) ==
  /\ probe[p].pc = "redis"
  /\ IF status["health"] = "wait" THEN Become("health", "connecting") ELSE UNCHANGED status
  /\ probe' = [probe EXCEPT ![p].pc = IF status["health"] = "end" THEN "answer" ELSE "ping"]

PingAnswered(p) ==
  /\ probe[p].pc = "ping" /\ status["health"] = "ready" /\ Answers
  /\ probe' = [probe EXCEPT ![p].ok = @ \cup {"redis"}, ![p].pc = "answer"]
  /\ UNCHANGED status

\* Mutation: some check instead of every one.
SomeHealthy(p) == probe[p].ok # {}

\* every
AllHealthy(p) == Asked(probe[p].kind) \subseteq probe[p].ok

Respond(p) ==
  /\ probe[p].pc = "answer"
  /\ probe' = [probe EXCEPT ![p] = NoProbe]
  /\ UNCHANGED status

\* retryStrategy returns null: the client is at its end, its pings are rejected.
HealthCloses ==
  /\ Closing("health")
  /\ Become("health", "end")
  /\ probe' = [p \in Probes |-> IF probe[p].pc = "ping" THEN [probe[p] EXCEPT !.pc = "answer"]
                                                        ELSE probe[p]]

HealthEvent == ((Connects("health") \/ GetsReady("health")) /\ UNCHANGED probe) \/ HealthCloses
ProbeStep(p) == CheckDatabase(p) \/ SendPing(p) \/ PingAnswered(p) \/ Respond(p)
=============================================================================
