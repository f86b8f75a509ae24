---------------------------- MODULE RedisClient -----------------------------
(***************************************************************************)
(* Redis, PostgreSQL and the two ioredis clients of a process: the cache's, *)
(* which retries, and the health check's, which does not.  How a client     *)
(* goes from one status to the next is the library's; the options and the   *)
(* handlers the services give it are theirs (CacheService, HealthService).  *)
(* External: ioredis resends a command whose connection broke when it is    *)
(* ready again, and rejects what is pending when it gives up.               *)
(***************************************************************************)
EXTENDS Naturals

CONSTANT MaxOutages     \* how often a database goes down or the server restarts

ASSUME OutagesAssumption == MaxOutages \in Nat

VARIABLES
  up,         \* the databases that answer
  outages,    \* how many outages and restarts there have been
  status      \* status of each client, as ioredis names it

Databases == {"postgres", "redis"}
Clients   == {"cache", "health"}
Statuses  == {"wait", "connecting", "connect", "ready", "reconnecting", "end"}

RedisTypeOK ==
  /\ up \subseteq Databases
  /\ outages \in 0 .. MaxOutages
  /\ status \in [Clients -> Statuses]

Become(c, s) == status' = [status EXCEPT ![c] = s]

Answers == "redis" \in up

\* The TCP connection is made.
Connects(c) == status[c] = "connecting" /\ Answers /\ Become(c, "connect")

\* The answer to INFO arrives.
GetsReady(c) == status[c] = "connect" /\ Answers /\ Become(c, "ready")

\* A connection is refused, or found to be broken.
Closing(c) == status[c] \in {"connecting", "connect", "ready"} /\ ~ Answers

GoDown(d) ==
  /\ d \in up /\ outages < MaxOutages
  /\ up' = up \ {d} /\ outages' = outages + 1

ComeUp(d) == d \notin up /\ up' = up \cup {d} /\ UNCHANGED outages
=============================================================================
