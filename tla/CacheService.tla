---------------------------- MODULE CacheService ----------------------------
(***************************************************************************)
(* CacheService: the latch connectionFailed, which the client's events and  *)
(* the calls under way set and reset, and the calls get, set, delete and    *)
(* deletePattern.  What is cached is left out.                              *)
(***************************************************************************)
EXTENDS RedisClient

CONSTANTS
  CacheCalls,     \* slots for calls that run at the same time
  MaxRetries      \* 3 in retryStrategy

ASSUME RetriesAssumption == MaxRetries \in Nat

VARIABLES
  connectionFailed,
  attempts,       \* retryAttempts: failed connections in a row
  booting,        \* the constructor's connect() is still pending
  call,           \* each call: "idle", or what it is waiting for
  hasty           \* auxiliary: a call failed between connect and ready

cacheVars == <<connectionFailed, attempts, booting, call, hasty>>

\* "connecting" waits for connect() or its time-out, "command" and "second"
\* for a command, the second being what deletePattern sends after keys.
CallStates == {"idle", "connecting", "ping", "command", "second"}

CacheTypeOK ==
  /\ connectionFailed \in BOOLEAN /\ booting \in BOOLEAN /\ hasty \in BOOLEAN
  /\ attempts \in 0 .. MaxRetries + 1
  /\ call \in [CacheCalls -> CallStates]

\* What the constructor leaves: it has called connect().
CacheStarted ==
  /\ connectionFailed = FALSE /\ attempts = 0 /\ booting = TRUE /\ hasty = FALSE
  /\ call = [k \in CacheCalls |-> "idle"]

\* The next process begins likewise.
CacheRestarted ==
  /\ connectionFailed' = FALSE /\ attempts' = 0 /\ booting' = TRUE /\ hasty' = FALSE
  /\ call' = [k \in CacheCalls |-> "idle"]

CacheStatus == status["cache"]

-----------------------------------------------------------------------------
(* The client's events *)

\* Mutation: the connect handler only logs.
LatchKept == connectionFailed

\* The connect handler.
LatchAfterConnect == FALSE

CacheConnects ==
  /\ Connects("cache")
  /\ connectionFailed' = LatchAfterConnect /\ hasty' = FALSE
  /\ UNCHANGED <<attempts, booting, call>>

\* Pending connect()s resolve, and the calls that made them send their ping.
CacheReady ==
  /\ GetsReady("cache")
  /\ attempts' = 0 /\ booting' = FALSE
  /\ call' = [k \in CacheCalls |-> IF call[k] = "connecting" THEN "ping" ELSE call[k]]
  /\ UNCHANGED <<connectionFailed, hasty>>

\* Mutation: retryStrategy never returns null.
NeverGivesUp == FALSE

GivesUp == attempts + 1 > MaxRetries

CallersLatch == connectionFailed \/ booting \/ \E k \in CacheCalls : call[k] = "connecting"

\* Mutation: retryStrategy does not latch the failure when it gives up.
LatchOfCallers == CallersLatch

LatchAfterClose == CallersLatch \/ GivesUp

\* retryStrategy, then what is pending: connect()s are rejected, which latches
\* the failure; commands are once there is no reconnection to come.
CacheCloses ==
  /\ Closing("cache")
  /\ Become("cache", IF GivesUp THEN "end" ELSE "reconnecting")
  /\ attempts' = IF attempts > MaxRetries THEN attempts ELSE attempts + 1   \* more is no different
  /\ booting' = FALSE
  /\ connectionFailed' = LatchAfterClose
  /\ call' = [k \in CacheCalls |-> IF GivesUp \/ call[k] = "connecting" THEN "idle" ELSE call[k]]
  /\ UNCHANGED hasty

\* The delay of retryStrategy is over.
CacheReconnects ==
  /\ CacheStatus = "reconnecting"
  /\ Become("cache", "connecting")
  /\ UNCHANGED cacheVars

-----------------------------------------------------------------------------
(* The calls *)

At(k, pc) == call' = [call EXCEPT ![k] = pc]

\* ensureConnection up to its first await: connect() throws while the client
\* is connecting, and cuts the delay short while it waits to reconnect.
Call(k) ==
  /\ call[k] = "idle" /\ ~ connectionFailed
  /\ \/ CacheStatus = "ready" /\ At(k, "ping") /\ UNCHANGED <<status, connectionFailed, hasty>>
     \/ /\ CacheStatus \in {"connecting", "connect"}
        /\ connectionFailed' = TRUE /\ hasty' = (hasty \/ CacheStatus = "connect")
        /\ UNCHANGED <<status, call>>
     \/ /\ CacheStatus = "reconnecting"
        /\ Become("cache", "connecting") /\ At(k, "connecting")
        /\ UNCHANGED <<connectionFailed, hasty>>
  /\ UNCHANGED <<attempts, booting>>

\* The 1000 ms are over.
TimeOut(k) ==
  /\ call[k] = "connecting" /\ At(k, "idle")
  /\ connectionFailed' = TRUE /\ hasty' = (hasty \/ CacheStatus = "connect")
  /\ UNCHANGED <<status, attempts, booting>>

\* The answer to the ping: the command is sent.
PingReply(k) ==
  /\ call[k] = "ping" /\ CacheStatus = "ready" /\ Answers
  /\ connectionFailed' = FALSE
  /\ At(k, "command")
  /\ UNCHANGED <<status, attempts, booting, hasty>>

\* The answer to the command, which for deletePattern may be keys to delete.
CommandReply(k) ==
  /\ call[k] \in {"command", "second"} /\ CacheStatus = "ready" /\ Answers
  /\ At(k, "idle") \/ (call[k] = "command" /\ At(k, "second"))
  /\ UNCHANGED <<status, connectionFailed, attempts, booting, hasty>>

CacheEvent == CacheConnects \/ CacheReady \/ CacheCloses \/ CacheReconnects
CallStep(k) == TimeOut(k) \/ PingReply(k) \/ CommandReply(k)
=============================================================================
