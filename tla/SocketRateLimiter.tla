-------------------------- MODULE SocketRateLimiter -------------------------
(***************************************************************************)
(* SocketRateLimiter: a fixed window of messages for each socket.  "passed" *)
(* records, for the properties only, when messages were allowed.            *)
(***************************************************************************)
EXTENDS Integers, Sequences

CONSTANTS
  Ids,         \* of sockets
  Limit,       \* messages per window: 10 in both gateways
  WindowMs,    \* length of a window: 1000 in both gateways
  MaxTime,     \* bound on the clock
  MaxCount     \* bound on the messages counted in a window

ASSUME LimiterAssumption ==
  /\ Limit \in Nat \ {0}
  /\ WindowMs \in Nat \ {0}
  /\ MaxTime \in Nat
  /\ MaxCount \in Nat

VARIABLES
  now,         \* Date.now(), which never goes back
  windows,     \* the current window of each socket, NoWindow if there is none
  released,    \* the sockets that have disconnected: their ids are not reused
  passed       \* when each message that was allowed arrived

limiterVars == <<now, windows, released, passed>>

NoWindow == [start |-> 0, count |-> 0]

LimiterTypeOK ==
  /\ now \in 0 .. MaxTime
  /\ windows \in [Ids -> [start : 0 .. MaxTime, count : 0 .. MaxCount + 1]]
  /\ released \in SUBSET Ids
  /\ passed \in [Ids -> Seq(Nat)]

LimiterInit ==
  /\ now = 0
  /\ windows = [s \in Ids |-> NoWindow]
  /\ released = {}
  /\ passed = [s \in Ids |-> <<>>]

\* Mutation: a window that is over is taken for one that still runs.
OverLate(s) == windows[s] = NoWindow \/ now - windows[s].start > WindowMs

\* The socket has no window, or its window is over.
Over(s) == windows[s] = NoWindow \/ now - windows[s].start >= WindowMs

\* Mutation: the message that opens a window is not counted.
OpenUncounted(s) == windows' = [windows EXCEPT ![s] = [start |-> now, count |-> 0]]

Open(s) == windows' = [windows EXCEPT ![s] = [start |-> now, count |-> 1]]

\* allow: the message opens a window and passes.
OpenWindow(s) ==
  /\ s \notin released
  /\ Over(s)
  /\ Open(s)
  /\ passed' = [passed EXCEPT ![s] = Append(@, now)]
  /\ UNCHANGED <<now, released>>

\* allow: the message is counted in the window, and passes up to the limit.
CountMessage(s) ==
  /\ s \notin released
  /\ ~ Over(s)
  /\ windows[s].count <= MaxCount
  /\ windows' = [windows EXCEPT ![s].count = @ + 1]
  /\ passed' = IF windows[s].count + 1 <= Limit
               THEN [passed EXCEPT ![s] = Append(@, now)] ELSE passed
  /\ UNCHANGED <<now, released>>

\* release, when the socket disconnects.
Release(s) ==
  /\ s \notin released
  /\ released' = released \cup {s}
  /\ windows' = [windows EXCEPT ![s] = NoWindow]
  /\ UNCHANGED <<now, passed>>

Tick ==
  /\ now < MaxTime
  /\ now' = now + 1
  /\ UNCHANGED <<windows, released, passed>>

LimiterNext ==
  \/ \E s \in Ids : OpenWindow(s) \/ CountMessage(s) \/ Release(s)
  \/ Tick

LimiterSpec == LimiterInit /\ [][LimiterNext]_limiterVars

-----------------------------------------------------------------------------
(* Properties *)

\* A window may end with a burst and the next begin with one, but less than
\* twice the limit passes in any WindowMs milliseconds, wherever they begin:
\* 2 * Limit - 1 messages after a message, a whole window has gone by.
Spread(p) ==
  \A i \in 1 .. Len(p) - (2 * Limit - 1) : p[i + (2 * Limit - 1)] - p[i] >= WindowMs

SlidingBound == \A s \in Ids : Spread(passed[s])

\* A message that is turned away in this step was counted, but did not pass.
TurnedAway(s) ==
  windows'[s] # windows[s] /\ passed'[s] = passed[s] /\ released' = released

\* A message is turned away only if Limit messages passed within the last
\* WindowMs milliseconds: no well-behaved client is ever slowed down.
RejectionJustified ==
  \A s \in Ids : TurnedAway(s) =>
    LET n == Len(passed[s]) IN n >= Limit /\ now - passed[s][n - Limit + 1] < WindowMs

RejectionsJustified == [][RejectionJustified]_limiterVars

-----------------------------------------------------------------------------
(* The inductive invariant *)

\* How many messages a window w has let pass, and where they begin in p, the
\* messages that passed.
Allowed(w)      == IF w.count <= Limit THEN w.count ELSE Limit
Beginning(w, p) == Len(p) - Allowed(w) + 1

\* The messages allowed in window w are the last ones of p; the first of them
\* opened it, and whatever passed Limit messages earlier did so a whole window
\* before.
WindowFits(w, p) ==
  w.count > 0 =>
    /\ Beginning(w, p) >= 1
    /\ p[Beginning(w, p)] = w.start
    /\ \A i \in 1 .. Beginning(w, p) - Limit : p[i] <= w.start - WindowMs

\* Messages pass in the order of the clock, of which t is the time.
Ordered(p, t) ==
  /\ \A i \in 1 .. Len(p) : p[i] <= t
  /\ \A i, j \in 1 .. Len(p) : i <= j => p[i] <= p[j]

WindowOK(s) ==
  /\ windows[s].count = 0 => windows[s] = NoWindow /\ (passed[s] = <<>> \/ s \in released)
  /\ windows[s].start <= now
  /\ WindowFits(windows[s], passed[s])
  /\ Ordered(passed[s], now)

LimiterInv ==
  /\ LimiterTypeOK
  /\ \A s \in Ids : WindowOK(s)
  /\ SlidingBound
=============================================================================
