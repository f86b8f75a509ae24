------------------------- MODULE OrderGatewayProofs -------------------------
(***************************************************************************)
(* Proofs about the order gateway, for any sockets, users, orders, limits   *)
(* and lengths of the window.  First the rate limiter: less than twice the  *)
(* limit in any interval as long as a window, and no message turned away    *)
(* before the limit has passed within the last window.  Its arithmetic is   *)
(* in lemmas about a window w and the sequence p of the times messages      *)
(* passed at; the lemmas about actions only apply them.  Then the           *)
(* connections: the inductive invariant of SocketGateway, the bound on a    *)
(* user's connections, and that users whose sockets are patient are not     *)
(* turned down below the limit.  Then the gateway as a whole: its rooms,    *)
(* and the connections and the limiter again, when the process restarts.    *)
(***************************************************************************)
EXTENDS OrderGateway, FiniteSetTheorems, TLAPS

USE LimiterAssumption

\* The windows LimiterTypeOK allows.
Windows == [start : 0 .. MaxTime, count : 0 .. MaxCount + 1]

-----------------------------------------------------------------------------
(* Windows and sequences *)

\* What Append does, in the form the other lemmas use.
LEMMA AppendLemma ==
  ASSUME NEW p \in Seq(Nat), NEW t \in Nat
  PROVE  /\ Append(p, t) \in Seq(Nat)
         /\ Len(p) \in Nat
         /\ Len(Append(p, t)) = Len(p) + 1
         /\ Append(p, t)[Len(p) + 1] = t
         /\ \A i \in 1 .. Len(p) : Append(p, t)[i] = p[i] /\ p[i] \in Nat
         /\ Append(p, t) # p
OBVIOUS

\* The number of messages a window has let pass is between one and the limit.
LEMMA AllowedLemma ==
  ASSUME NEW w \in Windows, w.count > 0
  PROVE  Allowed(w) \in 1 .. Limit
BY DEF Windows, Allowed

\* Appending the present time keeps the order.
LEMMA OrderedLemma ==
  ASSUME NEW p \in Seq(Nat), NEW t \in Nat, Ordered(p, t)
  PROVE  Ordered(Append(p, t), t)
<1>. DEFINE q == Append(p, t)
            n == Len(p)
<1>1. n \in Nat /\ Len(q) = n + 1 /\ q[n + 1] = t /\ \A i \in 1 .. n : q[i] = p[i] /\ p[i] \in Nat
  BY AppendLemma
<1>2. \A i \in 1 .. n : p[i] <= t
  BY DEF Ordered
<1>3. \A i, j \in 1 .. n : i <= j => p[i] <= p[j]
  BY DEF Ordered
<1>. HIDE DEF q, n
<1>4. \A i \in 1 .. n + 1 : q[i] <= t
  BY <1>1, <1>2
<1>5. \A i, j \in 1 .. n + 1 : i <= j => q[i] <= q[j]
  BY <1>1, <1>2, <1>3
<1>6. Len(q) = n + 1
  BY <1>1
<1>7. \A i \in 1 .. Len(q) : q[i] <= t
  BY <1>4, <1>6
<1>8. \A i, j \in 1 .. Len(q) : i <= j => q[i] <= q[j]
  BY <1>5, <1>6
<1>. QED  BY <1>7, <1>8 DEF Ordered, q

\* Appending a time that is a window later than what passed 2 * Limit - 1 messages
\* earlier keeps the messages spread.
LEMMA SpreadLemma ==
  ASSUME NEW p \in Seq(Nat), NEW t \in Nat, Spread(p),
         \A i \in 1 .. Len(p) : i = Len(p) + 1 - (2 * Limit - 1) => p[i] <= t - WindowMs
  PROVE  Spread(Append(p, t))
<1>. DEFINE q == Append(p, t)
            n == Len(p)
<1>1. n \in Nat /\ Len(q) = n + 1 /\ q[n + 1] = t /\ \A i \in 1 .. n : q[i] = p[i] /\ p[i] \in Nat
  BY AppendLemma
<1>2. \A i \in 1 .. n - (2 * Limit - 1) : p[i + (2 * Limit - 1)] - p[i] >= WindowMs
  BY DEF Spread
<1>3. \A i \in 1 .. n : i = n + 1 - (2 * Limit - 1) => p[i] <= t - WindowMs
  OBVIOUS
<1>. HIDE DEF q, n
<1>4. ASSUME NEW i \in 1 .. n + 1 - (2 * Limit - 1) PROVE q[i + (2 * Limit - 1)] - q[i] >= WindowMs
  <2>1. CASE i = n + 1 - (2 * Limit - 1)
    BY <1>1, <1>3, <2>1
  <2>2. CASE i # n + 1 - (2 * Limit - 1)
    <3>1. i \in 1 .. n - (2 * Limit - 1) /\ i \in 1 .. n /\ i + (2 * Limit - 1) \in 1 .. n
      BY <1>1, <2>2
    <3>. QED  BY <1>1, <1>2, <3>1
  <2>. QED  BY <2>1, <2>2
<1>5. \A i \in 1 .. Len(q) - (2 * Limit - 1) : q[i + (2 * Limit - 1)] - q[i] >= WindowMs
  BY <1>1, <1>4
<1>. QED  BY <1>5 DEF Spread, q

\* When window w is over at time t, what passed Limit messages before the
\* next one did so a whole window before t.
LEMMA OverLemma ==
  ASSUME NEW w \in Windows, NEW p \in Seq(Nat), NEW t \in Nat,
         WindowFits(w, p), Ordered(p, t),
         w.count = 0 => p = <<>>,
         w.count > 0 => t - w.start >= WindowMs
  PROVE  \A i \in 1 .. Len(p) + 1 - Limit : i \in 1 .. Len(p) /\ p[i] <= t - WindowMs
<1>1. CASE w.count = 0
  <2>1. Len(p) = 0
    BY <1>1
  <2>. QED  BY <2>1
<1>2. CASE w.count > 0
  <2>. DEFINE n == Len(p)
              b == Beginning(w, p)
  <2>1. n \in Nat /\ Allowed(w) \in 1 .. Limit /\ b = n - Allowed(w) + 1
    BY <1>2, AllowedLemma DEF Beginning
  <2>2. b >= 1 /\ p[b] = w.start
    BY <1>2 DEF WindowFits
  <2>3. \A i, j \in 1 .. n : i <= j => p[i] <= p[j]
    BY DEF Ordered
  <2>4. w.start \in Nat /\ t - w.start >= WindowMs
    BY <1>2 DEF Windows
  <2>5. \A i \in 1 .. n : p[i] \in Nat
    OBVIOUS
  <2>. HIDE DEF n, b
  <2>6. ASSUME NEW i \in 1 .. n + 1 - Limit PROVE i \in 1 .. n /\ p[i] <= t - WindowMs
    <3>1. i \in 1 .. n /\ b \in 1 .. n /\ i <= b
      BY <2>1, <2>2
    <3>2. p[i] <= p[b]
      BY <2>3, <3>1
    <3>. QED  BY <2>2, <2>4, <2>5, <3>1, <3>2
  <2>. QED  BY <2>6 DEF n
<1>. QED  BY <1>1, <1>2 DEF Windows

\* A new window at time t fits once the message that opens it has passed.
LEMMA NewWindowLemma ==
  ASSUME NEW w, NEW p \in Seq(Nat), NEW t \in Nat,
         w.count = 1, w.start = t,
         \A i \in 1 .. Len(p) + 1 - Limit : i \in 1 .. Len(p) /\ p[i] <= t - WindowMs
  PROVE  WindowFits(w, Append(p, t))
<1>. DEFINE q == Append(p, t)
            n == Len(p)
<1>1. n \in Nat /\ Len(q) = n + 1 /\ q[n + 1] = t /\ \A i \in 1 .. n : q[i] = p[i]
  BY AppendLemma
<1>2. Beginning(w, q) = n + 1
  BY <1>1 DEF Beginning, Allowed
<1>3. \A i \in 1 .. n + 1 - Limit : i \in 1 .. n /\ p[i] <= t - WindowMs
  OBVIOUS
<1>. HIDE DEF q, n
<1>4. \A i \in 1 .. n + 1 - Limit : q[i] <= t - WindowMs
  BY <1>1, <1>3
<1>. QED  BY <1>1, <1>2, <1>4 DEF WindowFits, q

\* A message counted within the limit joins the window.
LEMMA JoinLemma ==
  ASSUME NEW w \in Windows, NEW v, NEW p \in Seq(Nat), NEW t \in Nat,
         w.count > 0, v.count = w.count + 1, v.start = w.start, v.count <= Limit,
         WindowFits(w, p), w.start <= t
  PROVE  /\ WindowFits(v, Append(p, t))
         /\ \A i \in 1 .. Len(p) : i = Len(p) + 1 - (2 * Limit - 1) => p[i] <= t - WindowMs
<1>. DEFINE q == Append(p, t)
            n == Len(p)
            b == Beginning(w, p)
<1>1. n \in Nat /\ Len(q) = n + 1 /\ q[n + 1] = t /\ \A i \in 1 .. n : q[i] = p[i] /\ p[i] \in Nat
  BY AppendLemma
<1>2. w.count \in Nat /\ w.start \in Nat
  BY DEF Windows
<1>3. Allowed(w) = w.count /\ Allowed(v) = w.count + 1
  BY <1>2 DEF Allowed
<1>4. b = n - w.count + 1 /\ Beginning(v, q) = b
  BY <1>1, <1>2, <1>3 DEF Beginning
<1>5. /\ b >= 1 /\ p[b] = w.start
      /\ \A i \in 1 .. b - Limit : p[i] <= w.start - WindowMs
  BY DEF WindowFits
<1>. HIDE DEF q, n, b
<1>6. b \in 1 .. n
  BY <1>1, <1>2, <1>4, <1>5
<1>7. \A i \in 1 .. b - Limit : i \in 1 .. n /\ q[i] <= v.start - WindowMs
  BY <1>1, <1>5, <1>6
<1>8. q[b] = v.start
  BY <1>1, <1>5, <1>6
<1>9. WindowFits(v, q)
  BY <1>4, <1>5, <1>7, <1>8 DEF WindowFits
<1>10. ASSUME NEW i \in 1 .. n, i = n + 1 - (2 * Limit - 1) PROVE p[i] <= t - WindowMs
  <2>1. i \in 1 .. b - Limit
    BY <1>1, <1>2, <1>4, <1>10
  <2>2. p[i] <= w.start - WindowMs
    BY <1>5, <2>1
  <2>3. p[i] \in Nat /\ w.start <= t
    BY <1>1
  <2>. QED  BY <1>2, <2>2, <2>3
<1>. QED  BY <1>9, <1>10 DEF q, n

\* A message that does not pass changes nothing but the count.
LEMMA FullLemma ==
  ASSUME NEW w \in Windows, NEW v, NEW p,
         v.count = w.count + 1, v.start = w.start, ~ (v.count <= Limit), WindowFits(w, p)
  PROVE  WindowFits(v, p)
<1>1. w.count \in Nat /\ w.count > 0 /\ v.count > 0
  BY DEF Windows
<1>2. Allowed(v) = Limit /\ Allowed(w) = Limit
  BY <1>1 DEF Allowed
<1>3. Beginning(v, p) = Beginning(w, p)
  BY <1>2 DEF Beginning
<1>. QED  BY <1>1, <1>3 DEF WindowFits

-----------------------------------------------------------------------------
(* The actions *)

\* Types, seen from one socket.
LEMMA SocketTypes ==
  ASSUME LimiterTypeOK, NEW s \in Ids
  PROVE  /\ windows[s] \in Windows
         /\ passed[s] \in Seq(Nat)
         /\ now \in Nat
BY DEF LimiterTypeOK, Windows

\* A socket a step does not touch stays as it should be while time goes on.
LEMMA KeptLemma ==
  ASSUME NEW u \in Ids, LimiterTypeOK, WindowOK(u), Spread(passed[u]),
         windows'[u] = windows[u], passed'[u] = passed[u],
         released \subseteq released', now' \in Nat, now <= now'
  PROVE  WindowOK(u)' /\ Spread(passed[u])'
<1>. DEFINE w == windows[u]
            p == passed[u]
<1>1. w \in Windows /\ p \in Seq(Nat) /\ now \in Nat
  BY SocketTypes
<1>2. /\ w.count = 0 => w = NoWindow /\ (p = <<>> \/ u \in released)
      /\ w.start <= now
      /\ WindowFits(w, p)
      /\ Ordered(p, now)
      /\ Spread(p)
  BY DEF WindowOK
<1>3. w.start \in Nat /\ \A i \in 1 .. Len(p) : p[i] \in Nat
  BY <1>1 DEF Windows
<1>4. w.start <= now' /\ Ordered(p, now')
  BY <1>1, <1>2, <1>3 DEF Ordered
<1>5. windows'[u] = w /\ passed'[u] = p
  OBVIOUS
<1>. HIDE DEF w, p
<1>6. WindowOK(u)'
  BY <1>2, <1>4, <1>5 DEF WindowOK, NoWindow
<1>7. Spread(passed[u])'
  BY <1>2, <1>5 DEF Spread
<1>. QED  BY <1>6, <1>7

LEMMA LimiterInitInv == LimiterInit => LimiterInv
<1>. SUFFICES ASSUME LimiterInit PROVE LimiterInv
  OBVIOUS
<1>1. LimiterTypeOK
  BY DEF LimiterInit, LimiterTypeOK, NoWindow
<1>2. ASSUME NEW s \in Ids PROVE WindowOK(s) /\ Spread(passed[s])
  <2>1. windows[s] = NoWindow /\ passed[s] = <<>> /\ now = 0
    BY DEF LimiterInit
  <2>. QED  BY <2>1 DEF WindowOK, WindowFits, Ordered, Spread, NoWindow
<1>. QED  BY <1>1, <1>2 DEF LimiterInv, SlidingBound

LEMMA OpenWindowInv ==
  ASSUME LimiterInv, NEW s \in Ids, OpenWindow(s)
  PROVE  LimiterInv'
<1>. DEFINE w == windows[s]
            p == passed[s]
            v == [start |-> now, count |-> 1]
<1>1. w \in Windows /\ p \in Seq(Nat) /\ now \in Nat /\ now \in 0 .. MaxTime
  BY SocketTypes DEF LimiterInv, LimiterTypeOK
<1>2. /\ w.count = 0 => w = NoWindow /\ (p = <<>> \/ s \in released)
      /\ WindowFits(w, p) /\ Ordered(p, now) /\ Spread(p)
  BY DEF LimiterInv, WindowOK, SlidingBound
<1>3. s \notin released /\ (w = NoWindow \/ now - w.start >= WindowMs)
  BY DEF OpenWindow, Over
<1>4. /\ windows' = [windows EXCEPT ![s] = v]
      /\ passed' = [passed EXCEPT ![s] = Append(p, now)]
      /\ now' = now /\ released' = released
  BY DEF OpenWindow, Open
<1>5. LimiterTypeOK'
  <2>1. v \in Windows /\ Append(p, now) \in Seq(Nat)
    BY <1>1 DEF Windows
  <2>. HIDE DEF v, p
  <2>. QED  BY <1>4, <2>1 DEF LimiterInv, LimiterTypeOK, Windows
<1>6. windows'[s] = v /\ passed'[s] = Append(p, now) /\ v.count = 1 /\ v.start = now
  BY <1>4 DEF LimiterInv, LimiterTypeOK
<1>. HIDE DEF w, p, v
<1>7. w.count = 0 => p = <<>>
  BY <1>2, <1>3
<1>8. w.count > 0 => now - w.start >= WindowMs
  BY <1>3 DEF NoWindow
<1>9. \A i \in 1 .. Len(p) + 1 - Limit : i \in 1 .. Len(p) /\ p[i] <= now - WindowMs
  BY <1>1, <1>2, <1>7, <1>8, OverLemma
<1>10. WindowFits(v, Append(p, now))
  BY <1>1, <1>6, <1>9, NewWindowLemma
<1>11. Ordered(Append(p, now), now)
  BY <1>1, <1>2, OrderedLemma
<1>12. Spread(Append(p, now))
  <2>1. Len(p) \in Nat
    BY <1>1
  <2>2. \A i \in 1 .. Len(p) : i = Len(p) + 1 - (2 * Limit - 1) => i \in 1 .. Len(p) + 1 - Limit
    BY <2>1
  <2>3. \A i \in 1 .. Len(p) : i = Len(p) + 1 - (2 * Limit - 1) => p[i] <= now - WindowMs
    BY <1>9, <2>2
  <2>. QED  BY <1>1, <1>2, <2>3, SpreadLemma
<1>13. WindowOK(s)' /\ Spread(passed[s])'
  <2>1. windows[s]' = v /\ passed[s]' = Append(p, now) /\ now' = now
    BY <1>4, <1>6
  <2>2. v.count # 0 /\ v.start <= now
    BY <1>1, <1>6
  <2>3. WindowOK(s)'
    BY <1>10, <1>11, <2>1, <2>2 DEF WindowOK
  <2>4. Spread(passed[s])'
    BY <1>12, <2>1 DEF Spread
  <2>. QED  BY <2>3, <2>4
<1>14. ASSUME NEW u \in Ids, u # s PROVE WindowOK(u)' /\ Spread(passed[u])'
  <2>1. windows'[u] = windows[u] /\ passed'[u] = passed[u]
    BY <1>4, <1>14 DEF LimiterInv, LimiterTypeOK
  <2>2. LimiterTypeOK /\ WindowOK(u) /\ Spread(passed[u])
    BY DEF LimiterInv, SlidingBound
  <2>. QED  BY <1>1, <1>4, <2>1, <2>2, KeptLemma
<1>15. \A u \in Ids : WindowOK(u)' /\ Spread(passed[u])'
  BY <1>13, <1>14
<1>. QED  BY <1>5, <1>15 DEF LimiterInv, SlidingBound

LEMMA CountMessageInv ==
  ASSUME LimiterInv, NEW s \in Ids, CountMessage(s)
  PROVE  LimiterInv'
<1>. DEFINE w == windows[s]
            p == passed[s]
            v == [w EXCEPT !.count = @ + 1]
            q == IF v.count <= Limit THEN Append(p, now) ELSE p
<1>1. w \in Windows /\ p \in Seq(Nat) /\ now \in Nat /\ now \in 0 .. MaxTime
  BY SocketTypes DEF LimiterInv, LimiterTypeOK
<1>2. /\ w.count = 0 => w = NoWindow
      /\ w.start <= now
      /\ WindowFits(w, p) /\ Ordered(p, now) /\ Spread(p)
  BY DEF LimiterInv, WindowOK, SlidingBound
<1>3. w # NoWindow /\ w.count <= MaxCount
  BY DEF CountMessage, Over
<1>4. v.count = w.count + 1 /\ v.start = w.start /\ v \in Windows
  <2>1. w.count \in 0 .. MaxCount /\ w.start \in 0 .. MaxTime
    BY <1>1, <1>3, LimiterAssumption DEF Windows
  <2>2. v = [start |-> w.start, count |-> w.count + 1]
    BY <1>1 DEF Windows
  <2>3. w.count + 1 \in 0 .. MaxCount + 1
    BY <2>1, LimiterAssumption
  <2>. QED  BY <2>1, <2>2, <2>3 DEF Windows
<1>5. /\ windows' = [windows EXCEPT ![s] = v]
      /\ now' = now /\ released' = released
  BY DEF CountMessage
<1>6. passed' = IF v.count <= Limit THEN [passed EXCEPT ![s] = Append(p, now)] ELSE passed
  BY <1>4 DEF CountMessage
<1>. HIDE DEF v
<1>7. passed' = [passed EXCEPT ![s] = q]
  BY <1>6 DEF LimiterInv, LimiterTypeOK
<1>8. q \in Seq(Nat)
  BY <1>1
<1>. HIDE DEF q, w, p
<1>9. LimiterTypeOK'
  BY <1>4, <1>5, <1>7, <1>8 DEF LimiterInv, LimiterTypeOK, Windows
<1>10. windows'[s] = v /\ passed'[s] = q
  BY <1>5, <1>7 DEF LimiterInv, LimiterTypeOK
<1>11. w.count \in Nat /\ w.start \in Nat /\ w.count > 0
  BY <1>1, <1>2, <1>3 DEF Windows
<1>12. WindowFits(v, q) /\ Ordered(q, now) /\ Spread(q)
  <2>1. CASE v.count <= Limit
    <3>1. q = Append(p, now)
      BY <2>1 DEF q
    <3>2. /\ WindowFits(v, Append(p, now))
          /\ \A i \in 1 .. Len(p) : i = Len(p) + 1 - (2 * Limit - 1) => p[i] <= now - WindowMs
      BY <1>1, <1>2, <1>4, <1>11, <2>1, JoinLemma
    <3>3. Ordered(Append(p, now), now)
      BY <1>1, <1>2, OrderedLemma
    <3>4. Spread(Append(p, now))
      BY <1>1, <1>2, <3>2, SpreadLemma
    <3>. QED  BY <3>1, <3>2, <3>3, <3>4
  <2>2. CASE ~ (v.count <= Limit)
    <3>1. q = p
      BY <2>2 DEF q
    <3>2. WindowFits(v, p)
      BY <1>1, <1>2, <1>4, <2>2, FullLemma
    <3>. QED  BY <1>2, <3>1, <3>2
  <2>. QED  BY <2>1, <2>2
<1>13. WindowOK(s)' /\ Spread(passed[s])'
  <2>1. windows[s]' = v /\ passed[s]' = q /\ now' = now
    BY <1>5, <1>10
  <2>2. v.count # 0 /\ v.start <= now
    BY <1>2, <1>4, <1>11
  <2>3. WindowOK(s)'
    BY <1>12, <2>1, <2>2 DEF WindowOK
  <2>4. Spread(passed[s])'
    BY <1>12, <2>1 DEF Spread
  <2>. QED  BY <2>3, <2>4
<1>14. ASSUME NEW u \in Ids, u # s PROVE WindowOK(u)' /\ Spread(passed[u])'
  <2>1. windows'[u] = windows[u] /\ passed'[u] = passed[u]
    BY <1>5, <1>7, <1>14 DEF LimiterInv, LimiterTypeOK
  <2>2. LimiterTypeOK /\ WindowOK(u) /\ Spread(passed[u])
    BY DEF LimiterInv, SlidingBound
  <2>. QED  BY <1>1, <1>5, <2>1, <2>2, KeptLemma
<1>15. \A u \in Ids : WindowOK(u)' /\ Spread(passed[u])'
  BY <1>13, <1>14
<1>. QED  BY <1>9, <1>15 DEF LimiterInv, SlidingBound

LEMMA ReleaseInv ==
  ASSUME LimiterInv, NEW s \in Ids, Release(s)
  PROVE  LimiterInv'
<1>. DEFINE p == passed[s]
<1>1. p \in Seq(Nat) /\ now \in Nat
  BY SocketTypes DEF LimiterInv
<1>2. Ordered(p, now) /\ Spread(p)
  BY DEF LimiterInv, WindowOK, SlidingBound
<1>3. /\ windows' = [windows EXCEPT ![s] = NoWindow]
      /\ passed' = passed /\ now' = now /\ released' = released \cup {s}
  BY DEF Release
<1>4. LimiterTypeOK'
  <2>1. NoWindow \in Windows
    BY DEF NoWindow, Windows
  <2>. QED  BY <1>3, <2>1 DEF LimiterInv, LimiterTypeOK, Windows
<1>5. WindowOK(s)' /\ Spread(passed[s])'
  <2>1. windows[s]' = NoWindow /\ passed[s]' = p /\ now' = now /\ (s \in released)'
    BY <1>3 DEF LimiterInv, LimiterTypeOK
  <2>. HIDE DEF p
  <2>2. NoWindow.count = 0 /\ NoWindow.start = 0
    BY DEF NoWindow
  <2>3. WindowFits(NoWindow, p) /\ NoWindow.start <= now
    BY <1>1, <2>2 DEF WindowFits
  <2>4. WindowOK(s)'
    BY <1>2, <2>1, <2>3 DEF WindowOK
  <2>5. Spread(passed[s])'
    BY <1>2, <2>1 DEF Spread
  <2>. QED  BY <2>4, <2>5
<1>6. ASSUME NEW u \in Ids, u # s PROVE WindowOK(u)' /\ Spread(passed[u])'
  <2>1. windows'[u] = windows[u] /\ passed'[u] = passed[u]
    BY <1>3, <1>6 DEF LimiterInv, LimiterTypeOK
  <2>2. LimiterTypeOK /\ WindowOK(u) /\ Spread(passed[u])
    BY DEF LimiterInv, SlidingBound
  <2>. QED  BY <1>1, <1>3, <2>1, <2>2, KeptLemma
<1>7. \A u \in Ids : WindowOK(u)' /\ Spread(passed[u])'
  BY <1>5, <1>6
<1>. QED  BY <1>4, <1>7 DEF LimiterInv, SlidingBound

\* The clock and stuttering steps touch no socket.
LEMMA UntouchedInv ==
  ASSUME LimiterInv, Tick \/ UNCHANGED limiterVars
  PROVE  LimiterInv'
<1>1. /\ windows' = windows /\ passed' = passed /\ released' = released
      /\ now' \in 0 .. MaxTime /\ now <= now'
  BY DEF Tick, limiterVars, LimiterInv, LimiterTypeOK
<1>2. LimiterTypeOK'
  BY <1>1 DEF LimiterInv, LimiterTypeOK
<1>3. ASSUME NEW u \in Ids PROVE WindowOK(u)' /\ Spread(passed[u])'
  <2>1. LimiterTypeOK /\ WindowOK(u) /\ Spread(passed[u])
    BY DEF LimiterInv, SlidingBound
  <2>2. now' \in Nat /\ windows'[u] = windows[u] /\ passed'[u] = passed[u]
        /\ released \subseteq released'
    BY <1>1
  <2>. QED  BY <1>1, <2>1, <2>2, KeptLemma
<1>. QED  BY <1>2, <1>3 DEF LimiterInv, SlidingBound

\* Only CountMessage turns a message away, when the window has let its limit
\* pass; it still runs, so the first of them is recent.
LEMMA CountMessageJustified ==
  ASSUME LimiterInv, NEW s \in Ids, CountMessage(s), passed'[s] = passed[s]
  PROVE  /\ Len(passed[s]) >= Limit
         /\ now - passed[s][Len(passed[s]) - Limit + 1] < WindowMs
<1>. DEFINE w == windows[s]
            p == passed[s]
            n == Len(p)
<1>1. w \in Windows /\ p \in Seq(Nat) /\ now \in Nat
  BY SocketTypes DEF LimiterInv
<1>2. (w.count = 0 => w = NoWindow) /\ WindowFits(w, p)
  BY DEF LimiterInv, WindowOK
<1>3. w # NoWindow /\ ~ (now - w.start >= WindowMs)
  BY DEF CountMessage, Over
<1>4. n \in Nat /\ Append(p, now) # p
  BY <1>1, AppendLemma
<1>5. ~ (w.count + 1 <= Limit)
  <2>1. CASE w.count + 1 <= Limit
    <3>1. passed' = [passed EXCEPT ![s] = Append(p, now)]
      BY <2>1 DEF CountMessage
    <3>2. passed'[s] = Append(p, now)
      BY <3>1 DEF LimiterInv, LimiterTypeOK
    <3>. QED  BY <1>4, <3>2
  <2>. QED  BY <2>1
<1>6. w.count \in Nat /\ w.start \in Nat /\ w.count > 0
  BY <1>1, <1>2, <1>3 DEF Windows
<1>. HIDE DEF w, p, n
<1>7. Beginning(w, p) = n - Limit + 1
  BY <1>5, <1>6 DEF Beginning, Allowed, n
<1>8. n - Limit + 1 >= 1 /\ p[n - Limit + 1] = w.start
  BY <1>2, <1>6, <1>7 DEF WindowFits
<1>. QED  BY <1>1, <1>3, <1>4, <1>6, <1>8 DEF w, p, n

\* A message that changes the window of its socket without passing is counted.
LEMMA OnlyCounted ==
  ASSUME LimiterInv, NEW s \in Ids, NEW u \in Ids, OpenWindow(u) \/ CountMessage(u),
         windows'[s] # windows[s], passed'[s] = passed[s]
  PROVE  CountMessage(s)
<1>1. ASSUME OpenWindow(u) PROVE FALSE
  <2>1. windows' = [windows EXCEPT ![u] = [start |-> now, count |-> 1]]
    BY <1>1 DEF OpenWindow, Open
  <2>2. u = s
    BY <2>1 DEF LimiterInv, LimiterTypeOK
  <2>3. passed'[s] = Append(passed[s], now)
    BY <1>1, <2>2 DEF OpenWindow, LimiterInv, LimiterTypeOK
  <2>. QED  BY <2>3, SocketTypes, AppendLemma DEF LimiterInv
<1>2. ASSUME CountMessage(u) PROVE u = s
  <2>1. windows' = [windows EXCEPT ![u].count = @ + 1]
    BY <1>2 DEF CountMessage
  <2>. QED  BY <2>1 DEF LimiterInv, LimiterTypeOK
<1>. QED  BY <1>1, <1>2

-----------------------------------------------------------------------------
(* The theorems *)

LEMMA StepInv == LimiterInv /\ [LimiterNext]_limiterVars => LimiterInv'
<1>. SUFFICES ASSUME LimiterInv, [LimiterNext]_limiterVars PROVE LimiterInv'
  OBVIOUS
<1>1. CASE \E s \in Ids : OpenWindow(s) \/ CountMessage(s) \/ Release(s)
  BY <1>1, OpenWindowInv, CountMessageInv, ReleaseInv
<1>2. CASE Tick \/ UNCHANGED limiterVars
  BY <1>2, UntouchedInv
<1>. QED  BY <1>1, <1>2 DEF LimiterNext

\* The windows and the messages they let pass fit together in every state.
THEOREM LimiterInvHolds == LimiterSpec => []LimiterInv
BY LimiterInitInv, StepInv, PTL DEF LimiterSpec

\* allow lets less than twice the limit pass in any interval as long as a window.
THEOREM PassedLessThanTwiceTheLimit == LimiterSpec => []SlidingBound
<1>1. LimiterInv => SlidingBound
  BY DEF LimiterInv
<1>. QED  BY <1>1, LimiterInvHolds, PTL

\* allow turns no message away before the limit has passed within the last
\* WindowMs milliseconds.
THEOREM NobodyIsThrottledEarly == LimiterSpec => RejectionsJustified
<1>1. LimiterInv /\ [LimiterNext]_limiterVars => [RejectionJustified]_limiterVars
  <2>. SUFFICES ASSUME LimiterInv, LimiterNext, NEW s \in Ids, TurnedAway(s)
                PROVE  LET n == Len(passed[s])
                       IN  n >= Limit /\ now - passed[s][n - Limit + 1] < WindowMs
    BY DEF RejectionJustified
  <2>1. windows'[s] # windows[s] /\ passed'[s] = passed[s] /\ released' = released
    BY DEF TurnedAway
  <2>2. ~ Tick
    BY <2>1 DEF Tick
  <2>3. ASSUME NEW u \in Ids, Release(u) PROVE FALSE
    BY <2>1, <2>3 DEF Release
  <2>4. CountMessage(s)
    BY <2>1, <2>2, <2>3, OnlyCounted DEF LimiterNext
  <2>. QED  BY <2>1, <2>4, CountMessageJustified
<1>. QED  BY <1>1, LimiterInvHolds, PTL DEF LimiterSpec, RejectionsJustified

-----------------------------------------------------------------------------
(* The connections *)

USE GatewayAssumption

\* Which sockets a set of counted sockets consists of bounds its size.
LEMMA CountLemma ==
  ASSUME NEW S \in SUBSET Sockets
  PROVE  /\ Cardinality(S) \in Nat
         /\ \A T \in SUBSET S : Cardinality(T) <= Cardinality(S)
         /\ \A s \in Sockets : Cardinality(S \cup {s}) <= Cardinality(S) + 1
<1>1. IsFiniteSet(S)
  BY FS_Subset
<1>2. Cardinality(S) \in Nat
  BY <1>1, FS_CardinalityType
<1>3. \A T \in SUBSET S : Cardinality(T) <= Cardinality(S)
  BY <1>1, FS_Subset
<1>4. \A s \in Sockets : Cardinality(S \cup {s}) <= Cardinality(S) + 1
  <2>. SUFFICES ASSUME NEW s \in Sockets
                PROVE  Cardinality(S \cup {s}) <= Cardinality(S) + 1
    OBVIOUS
  <2>1. Cardinality(S \cup {s}) = IF s \in S THEN Cardinality(S) ELSE Cardinality(S) + 1
    BY <1>1, FS_AddElement, Zenon
  <2>. QED  BY <1>2, <2>1
<1>. QED  BY <1>2, <1>3, <1>4

\* An empty set of sockets is within the limit.
LEMMA EmptyLemma == Cardinality({}) = 0
BY FS_EmptySet

-----------------------------------------------------------------------------
(* The invariant *)

LEMMA GatewayInitInv == GatewayInit => GatewayInv
<1>. SUFFICES ASSUME GatewayInit PROVE GatewayInv
  OBVIOUS
<1>1. GatewayTypeOK
  BY DEF GatewayInit, GatewayTypeOK
<1>2. ConnectionsBounded
  BY EmptyLemma DEF GatewayInit, ConnectionsBounded, Serving
<1>3. TrackedOK /\ LookupOK
  BY DEF GatewayInit, TrackedOK, LookupOK
<1>. QED  BY <1>1, <1>2, <1>3 DEF GatewayInv

\* A socket starts to connect: it is not counted yet.
LEMMA ConnectInv ==
  ASSUME GatewayInv, NEW s \in Sockets, Connect(s)
  PROVE  GatewayInv'
<1>1. GatewayTypeOK'
  BY DEF GatewayInv, GatewayTypeOK, Connect
<1>2. \A u \in Users : Serving(u)' \subseteq Serving(u)
  BY DEF GatewayInv, GatewayTypeOK, Connect, Serving
<1>3. ConnectionsBounded'
  BY <1>2 DEF GatewayInv, ConnectionsBounded, Connect
<1>4. TrackedOK'
  BY DEF GatewayInv, GatewayTypeOK, TrackedOK, LookupOK, Connect
<1>5. LookupOK'
  BY DEF GatewayInv, GatewayTypeOK, LookupOK, Connect
<1>. QED  BY <1>1, <1>3, <1>4, <1>5 DEF GatewayInv

\* A connection that is turned down was not counted.
LEMMA RefuseInv ==
  ASSUME GatewayInv, NEW s \in Sockets, auth[s] = "lookup",
         NEW why \in {"refused", "limited"}, Refuse(s, why)
  PROVE  GatewayInv'
<1>1. GatewayTypeOK'
  BY DEF GatewayInv, GatewayTypeOK, Refuse
<1>2. \A u \in Users : Serving(u)' \subseteq Serving(u)
  BY DEF GatewayInv, GatewayTypeOK, Refuse, Serving
<1>3. ConnectionsBounded'
  BY <1>2 DEF GatewayInv, ConnectionsBounded, Refuse
<1>4. TrackedOK'
  BY DEF GatewayInv, GatewayTypeOK, TrackedOK, Refuse
<1>5. LookupOK'
  BY DEF GatewayInv, GatewayTypeOK, LookupOK, Refuse
<1>. QED  BY <1>1, <1>3, <1>4, <1>5 DEF GatewayInv

\* An accepted socket is counted, and there was room for it.
LEMMA AcceptInv ==
  ASSUME GatewayInv, NEW s \in Sockets, Accept(s)
  PROVE  GatewayInv'
<1>. DEFINE u == Owner[s]
<1>1. GatewayTypeOK'
  BY DEF GatewayInv, GatewayTypeOK, Accept
<1>2. /\ tracked'[u] = tracked[u] \cup {s}
      /\ \A v \in Users \ {u} : tracked'[v] = tracked[v]
  BY DEF GatewayInv, GatewayTypeOK, Accept
<1>3. \A v \in Users : Serving(v)' \subseteq tracked'[v]
  BY <1>2 DEF GatewayInv, GatewayTypeOK, ConnectionsBounded, Serving, Accept
<1>4. Cardinality(tracked'[u]) <= MaxConnections
  <2>1. tracked[u] \in SUBSET Sockets /\ ~ (Cardinality(tracked[u]) >= MaxConnections)
    BY DEF GatewayInv, GatewayTypeOK, Accept, AtLimit
  <2>. QED  BY <1>2, <2>1, CountLemma
<1>5. ConnectionsBounded'
  BY <1>2, <1>3, <1>4 DEF GatewayInv, ConnectionsBounded
<1>6. TrackedOK'
  BY <1>2 DEF GatewayInv, GatewayTypeOK, TrackedOK, LookupOK, Accept
<1>7. LookupOK'
  BY DEF GatewayInv, GatewayTypeOK, LookupOK, Accept
<1>. QED  BY <1>1, <1>5, <1>6, <1>7 DEF GatewayInv

\* A socket that goes is not counted any more, unless its lookup still runs.
LEMMA DisconnectInv ==
  ASSUME GatewayInv, NEW s \in Sockets, Disconnect(s)
  PROVE  GatewayInv'
<1>1. GatewayTypeOK'
  BY DEF GatewayInv, GatewayTypeOK, Disconnect, Forget
<1>2. \A v \in Users : /\ tracked'[v] \subseteq tracked[v]
                       /\ tracked[v] \ {s} \subseteq tracked'[v]
  BY DEF GatewayInv, GatewayTypeOK, Disconnect, Forget
<1>3. \A v \in Users : Serving(v)' \subseteq Serving(v) \ {s}
  BY DEF GatewayInv, GatewayTypeOK, Disconnect, Serving
<1>4. \A v \in Users : Cardinality(tracked'[v]) <= MaxConnections
  <2>. SUFFICES ASSUME NEW v \in Users
                PROVE  Cardinality(tracked'[v]) <= MaxConnections
    OBVIOUS
  <2>1. tracked[v] \in SUBSET Sockets /\ Cardinality(tracked[v]) <= MaxConnections
    BY DEF GatewayInv, GatewayTypeOK, ConnectionsBounded
  <2>2. tracked'[v] \in SUBSET Sockets
    BY <1>1 DEF GatewayTypeOK
  <2>. QED  BY <1>2, <2>1, <2>2, CountLemma
<1>5. ConnectionsBounded'
  BY <1>2, <1>3, <1>4 DEF GatewayInv, ConnectionsBounded
<1>6. TrackedOK'
  <2>. SUFFICES ASSUME NEW v \in Users, NEW t \in tracked'[v]
                PROVE  auth'[t] = "accepted" /\ Owner[t] = v /\ (Stays(t) => link'[t] = "up")
    BY DEF TrackedOK
  <2>1. t \in Sockets /\ auth[t] = "accepted" /\ Owner[t] = v /\ (Stays(t) => link[t] = "up")
    BY <1>2 DEF GatewayInv, GatewayTypeOK, TrackedOK
  <2>2. t # s
    BY <2>1 DEF GatewayInv, GatewayTypeOK, Disconnect, Forget
  <2>. QED  BY <2>1, <2>2 DEF GatewayInv, GatewayTypeOK, Disconnect
<1>7. LookupOK'
  BY DEF GatewayInv, GatewayTypeOK, LookupOK, Disconnect
<1>. QED  BY <1>1, <1>5, <1>6, <1>7 DEF GatewayInv

\* After a restart nothing is counted and nobody is connected.
LEMMA RestartInv ==
  ASSUME GatewayInv, Restart
  PROVE  GatewayInv'
<1>1. GatewayTypeOK'
  BY DEF GatewayInv, GatewayTypeOK, Restart
<1>2. \A v \in Users : Serving(v)' = {} /\ tracked'[v] = {}
  BY DEF GatewayInv, GatewayTypeOK, Restart, Serving
<1>3. ConnectionsBounded'
  BY <1>2, EmptyLemma DEF ConnectionsBounded
<1>4. TrackedOK'
  BY <1>2 DEF TrackedOK
<1>5. LookupOK'
  BY DEF GatewayInv, GatewayTypeOK, LookupOK, Restart
<1>. QED  BY <1>1, <1>3, <1>4, <1>5 DEF GatewayInv

\* Every reachable state satisfies the invariant of the connection bookkeeping.
THEOREM GatewayInvHolds == GatewaySpec => []GatewayInv
<1>1. GatewayInv /\ [GatewayNext]_gatewayVars => GatewayInv'
  <2>. SUFFICES ASSUME GatewayInv, [GatewayNext]_gatewayVars PROVE GatewayInv'
    OBVIOUS
  <2>1. ASSUME NEW s \in Sockets, Connect(s) PROVE GatewayInv'
    BY <2>1, ConnectInv
  <2>2. ASSUME NEW s \in Sockets, Disconnect(s) PROVE GatewayInv'
    BY <2>2, DisconnectInv
  <2>3. ASSUME NEW s \in Sockets, LookupFails(s) PROVE GatewayInv'
    BY <2>3, RefuseInv DEF LookupFails
  <2>4. ASSUME NEW s \in Sockets, LimitRefuses(s) PROVE GatewayInv'
    BY <2>4, RefuseInv DEF LimitRefuses
  <2>5. ASSUME NEW s \in Sockets, Accept(s) PROVE GatewayInv'
    BY <2>5, AcceptInv
  <2>6. CASE Restart
    BY <2>6, RestartInv
  <2>7. CASE UNCHANGED gatewayVars
    BY <2>7 DEF gatewayVars, GatewayInv, GatewayTypeOK, ConnectionsBounded, Serving,
                TrackedOK, LookupOK
  <2>. QED  BY <2>1, <2>2, <2>3, <2>4, <2>5, <2>6, <2>7 DEF GatewayNext
<1>. QED  BY GatewayInitInv, <1>1, PTL DEF GatewaySpec

\* No user has more live connections than the limit, and all are counted.
THEOREM LiveConnectionsBounded == GatewaySpec => []ConnectionsBounded
<1>1. GatewayInv => ConnectionsBounded
  BY DEF GatewayInv
<1>. QED  BY <1>1, GatewayInvHolds, PTL

\* A user whose sockets stay until their lookup is answered is turned down for
\* the limit only with that many live connections.
THEOREM RefusalsAreJustified == GatewaySpec => PatientRefusedOnlyAtLimit
<1>. DEFINE Justified == \A s \in Sockets : TurnedDown(s) /\ Stays(s)
                            => Cardinality(Serving(Owner[s])) >= MaxConnections
<1>1. GatewayInv /\ [GatewayNext]_gatewayVars => Justified
  <2>. SUFFICES ASSUME GatewayInv, [GatewayNext]_gatewayVars, NEW s \in Sockets,
                       TurnedDown(s), Stays(s)
                PROVE  Cardinality(Serving(Owner[s])) >= MaxConnections
    OBVIOUS
  <2>1. LimitRefuses(s)
    BY DEF TurnedDown, GatewayNext, gatewayVars, GatewayInv, GatewayTypeOK, Connect,
           Disconnect, LookupFails, LimitRefuses, Accept, Refuse, Restart
  <2>2. Owner[s] \in Users /\ Cardinality(tracked[Owner[s]]) >= MaxConnections
    BY <2>1 DEF LimitRefuses, AtLimit
  <2>3. tracked[Owner[s]] \in SUBSET Serving(Owner[s]) /\ Serving(Owner[s]) \in SUBSET Sockets
    BY <2>2 DEF GatewayInv, GatewayTypeOK, TrackedOK, Serving, Stays
  <2>4. tracked[Owner[s]] = Serving(Owner[s])
    BY <2>2, <2>3 DEF GatewayInv, ConnectionsBounded
  <2>. QED  BY <2>2, <2>4
<1>2. GatewaySpec => [][Justified]_gatewayVars
  BY <1>1, GatewayInvHolds, PTL DEF GatewaySpec
<1>. QED  BY <1>2 DEF PatientRefusedOnlyAtLimit

-----------------------------------------------------------------------------
(* The gateway as a whole *)

\* Messages, rooms and windows leave the connections to handleConnection and
\* handleDisconnect.
LEMMA GatewayStep == [OrderGatewayNext]_orderGatewayVars => [GatewayNext]_gatewayVars
BY DEF OrderGatewayNext, orderGatewayVars, GatewayNext, gatewayVars, Handshake, Leave, Time,
       RestartAll, Message, RejectMessage, JoinOrderRoom, JoinChecked, LeaveOrderRoom,
       JoinAdminRoom

LEMMA GatewayWithin == OrderGatewaySpec => GatewaySpec
<1>1. OrderGatewayInit => GatewayInit
  BY DEF OrderGatewayInit
<1>. QED  BY <1>1, GatewayStep, PTL DEF OrderGatewaySpec, GatewaySpec

\* What a user's socket in a room is.
LEMMA ServingMeans ==
  \A s \in Sockets : s \in Serving(Owner[s]) <=> link[s] = "up" /\ auth[s] = "accepted"
BY DEF Serving

LEMMA RoomsInitInv == OrderGatewayInit => RoomsInv
BY RoomsAssumption DEF OrderGatewayInit, LimiterInit, RoomsInv, RoomsTypeOK, JoiningOK, RoomsGuarded,
       WindowsReleased

\* Steps of handleConnection: sockets only gain a user.
LEMMA HandshakeInv ==
  ASSUME GatewayInv, GatewayInv', RoomsInv, NEW s \in Sockets, Handshake(s)
  PROVE  RoomsInv'
<1>. USE DEF Handshake, limiterVars, roomVars
<1>1. \A t \in Sockets : auth[t] = "accepted" => auth'[t] = "accepted" /\ link'[t] = link[t]
  BY DEF Connect, LookupFails, LimitRefuses, Refuse, Accept, GatewayInv, GatewayTypeOK, LookupOK
<1>2. \A u \in Users : tracked[u] \subseteq tracked'[u]
  BY DEF Connect, LookupFails, LimitRefuses, Refuse, Accept, GatewayInv, GatewayTypeOK
<1>3. \A t \in Sockets : Owner[t] \in Users
  BY GatewayAssumption
<1>4. RoomsTypeOK' /\ JoiningOK'
  BY <1>1 DEF RoomsInv, RoomsTypeOK, JoiningOK, HasUser
<1>5. RoomsGuarded'
  <2>1. \A t \in Sockets : t \in Serving(Owner[t]) => t \in Serving(Owner[t])'
    BY <1>1 DEF Serving
  <2>. QED  BY <1>2, <1>3, <2>1 DEF RoomsInv, RoomsTypeOK, RoomsGuarded, MayAccess
<1>6. WindowsReleased'
  <2>. SUFFICES ASSUME NEW t \in Sockets, link'[t] = "down", windows[t] # NoWindow,
                       auth'[t] = "accepted"
                PROVE  t \in tracked'[Owner[t]]
    BY DEF WindowsReleased
  <2>1. CASE auth[t] = "accepted"
    BY <1>1, <1>2, <1>3, <2>1 DEF RoomsInv, WindowsReleased
  <2>2. CASE auth[t] # "accepted"
    BY <1>3, <2>2 DEF Connect, LookupFails, LimitRefuses, Refuse, Accept, GatewayInv, GatewayTypeOK
  <2>. QED  BY <2>1, <2>2
<1>. QED  BY <1>4, <1>5, <1>6 DEF RoomsInv

\* A socket goes: out of its rooms, its count and, if it has a user, its window.
LEMMA LeaveInv ==
  ASSUME GatewayInv, RoomsInv, NEW s \in Sockets, Leave(s)
  PROVE  RoomsInv'
<1>. USE DEF Leave, LeaveAll, Disconnect
<1>1. /\ auth' = auth
      /\ link'[s] = "down"
      /\ \A t \in Sockets \ {s} : link'[t] = link[t]
  BY DEF GatewayInv, GatewayTypeOK
<1>2. \A u \in Users : tracked[u] \ {s} \subseteq tracked'[u]
  BY DEF Forget, GatewayInv, GatewayTypeOK
<1>3. \A t \in Sockets : Owner[t] \in Users
  BY GatewayAssumption
<1>4. /\ DOMAIN windows' = Sockets
      /\ \A t \in Sockets \ {s} : windows'[t] = windows[t]
  <2>1. CASE auth[s] = "accepted"
    <3>1. windows' = [windows EXCEPT ![s] = NoWindow]
      BY <2>1 DEF ReleaseKnown, Release
    <3>. QED  BY <3>1 DEF RoomsInv, RoomsTypeOK
  <2>2. CASE auth[s] # "accepted"
    BY <2>2 DEF ReleaseKnown, limiterVars, RoomsInv, RoomsTypeOK
  <2>. QED  BY <2>1, <2>2
<1>5. RoomsTypeOK' /\ JoiningOK'
  BY <1>1, <1>4 DEF RoomsInv, RoomsTypeOK, JoiningOK, HasUser
<1>6. RoomsGuarded'
  <2>1. \A t \in Sockets \ {s} : t \in Serving(Owner[t]) => t \in Serving(Owner[t])'
    BY <1>1 DEF Serving
  <2>. QED  BY <1>2, <1>3, <2>1 DEF RoomsInv, RoomsTypeOK, RoomsGuarded, MayAccess
<1>7. WindowsReleased'
  <2>. SUFFICES ASSUME NEW t \in Sockets, link'[t] = "down", windows'[t] # NoWindow,
                       auth[t] = "accepted"
                PROVE  t \in tracked'[Owner[t]]
    BY <1>1 DEF WindowsReleased
  <2>1. CASE t = s
    <3>1. windows' = [windows EXCEPT ![s] = NoWindow]
      BY <2>1 DEF ReleaseKnown, Release
    <3>. QED  BY <2>1, <3>1 DEF RoomsInv, RoomsTypeOK
  <2>2. CASE t # s
    <3>1. windows'[t] = windows[t]
      BY <1>4, <2>2
    <3>. QED  BY <1>1, <1>2, <1>3, <2>2, <3>1 DEF RoomsInv, WindowsReleased
  <2>. QED  BY <2>1, <2>2
<1>. QED  BY <1>5, <1>6, <1>7 DEF RoomsInv

\* The process is started again.
LEMMA RestartAllInv ==
  ASSUME RestartAll
  PROVE  RoomsInv'
<1>. USE DEF RestartAll
<1>1. RoomsTypeOK' /\ JoiningOK' /\ RoomsGuarded'
  BY DEF RoomsTypeOK, JoiningOK, RoomsGuarded
<1>2. \A s \in Sockets : windows'[s] = NoWindow
  OBVIOUS
<1>3. WindowsReleased'
  BY <1>2 DEF WindowsReleased
<1>. QED  BY <1>1, <1>3 DEF RoomsInv

\* What a message does to windows, before its handler looks at it.
LEMMA MessageLemma ==
  ASSUME RoomsInv, NEW s \in Sockets, Message(s)
  PROVE  /\ UNCHANGED <<link, auth, tracked>>
         /\ WindowsReleased'
         /\ DOMAIN windows' = Sockets
<1>1. UNCHANGED <<link, auth, tracked>> /\ link[s] = "up"
  BY DEF Message, gatewayVars
<1>2. /\ DOMAIN windows' = Sockets
      /\ \A t \in Sockets \ {s} : windows'[t] = windows[t]
  BY DEF Message, OpenWindow, Open, CountMessage, RoomsInv, RoomsTypeOK
<1>3. WindowsReleased'
  BY <1>1, <1>2 DEF RoomsInv, WindowsReleased
<1>. QED  BY <1>1, <1>2, <1>3

\* Rooms shrink, or take in a socket with a user that is there and may know.
LEMMA RoomsLemma ==
  ASSUME GatewayInv, RoomsInv, UNCHANGED <<link, auth, tracked>>,
         WindowsReleased', DOMAIN windows' = Sockets,
         room' \in [Orders -> SUBSET Sockets], adminRoom' \in SUBSET Sockets,
         joining' \in SUBSET (Sockets \X Orders),
         \A s \in Sockets, o \in Orders : <<s, o>> \in joining' => <<s, o>> \in joining \/ HasUser(s),
         \A o \in Orders : \A s \in room'[o] :
           s \in room[o] \/ (link[s] = "up" /\ HasUser(s) /\ MayAccess(s, o)),
         \A s \in adminRoom' :
           s \in adminRoom \/ (link[s] = "up" /\ HasUser(s) /\ Owner[s] \in Staff)
  PROVE  RoomsInv'
<1>1. RoomsTypeOK' /\ JoiningOK'
  BY DEF RoomsTypeOK, JoiningOK, HasUser, RoomsInv
<1>2. \A s \in Sockets : link[s] = "up" /\ HasUser(s) =>
        s \in Serving(Owner[s]) /\ s \in tracked[Owner[s]]
  BY GatewayAssumption DEF HasUser, Serving, GatewayInv, ConnectionsBounded
<1>3. \A s \in Sockets : Serving(Owner[s])' = Serving(Owner[s])
  BY DEF Serving
<1>4. RoomsGuarded'
  <2>1. ASSUME NEW o \in Orders, NEW s \in room'[o]
        PROVE  s \in Serving(Owner[s])' /\ s \in tracked'[Owner[s]] /\ MayAccess(s, o)
    BY <1>2, <1>3, <2>1 DEF RoomsInv, RoomsGuarded
  <2>2. ASSUME NEW s \in adminRoom'
        PROVE  s \in Serving(Owner[s])' /\ Owner[s] \in Staff
    BY <1>2, <1>3, <2>2 DEF RoomsInv, RoomsGuarded
  <2>. QED  BY <2>1, <2>2 DEF RoomsGuarded, MayAccess
<1>. QED  BY <1>1, <1>4 DEF RoomsInv

LEMMA RoomsStepInv ==
  ASSUME GatewayInv, GatewayInv', RoomsInv, [OrderGatewayNext]_orderGatewayVars
  PROVE  RoomsInv'
<1>1. ASSUME NEW s \in Sockets, Handshake(s) PROVE RoomsInv'
  BY <1>1, HandshakeInv
<1>2. ASSUME NEW s \in Sockets, Leave(s) PROVE RoomsInv'
  BY <1>2, LeaveInv
<1>3. ASSUME NEW s \in Sockets, RejectMessage(s) PROVE RoomsInv'
  BY <1>3, MessageLemma, RoomsLemma DEF RejectMessage, roomVars, RoomsInv, RoomsTypeOK
<1>4. ASSUME NEW s \in Sockets, JoinAdminRoom(s) PROVE RoomsInv'
  <2>1. link[s] = "up"
    BY <1>4 DEF JoinAdminRoom, Message
  <2>. QED  BY <1>4, <2>1, MessageLemma, RoomsLemma DEF JoinAdminRoom, RoomsInv, RoomsTypeOK
<1>5. ASSUME NEW s \in Sockets, NEW o \in Orders, JoinOrderRoom(s, o) PROVE RoomsInv'
  BY <1>5, MessageLemma, RoomsLemma DEF JoinOrderRoom, RoomsInv, RoomsTypeOK
<1>6. ASSUME NEW s \in Sockets, NEW o \in Orders, LeaveOrderRoom(s, o) PROVE RoomsInv'
  BY <1>6, MessageLemma, RoomsLemma DEF LeaveOrderRoom, RoomsInv, RoomsTypeOK
<1>7. ASSUME NEW s \in Sockets, NEW o \in Orders, JoinChecked(s, o) PROVE RoomsInv'
  <2>1. UNCHANGED <<link, auth, tracked, windows, adminRoom>>
    BY <1>7 DEF JoinChecked, gatewayVars, limiterVars
  <2>2. WindowsReleased' /\ DOMAIN windows' = Sockets
    BY <2>1 DEF RoomsInv, RoomsTypeOK, WindowsReleased
  <2>3. HasUser(s)
    BY <1>7 DEF JoinChecked, RoomsInv, JoiningOK
  <2>. QED  BY <1>7, <2>1, <2>2, <2>3, RoomsLemma DEF JoinChecked, RoomsInv, RoomsTypeOK
<1>8. ASSUME Time \/ UNCHANGED orderGatewayVars PROVE RoomsInv'
  <2>1. UNCHANGED <<link, auth, tracked, windows, room, adminRoom, joining>>
    BY <1>8 DEF Time, Tick, gatewayVars, roomVars, limiterVars, orderGatewayVars
  <2>. QED
    BY <2>1 DEF RoomsInv, RoomsTypeOK, JoiningOK, HasUser, RoomsGuarded, WindowsReleased, Serving
<1>9. CASE RestartAll
  BY <1>9, RestartAllInv
<1>. QED
  BY <1>1, <1>2, <1>3, <1>4, <1>5, <1>6, <1>7, <1>8, <1>9 DEF OrderGatewayNext

(***************************************************************************)
(* Whoever is in a room is connected, has a user and may know of its        *)
(* orders; and only the windows of sockets that left before they had a user *)
(* are left behind.                                                         *)
(***************************************************************************)
THEOREM RoomsInvHolds == OrderGatewaySpec => []RoomsInv
<1>1. OrderGatewaySpec => []GatewayInv
  BY GatewayWithin, GatewayInvHolds, PTL
<1>2. GatewayInv /\ GatewayInv' /\ RoomsInv /\ [OrderGatewayNext]_orderGatewayVars => RoomsInv'
  BY RoomsStepInv
<1>. QED  BY <1>1, <1>2, RoomsInitInv, PTL DEF OrderGatewaySpec

\* Events of an order only reach connected sockets of users who may know of it,
\* also when messages overtake handleConnection or a join's check its socket.
THEOREM RoomsAreGuarded == OrderGatewaySpec => []RoomsGuarded
BY RoomsInvHolds, PTL DEF RoomsInv

\* handleDisconnect's release frees every window but those of sockets that left
\* before they had a user.
THEOREM WindowsAreReleased == OrderGatewaySpec => []WindowsReleased
BY RoomsInvHolds, PTL DEF RoomsInv

(***************************************************************************)
(* What is proved of the connections on their own holds of the gateway with *)
(* its messages and rooms.                                                  *)
(***************************************************************************)
THEOREM ConnectionsHold ==
  OrderGatewaySpec => []ConnectionsBounded /\ PatientRefusedOnlyAtLimit
<1>. QED  BY GatewayWithin, LiveConnectionsBounded, RefusalsAreJustified, PTL

-----------------------------------------------------------------------------
(* The limiter in the gateway *)

\* What the windows rely on of the connections: a restart forgets windows, and
\* the sockets they were of are gone.
WindowsInv == LimiterInv /\ QuietOK

\* A message of a connected socket.
LEMMA MessageInv ==
  ASSUME GatewayInv, WindowsInv, NEW s \in Sockets, Message(s)
  PROVE  WindowsInv'
<1>1. s \in Ids /\ link[s] = "up" /\ UNCHANGED link
  BY RoomsAssumption DEF Message, gatewayVars
<1>2. LimiterInv'
  BY <1>1, OpenWindowInv, CountMessageInv DEF Message, WindowsInv
<1>3. s \notin released /\ UNCHANGED released
  BY DEF Message, OpenWindow, CountMessage
<1>4. \A t \in Sockets \ {s} : windows'[t] = windows[t] /\ passed'[t] = passed[t]
  BY RoomsAssumption DEF Message, OpenWindow, Open, CountMessage, WindowsInv, LimiterInv, LimiterTypeOK
<1>5. QuietOK'
  BY <1>1, <1>3, <1>4 DEF QuietOK, WindowsInv
<1>. QED  BY <1>2, <1>5 DEF WindowsInv

\* A socket goes.
LEMMA LeaveWindows ==
  ASSUME GatewayInv, WindowsInv, NEW s \in Sockets, Leave(s)
  PROVE  WindowsInv'
<1>1. /\ link[s] = "up" /\ link'[s] = "down"
      /\ \A t \in Sockets \ {s} : link'[t] = link[t]
  BY DEF Leave, Disconnect, GatewayInv, GatewayTypeOK
<1>2. CASE auth[s] = "accepted"
  <2>1. s \in Ids /\ Release(s)
    BY <1>2, RoomsAssumption DEF Leave, ReleaseKnown
  <2>2. LimiterInv'
    BY <2>1, ReleaseInv DEF WindowsInv
  <2>3. /\ windows'[s] = NoWindow /\ released' = released \cup {s} /\ passed' = passed
        /\ \A t \in Sockets \ {s} : windows'[t] = windows[t]
    BY <2>1, RoomsAssumption DEF Release, WindowsInv, LimiterInv, LimiterTypeOK
  <2>4. QuietOK'
    BY <1>1, <2>3 DEF QuietOK, WindowsInv
  <2>. QED  BY <2>2, <2>4 DEF WindowsInv
<1>3. CASE auth[s] # "accepted"
  <2>1. UNCHANGED limiterVars
    BY <1>3 DEF Leave, ReleaseKnown
  <2>2. LimiterInv'
    BY <2>1, UntouchedInv DEF WindowsInv
  <2>3. QuietOK'
    BY <1>1, <2>1 DEF QuietOK, WindowsInv, limiterVars
  <2>. QED  BY <2>2, <2>3 DEF WindowsInv
<1>. QED  BY <1>2, <1>3

\* A restart: whoever has sent something was connected, and is gone now.
LEMMA RestartWindows ==
  ASSUME GatewayInv, WindowsInv, RestartAll
  PROVE  WindowsInv'
<1>1. /\ windows' = [s \in Sockets |-> NoWindow]
      /\ released' = {s \in Sockets : link[s] # "unused"}
      /\ now' = now /\ passed' = passed
      /\ \A s \in Sockets : link'[s] = "unused" => link[s] = "unused"
  BY DEF RestartAll, Restart
<1>2. LimiterTypeOK'
  <2>1. NoWindow \in [start : 0 .. MaxTime, count : 0 .. MaxCount + 1]
    BY DEF NoWindow
  <2>. QED  BY <1>1, <2>1, RoomsAssumption DEF WindowsInv, LimiterInv, LimiterTypeOK
<1>3. ASSUME NEW s \in Sockets PROVE WindowOK(s)' /\ Spread(passed[s])'
  <2>. DEFINE p == passed[s]
  <2>1. WindowOK(s) /\ Spread(p) /\ p \in Seq(Nat) /\ now \in Nat
    BY RoomsAssumption, SocketTypes DEF WindowsInv, LimiterInv, SlidingBound
  <2>2. (p = <<>> \/ s \in released')
    BY <1>1 DEF WindowsInv, QuietOK
  <2>3. windows'[s] = NoWindow /\ passed'[s] = p /\ now' = now
    BY <1>1
  <2>. HIDE DEF p
  <2>4. NoWindow.count = 0 /\ NoWindow.start = 0 /\ WindowFits(NoWindow, p)
    BY DEF NoWindow, WindowFits
  <2>5. Ordered(p, now)
    BY <2>1 DEF WindowOK, p
  <2>6. WindowOK(s)'
    BY <2>1, <2>2, <2>3, <2>4, <2>5 DEF WindowOK
  <2>7. Spread(passed[s])'
    BY <2>1, <2>3 DEF Spread
  <2>. QED  BY <2>6, <2>7
<1>4. QuietOK'
  BY <1>1 DEF QuietOK, WindowsInv
<1>. QED  BY <1>2, <1>3, <1>4, RoomsAssumption DEF WindowsInv, LimiterInv, SlidingBound

\* Steps that are no messages and close no connection.
LEMMA QuietSteps ==
  ASSUME GatewayInv, WindowsInv, Tick \/ UNCHANGED limiterVars,
         \A s \in Sockets : link'[s] = "unused" => link[s] = "unused"
  PROVE  WindowsInv'
<1>1. LimiterInv'
  BY UntouchedInv DEF WindowsInv
<1>2. UNCHANGED <<windows, passed, released>>
  BY DEF Tick, limiterVars
<1>3. QuietOK'
  BY <1>2 DEF QuietOK, WindowsInv
<1>. QED  BY <1>1, <1>3 DEF WindowsInv

LEMMA WindowsStepInv ==
  ASSUME GatewayInv, WindowsInv, [OrderGatewayNext]_orderGatewayVars
  PROVE  WindowsInv'
<1>1. ASSUME NEW s \in Sockets, Handshake(s) PROVE WindowsInv'
  <2>1. \A t \in Sockets : link'[t] = "unused" => link[t] = "unused"
    BY <1>1 DEF Handshake, Connect, LookupFails, LimitRefuses, Accept, Refuse, GatewayInv, GatewayTypeOK
  <2>. QED  BY <1>1, <2>1, QuietSteps DEF Handshake
<1>2. ASSUME NEW s \in Sockets, Leave(s) PROVE WindowsInv'
  BY <1>2, LeaveWindows
<1>3. ASSUME NEW s \in Sockets,
             \/ RejectMessage(s) \/ JoinAdminRoom(s)
             \/ \E o \in Orders : JoinOrderRoom(s, o) \/ LeaveOrderRoom(s, o)
      PROVE  WindowsInv'
  <2>1. Message(s)
    BY <1>3 DEF RejectMessage, JoinAdminRoom, JoinOrderRoom, LeaveOrderRoom
  <2>. QED  BY <2>1, MessageInv
<1>4. ASSUME Time \/ UNCHANGED orderGatewayVars
             \/ \E s \in Sockets, o \in Orders : JoinChecked(s, o)
      PROVE  WindowsInv'
  <2>1. (Tick \/ UNCHANGED limiterVars) /\ UNCHANGED link
    BY <1>4 DEF Time, JoinChecked, orderGatewayVars, gatewayVars
  <2>. QED  BY <2>1, QuietSteps
<1>5. CASE RestartAll
  BY <1>5, RestartWindows
<1>. QED  BY <1>1, <1>2, <1>3, <1>4, <1>5 DEF OrderGatewayNext

\* Windows, messages and connections fit together in every state of the gateway.
THEOREM OrderGatewayInvHolds == OrderGatewaySpec => []OrderGatewayInv
<1>1. OrderGatewayInit => WindowsInv
  BY LimiterInitInv, RoomsAssumption DEF OrderGatewayInit, GatewayInit, LimiterInit, WindowsInv, QuietOK
<1>2. GatewayInv /\ WindowsInv /\ [OrderGatewayNext]_orderGatewayVars => WindowsInv'
  BY WindowsStepInv
<1>3. OrderGatewaySpec => []GatewayInv
  BY GatewayWithin, GatewayInvHolds, PTL
<1>4. OrderGatewaySpec => []WindowsInv
  BY <1>1, <1>2, <1>3, PTL DEF OrderGatewaySpec
<1>5. GatewayInv /\ WindowsInv /\ RoomsInv => OrderGatewayInv
  BY DEF WindowsInv, OrderGatewayInv
<1>. QED  BY <1>3, <1>4, <1>5, RoomsInvHolds, PTL

\* allow lets less than twice the limit pass in any interval as long as a window,
\* also when sockets come and go and the process is started again.
THEOREM MessagesBounded == OrderGatewaySpec => []SlidingBound
<1>1. OrderGatewayInv => SlidingBound
  BY DEF OrderGatewayInv, LimiterInv
<1>. QED  BY <1>1, OrderGatewayInvHolds, PTL

\* Only a message is turned away: Release and a restart that forget a window
\* change who is released.
LEMMA TurnedAwayJustified ==
  ASSUME WindowsInv, [OrderGatewayNext]_orderGatewayVars
  PROVE  [RejectionJustified]_limiterVars
<1>. SUFFICES ASSUME NEW s \in Ids, TurnedAway(s)
              PROVE  LET n == Len(passed[s])
                     IN  n >= Limit /\ now - passed[s][n - Limit + 1] < WindowMs
  BY DEF RejectionJustified
<1>1. windows'[s] # windows[s] /\ passed'[s] = passed[s] /\ released' = released
  BY DEF TurnedAway
<1>2. ~ UNCHANGED limiterVars /\ ~ Tick
  BY <1>1 DEF limiterVars, Tick
<1>3. ~ RestartAll
  <2>. SUFFICES ASSUME RestartAll PROVE FALSE
    OBVIOUS
  <2>1. windows'[s] = NoWindow /\ released' = {t \in Sockets : link[t] # "unused"} /\ s \in Sockets
    BY RoomsAssumption DEF RestartAll
  <2>. QED  BY <1>1, <2>1 DEF WindowsInv, QuietOK
<1>4. ASSUME NEW t \in Sockets, Leave(t) PROVE FALSE
  BY <1>1, <1>2, <1>4 DEF Leave, ReleaseKnown, Release
<1>5. PICK t \in Sockets : Message(t)
  <2>1. ~ UNCHANGED orderGatewayVars /\ ~ Time
    BY <1>2 DEF orderGatewayVars, Time
  <2>2. \A t \in Sockets : ~ Handshake(t) /\ (\A o \in Orders : ~ JoinChecked(t, o))
    BY <1>2 DEF Handshake, JoinChecked
  <2>. QED
    BY <1>3, <1>4, <2>1, <2>2
       DEF OrderGatewayNext, RejectMessage, JoinAdminRoom, JoinOrderRoom, LeaveOrderRoom
<1>6. LimiterInv /\ t \in Ids /\ (OpenWindow(t) \/ CountMessage(t))
  BY <1>5, RoomsAssumption DEF WindowsInv, Message
<1>. QED  BY <1>1, <1>6, OnlyCounted, CountMessageJustified

\* allow turns no message away before the limit has passed within the last
\* WindowMs milliseconds, in the gateway as a whole.
THEOREM MessagesNotThrottledEarly == OrderGatewaySpec => RejectionsJustified
<1>1. OrderGatewayInv /\ [OrderGatewayNext]_orderGatewayVars => [RejectionJustified]_limiterVars
  BY TurnedAwayJustified DEF OrderGatewayInv, WindowsInv
<1>2. OrderGatewaySpec => [][RejectionJustified]_limiterVars
  BY <1>1, OrderGatewayInvHolds, PTL DEF OrderGatewaySpec
<1>. QED  BY <1>2 DEF RejectionsJustified
=============================================================================
