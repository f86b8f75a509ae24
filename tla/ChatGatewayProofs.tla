-------------------------- MODULE ChatGatewayProofs -------------------------
(***************************************************************************)
(* Proofs that clients of ChatGateway only see messages that are stored,    *)
(* and that a client who joins and then reads the history misses none, for  *)
(* any messages, clients and pages, whatever fails, crashes and disconnects *)
(* (a message whose handler did not learn that it is stored passes by).     *)
(***************************************************************************)
EXTENDS ChatGateway, FiniteSetTheorems, WellFoundedInduction, TLAPS

USE ChatAssumption, FaultsAssumption

LEMMA ChatInitInv == ChatInit => ChatInv
BY DEF ChatInit, ChatInv, ChatTypeOK, SeenIsStored, NoPage, FaultsInit, FaultsTypeOK

\* Sending, storing and broadcasting.
LEMMA SendingInv ==
  ASSUME ChatInv, NEW m \in Messages,
         Send(m) \/ Store(m) \/ StoreFails(m) \/ StoreUnanswered(m) \/ Emit(m)
  PROVE  ChatInv'
<1>. USE DEF ChatInv, ChatTypeOK, SeenIsStored, SendGoto, FaultsTypeOK, Fault
<1>1. CASE Send(m)
  BY <1>1 DEF Send
<1>2. CASE Store(m)
  BY <1>2 DEF Store, AfterStore
<1>3. CASE StoreFails(m)
  BY <1>3 DEF StoreFails
<1>4. CASE StoreUnanswered(m)
  BY <1>4 DEF StoreUnanswered
<1>5. CASE Emit(m)
  BY <1>5 DEF Emit
<1>. QED  BY <1>1, <1>2, <1>3, <1>4, <1>5

\* Joining the room, failing, disconnecting and crashing give no client a message.
LEMMA RoomInv ==
  ASSUME ChatInv,
         (\E c \in Clients : JoinStart(c) \/ Join(c) \/ QueryFails(c) \/ Disconnect(c)) \/ Crash
  PROVE  ChatInv'
<1>. USE DEF ChatInv, ChatTypeOK, SeenIsStored, AskGoto, NoPage, FaultsTypeOK, Fault
<1>1. ASSUME NEW c \in Clients, JoinStart(c) PROVE ChatInv'
  BY <1>1 DEF JoinStart
<1>2. ASSUME NEW c \in Clients, Join(c) PROVE ChatInv'
  BY <1>2 DEF Join
<1>3. ASSUME NEW c \in Clients, Disconnect(c) PROVE ChatInv'
  BY <1>3 DEF Disconnect
<1>4. ASSUME NEW c \in Clients, QueryFails(c) PROVE ChatInv'
  BY <1>4 DEF QueryFails
<1>5. CASE Crash
  BY <1>5 DEF Crash
<1>. QED  BY <1>1, <1>2, <1>3, <1>4, <1>5

\* A page holds stored messages when it is read, and nothing is unstored.
LEMMA HistoryInv ==
  ASSUME ChatInv, NEW c \in Clients,
         (\E offset \in Offsets : AskHistory(c, offset)) \/ ReadHistory(c) \/ AnswerHistory(c)
  PROVE  ChatInv'
<1>. USE DEF ChatInv, ChatTypeOK, SeenIsStored, AskGoto, NoPage, FaultsTypeOK
<1>1. ASSUME NEW offset \in Offsets, AskHistory(c, offset) PROVE ChatInv'
  BY <1>1 DEF AskHistory
<1>2. CASE ReadHistory(c)
  <2>1. Page(page[c].offset) \subseteq stored
    BY DEF Page
  <2>. QED  BY <1>2, <2>1 DEF ReadHistory
<1>3. CASE AnswerHistory(c)
  BY <1>3 DEF AnswerHistory, Answer
<1>. QED  BY <1>1, <1>2, <1>3

LEMMA ChatStepInv == ChatInv /\ [ChatNext]_chatVars => ChatInv'
<1>. SUFFICES ASSUME ChatInv, [ChatNext]_chatVars PROVE ChatInv'
  OBVIOUS
<1>1. CASE UNCHANGED chatVars
  BY <1>1 DEF chatVars, ChatInv, ChatTypeOK, SeenIsStored, FaultsTypeOK
<1>2. CASE ChatNext
  BY <1>2, SendingInv, RoomInv, HistoryInv DEF ChatNext
<1>. QED  BY <1>1, <1>2

\* The invariant of ChatGateway's handlers.
THEOREM ChatInvHolds == ChatSpec => []ChatInv
BY ChatInitInv, ChatStepInv, PTL DEF ChatSpec

\* chat_message and chat_history only show rows that are committed.
THEOREM ClientsSeeStoredMessages == ChatSpec => []SeenIsStored
<1>1. ChatInv => SeenIsStored
  BY DEF ChatInv
<1>. QED  BY <1>1, ChatInvHolds, PTL

-----------------------------------------------------------------------------
(* Counting in the order in which messages were sent *)

\* A family of finite sets has a smallest one.
LEMMA SmallestSetLemma ==
  ASSUME NEW S, NEW F \in SUBSET FiniteSubsetsOf(S), F # {}
  PROVE  \E T \in F : \A U \in F : U \subseteq T => U = T
<1>1. IsWellFoundedOn(StrictSubsetOrdering(S), FiniteSubsetsOf(S))
  BY FS_StrictSubsetOrderingWellFounded
<1>2. PICK T \in F : \A U \in F : <<U, T>> \notin StrictSubsetOrdering(S)
  BY <1>1, WFMin
<1>3. ASSUME NEW U \in F, U \subseteq T, U # T PROVE FALSE
  <2>1. <<U, T>> \in (SUBSET S) \X (SUBSET S)
    BY DEF FiniteSubsetsOf
  <2>2. <<U, T>> \in StrictSubsetOrdering(S)
    BY <1>3, <2>1 DEF StrictSubsetOrdering
  <2>. QED  BY <1>2, <2>2
<1>. QED  BY <1>3

\* A bounded set of numbers has a largest one: the one with the fewest above it.
LEMMA LargestLemma ==
  ASSUME NEW n \in Nat, NEW A \in SUBSET (1 .. n), A # {}
  PROVE  \E j \in A : \A k \in A : k <= j
<1>. DEFINE Above(j) == {k \in A : k > j}
            F == {Above(j) : j \in A}
<1>1. IsFiniteSet(A)
  <2>1. IsFiniteSet(1 .. n)
    BY FS_Interval
  <2>. QED  BY <2>1, FS_Subset
<1>2. ASSUME NEW j \in A PROVE Above(j) \in FiniteSubsetsOf(A)
  <2>1. Above(j) \in SUBSET A
    OBVIOUS
  <2>. HIDE DEF Above
  <2>. QED  BY <1>1, <2>1, FS_Subset DEF FiniteSubsetsOf
<1>3. F \in SUBSET FiniteSubsetsOf(A) /\ F # {}
  BY <1>2
<1>. HIDE DEF F
<1>4. PICK T \in F : \A U \in F : U \subseteq T => U = T
  BY <1>3, SmallestSetLemma
<1>5. PICK j \in A : T = Above(j)
  BY DEF F
<1>6. ASSUME NEW k \in A, k > j PROVE FALSE
  <2>1. Above(k) \in F
    BY DEF F
  <2>2. Above(k) \subseteq Above(j)
    <3>1. ASSUME NEW x \in A, x > k PROVE x > j
      BY <1>6, <3>1
    <3>. QED  BY <3>1
  <2>3. k \in Above(j)
    BY <1>6
  <2>4. k \notin Above(k)
    OBVIOUS
  <2>. HIDE DEF Above
  <2>. QED  BY <1>4, <1>5, <2>1, <2>2, <2>3, <2>4
<1>. QED  BY <1>6

\* The messages of K that were sent after m.
Newer(K, m) == {n \in K : After(n, m)}

LEMMA RangeLemma ==
  ASSUME NEW s \in Seq(Messages)
  PROVE  IsFiniteSet({s[i] : i \in DOMAIN s})
<1>. DEFINE S == DOMAIN s
            T == {s[i] : i \in S}
<1>1. IsFiniteSet(S)
  BY FS_Interval
<1>2. s \in Surjection(S, T)
  BY DEF Surjection
<1>. HIDE DEF S, T
<1>3. IsFiniteSet(T)
  BY <1>1, <1>2, FS_Surjection
<1>. QED  BY <1>3 DEF S, T

\* There are finitely many of them, and no fewer in a larger set.
LEMMA NewerLemma ==
  ASSUME stamped \in Seq(Messages), NEW K, NEW m
  PROVE  /\ IsFiniteSet(Newer(K, m))
         /\ Cardinality(Newer(K, m)) \in Nat
         /\ \A T \in SUBSET Newer(K, m) : /\ IsFiniteSet(T)
                                         /\ Cardinality(T) \in Nat
                                         /\ Cardinality(T) <= Cardinality(Newer(K, m))
<1>1. IsFiniteSet({stamped[i] : i \in DOMAIN stamped})
  BY RangeLemma
<1>2. Newer(K, m) \in SUBSET {stamped[i] : i \in DOMAIN stamped}
  BY DEF Newer, After
<1>3. IsFiniteSet(Newer(K, m))
  BY <1>1, <1>2, FS_Subset
<1>4. ASSUME NEW T \in SUBSET Newer(K, m)
      PROVE  IsFiniteSet(T) /\ Cardinality(T) <= Cardinality(Newer(K, m))
  BY <1>3, <1>4, FS_Subset
<1>. QED  BY <1>3, <1>4, FS_CardinalityType

\* A message is sent once.
SentOnce ==
  /\ \A i, j \in DOMAIN stamped : stamped[i] = stamped[j] => i = j
  /\ \A i \in DOMAIN stamped : sending[stamped[i]] # "unsent"

\* A stored message that the newest page leaves out is older than a whole page:
\* of the newer ones, all that follow the last one left out are on the page.
LEMMA PageLemma ==
  ASSUME ChatTypeOK, SentOnce, NEW m \in stored, m \notin Page(0)
  PROVE  Cardinality(Newer(Page(0), m)) >= PageSize
<1>. DEFINE S == Newer(stored, m)
            U == Newer(Page(0), m)
            Left == {j \in DOMAIN stamped : stamped[j] \in S \ U}
<1>1. stamped \in Seq(Messages) /\ PageSize \in Nat
  BY DEF ChatTypeOK
<1>2. \A n \in stored : n \in Page(0) <=> Cardinality(Newer(stored, n)) < PageSize
  <2>1. ASSUME NEW n \in stored PROVE Cardinality(Newer(stored, n)) \in Nat
    BY <1>1, NewerLemma
  <2>. QED  BY <1>1, <2>1 DEF Page, Newer
<1>3. SUFFICES ASSUME Cardinality(U) < PageSize PROVE FALSE
  BY <1>1, NewerLemma
<1>4. U \subseteq S
  BY DEF Newer, Page
<1>5. S # U
  BY <1>2, <1>3
<1>6. Left # {}
  <2>1. PICK n \in S : n \notin U
    BY <1>4, <1>5
  <2>. QED  BY <2>1 DEF Newer, After
<1>7. PICK j \in Left : \A k \in Left : k <= j
  <2>1. Left \in SUBSET (1 .. Len(stamped)) /\ Len(stamped) \in Nat
    BY <1>1
  <2>. HIDE DEF Left
  <2>. QED  BY <1>6, <2>1, LargestLemma
<1>8. stamped[j] \in stored /\ After(stamped[j], m) /\ stamped[j] \notin Page(0)
  BY <1>7 DEF Newer
<1>9. PICK a \in DOMAIN stamped : a < j /\ stamped[a] = m
  BY <1>1, <1>7, <1>8 DEF After, SentOnce
<1>10. Newer(stored, stamped[j]) \subseteq U
  <2>1. SUFFICES ASSUME NEW x \in stored, After(x, stamped[j]), x \notin U PROVE FALSE
    BY DEF Newer
  <2>2. PICK b \in DOMAIN stamped : j < b /\ stamped[b] = x
    BY <1>1, <1>7, <2>1 DEF After, SentOnce
  <2>3. After(x, m)
    BY <1>1, <1>9, <2>2 DEF After
  <2>4. b \in Left
    BY <2>1, <2>2, <2>3 DEF Newer
  <2>. QED  BY <1>1, <1>7, <2>2, <2>4
<1>11. Cardinality(Newer(stored, stamped[j])) < PageSize
  <2>1. /\ Cardinality(Newer(stored, stamped[j])) \in Nat /\ Cardinality(U) \in Nat
        /\ Cardinality(Newer(stored, stamped[j])) <= Cardinality(U)
    BY <1>1, <1>10, NewerLemma
  <2>. QED  BY <1>1, <1>3, <2>1
<1>. QED  BY <1>2, <1>8, <1>11

-----------------------------------------------------------------------------
(* No message is missed *)

\* Someone in the room who has K need not worry about the message m.
Covered(m, K) ==
  \/ m \in K
  \/ sending[m] = "emit"
  \/ NeverBroadcast(m)
  \/ Cardinality(Newer(K, m)) >= PageSize

Fresh(K) == \A m \in stored : Covered(m, K)

\* A newest page that was read in the room, with what has been broadcast since,
\* leaves nothing out.
PagesFresh ==
  \A c \in room : (asking[c] = "answer" /\ page[c].offset = 0) =>
    Fresh(known[c] \cup page[c].messages)

SyncedFresh == synced \subseteq room /\ \A c \in synced : Fresh(known[c])

SyncInv == ChatInv /\ SentOnce /\ PagesFresh /\ SyncedFresh

\* How the messages may move on in a step: none loses its place, and those that
\* are stored now are about to be broadcast, or never will be.
MessagesMoveOn ==
  /\ stamped' \in Seq(Messages)
  /\ \A n, m : After(n, m) => After(n, m)'
  /\ \A m \in stored' : m \in stored \/ sending'[m] = "emit" \/ NeverBroadcast(m)'
  /\ \A m \in stored : NeverBroadcast(m) => NeverBroadcast(m)'

\* Then a client who learns what is broadcast keeps up.
LEMMA FreshLemma ==
  ASSUME ChatTypeOK, MessagesMoveOn, NEW K, NEW L, K \subseteq L, Fresh(K),
         \A m \in stored : sending[m] = "emit" => sending'[m] = "emit" \/ m \in L
  PROVE  Fresh(L)'
<1>1. SUFFICES ASSUME NEW m \in stored, Covered(m, K), Cardinality(Newer(K, m)) >= PageSize
               PROVE  Cardinality(Newer(L, m)') >= PageSize
  BY DEF Fresh, Covered, MessagesMoveOn
<1>. DEFINE New == Newer(L, m)'
<1>2. Newer(K, m) \in SUBSET New
  BY DEF Newer, MessagesMoveOn
<1>3. IsFiniteSet(New)
  <2>1. IsFiniteSet({stamped'[i] : i \in DOMAIN stamped'})
    BY RangeLemma DEF MessagesMoveOn
  <2>2. New \in SUBSET {stamped'[i] : i \in DOMAIN stamped'}
    BY DEF Newer, After
  <2>. QED  BY <2>1, <2>2, FS_Subset
<1>. HIDE DEF New
<1>4. Cardinality(Newer(K, m)) <= Cardinality(New) /\ Cardinality(New) \in Nat
  BY <1>2, <1>3, FS_Subset, FS_CardinalityType
<1>5. Cardinality(Newer(K, m)) \in Nat
  BY NewerLemma DEF ChatTypeOK
<1>6. Cardinality(New) >= PageSize
  BY <1>1, <1>4, <1>5
<1>. QED  BY <1>6 DEF New

\* Steps that send, store or broadcast a message.
LEMMA SendMovesOn ==
  ASSUME ChatInv, SentOnce, NEW m \in Messages, Send(m)
  PROVE  MessagesMoveOn /\ SentOnce'
<1>. DEFINE n == Len(stamped)
<1>1. /\ stamped \in Seq(Messages) /\ n \in Nat
      /\ stamped' \in Seq(Messages) /\ Len(stamped') = n + 1
      /\ stamped'[n + 1] = m
      /\ \A i \in 1 .. n : stamped'[i] = stamped[i]
  BY DEF Send, ChatInv, ChatTypeOK
<1>2. /\ sending'[m] = "store" /\ sending[m] = "unsent"
      /\ \A q \in Messages \ {m} : sending'[q] = sending[q]
      /\ stored' = stored
  BY DEF Send, SendGoto, ChatInv, ChatTypeOK
<1>0. \A q \in stored : NeverBroadcast(q) => NeverBroadcast(q)'
  BY <1>2 DEF NeverBroadcast, ChatInv, ChatTypeOK
<1>. HIDE DEF n
<1>3. DOMAIN stamped = 1 .. n /\ DOMAIN stamped' = 1 .. n + 1
  BY <1>1 DEF n
<1>4. ASSUME NEW x, NEW y, After(x, y) PROVE After(x, y)'
  <2>1. PICK i \in 1 .. n, j \in 1 .. n : i < j /\ stamped[i] = y /\ stamped[j] = x
    BY <1>3, <1>4 DEF After
  <2>2. i \in 1 .. n + 1 /\ j \in 1 .. n + 1
    BY <1>1
  <2>. QED  BY <1>1, <1>3, <2>1, <2>2 DEF After
<1>5. MessagesMoveOn
  BY <1>1, <1>2, <1>4, <1>0 DEF MessagesMoveOn
<1>6. \A i \in 1 .. n : stamped[i] # m /\ stamped[i] \in Messages /\ sending[stamped[i]] # "unsent"
  BY <1>1, <1>2, <1>3 DEF SentOnce
<1>7. \A i \in 1 .. n + 1 : i \in 1 .. n \/ i = n + 1
  BY <1>1
<1>8. SentOnce'
  BY <1>1, <1>2, <1>3, <1>6, <1>7 DEF SentOnce
<1>. QED  BY <1>5, <1>8

LEMMA OthersMoveOn ==
  ASSUME ChatInv, SentOnce, UNCHANGED stamped,
         \A m \in Messages : sending'[m] = "unsent" => sending[m] = "unsent",
         \A m \in stored' : m \in stored \/ sending'[m] = "emit" \/ NeverBroadcast(m)',
         \A m \in stored : NeverBroadcast(m) => NeverBroadcast(m)'
  PROVE  MessagesMoveOn /\ SentOnce'
BY DEF MessagesMoveOn, SentOnce, After, ChatInv, ChatTypeOK

\* Steps at which clients lose nothing and get no page: who is in sync, or is
\* about to receive a page, stays so.
LEMMA QuietLemma ==
  ASSUME SyncInv, MessagesMoveOn,
         room' \subseteq room \cup {c \in Clients : asking'[c] # "answer"},
         synced' \subseteq synced \cap room',
         \A c \in room \cap room' :
           /\ known[c] \subseteq known'[c]
           /\ \A m \in stored : sending[m] = "emit" => sending'[m] = "emit" \/ m \in known'[c]
           /\ asking'[c] = "answer" => asking[c] = "answer" /\ page'[c] = page[c]
  PROVE  PagesFresh' /\ SyncedFresh'
<1>. USE DEF SyncInv, ChatInv
<1>1. ASSUME NEW c \in room', asking'[c] = "answer", page'[c].offset = 0
      PROVE  Fresh(known[c] \cup page[c].messages)'
  <2>1. c \in room /\ asking[c] = "answer" /\ page'[c] = page[c] /\ known[c] \subseteq known'[c]
    BY <1>1
  <2>2. Fresh(known[c] \cup page[c].messages)
    BY <1>1, <2>1 DEF PagesFresh
  <2>. DEFINE K == known[c] \cup page[c].messages
              L == known'[c] \cup page'[c].messages
  <2>3. K \subseteq L /\ \A m \in stored : sending[m] = "emit" => sending'[m] = "emit" \/ m \in L
    BY <2>1
  <2>. QED  BY <2>2, <2>3, FreshLemma DEF Fresh, Covered, Newer
<1>2. ASSUME NEW c \in synced' PROVE Fresh(known[c])'
  <2>1. c \in synced /\ c \in room /\ c \in room' /\ Fresh(known[c])
    BY DEF SyncedFresh
  <2>. QED  BY <2>1, FreshLemma DEF Fresh, Covered, Newer
<1>. QED  BY <1>1, <1>2 DEF PagesFresh, SyncedFresh

LEMMA SyncSending ==
  ASSUME SyncInv, NEW m \in Messages,
         Send(m) \/ Store(m) \/ StoreFails(m) \/ StoreUnanswered(m) \/ Emit(m)
  PROVE  SentOnce' /\ PagesFresh' /\ SyncedFresh'
<1>. USE DEF SyncInv, ChatInv, ChatTypeOK
<1>1. MessagesMoveOn /\ SentOnce'
  <2>1. CASE Send(m)
    BY <2>1, SendMovesOn
  <2>2. CASE Store(m)
    <3>1. /\ UNCHANGED stamped
          /\ \A n \in Messages : sending'[n] = "unsent" => sending[n] = "unsent"
          /\ \A n \in stored' : n \in stored \/ sending'[n] = "emit" \/ NeverBroadcast(n)'
          /\ \A n \in stored : NeverBroadcast(n) => NeverBroadcast(n)'
      BY <2>2 DEF Store, SendGoto, AfterStore, NeverBroadcast
    <3>. QED  BY <3>1, OthersMoveOn
  <2>3. CASE Emit(m)
    <3>1. /\ UNCHANGED <<stamped, stored>>
          /\ \A n \in Messages : sending'[n] = "unsent" => sending[n] = "unsent"
          /\ \A n \in stored : NeverBroadcast(n) => NeverBroadcast(n)'
      BY <2>3 DEF Emit, SendGoto, NeverBroadcast
    <3>. QED  BY <3>1, OthersMoveOn
  <2>4. CASE StoreFails(m)
    <3>1. /\ UNCHANGED <<stamped, stored>>
          /\ \A n \in Messages : sending'[n] = "unsent" => sending[n] = "unsent"
          /\ \A n \in stored : NeverBroadcast(n) => NeverBroadcast(n)'
      BY <2>4 DEF StoreFails, SendGoto, NeverBroadcast
    <3>. QED  BY <3>1, OthersMoveOn
  <2>5. CASE StoreUnanswered(m)
    <3>1. /\ UNCHANGED stamped
          /\ \A n \in Messages : sending'[n] = "unsent" => sending[n] = "unsent"
          /\ \A n \in stored' : n \in stored \/ NeverBroadcast(n)'
          /\ \A n \in stored : NeverBroadcast(n) => NeverBroadcast(n)'
      BY <2>5 DEF StoreUnanswered, SendGoto, NeverBroadcast
    <3>. QED  BY <3>1, OthersMoveOn
  <2>. QED  BY <2>1, <2>2, <2>3, <2>4, <2>5
<1>2. /\ UNCHANGED <<room, synced, asking, page>>
      /\ \A c \in room : /\ known[c] \subseteq known'[c]
                        /\ \A n \in stored : sending[n] = "emit" =>
                             sending'[n] = "emit" \/ n \in known'[c]
  BY DEF Send, Store, StoreFails, StoreUnanswered, Emit, SendGoto
<1>3. synced' \subseteq synced \cap room'
  BY <1>2 DEF SyncedFresh
<1>. QED  BY <1>1, <1>2, <1>3, QuietLemma

LEMMA SyncRoom ==
  ASSUME SyncInv, NEW c \in Clients,
         \/ JoinStart(c) \/ Join(c) \/ QueryFails(c) \/ Disconnect(c)
         \/ \E offset \in Offsets : AskHistory(c, offset)
  PROVE  SentOnce' /\ PagesFresh' /\ SyncedFresh'
<1>. USE DEF SyncInv, ChatInv, ChatTypeOK
<1>1. UNCHANGED <<stamped, stored, sending>>
  BY DEF JoinStart, Join, QueryFails, Disconnect, AskHistory
<1>2. MessagesMoveOn /\ SentOnce'
  BY <1>1, OthersMoveOn DEF NeverBroadcast
<1>3. room' \subseteq room \cup {d \in Clients : asking'[d] # "answer"}
  BY DEF JoinStart, Join, QueryFails, Disconnect, AskHistory, AskGoto
<1>4. synced' \subseteq synced \cap room'
  BY DEF JoinStart, Join, QueryFails, Disconnect, AskHistory, SyncedFresh
<1>5. \A d \in room \cap room' :
        /\ known[d] \subseteq known'[d]
        /\ asking'[d] = "answer" => asking[d] = "answer" /\ page'[d] = page[d]
  BY DEF JoinStart, Join, QueryFails, Disconnect, AskHistory, AskGoto
<1>. QED  BY <1>1, <1>2, <1>3, <1>4, <1>5, QuietLemma

LEMMA SyncCrash ==
  ASSUME SyncInv, Crash
  PROVE  SentOnce' /\ PagesFresh' /\ SyncedFresh'
<1>1. /\ UNCHANGED <<stamped, stored>>
      /\ \A m \in Messages : sending'[m] = "unsent" => sending[m] = "unsent"
      /\ \A m \in stored : NeverBroadcast(m) => NeverBroadcast(m)'
      /\ room' = {} /\ synced' = {}
  BY DEF Crash, NeverBroadcast, SyncInv, ChatInv, ChatTypeOK
<1>2. SentOnce'
  BY <1>1, OthersMoveOn DEF SyncInv
<1>. QED  BY <1>1, <1>2 DEF PagesFresh, SyncedFresh

\* What a page of the newest messages leaves out is covered by the page.
LEMMA SyncRead ==
  ASSUME SyncInv, NEW c \in Clients, ReadHistory(c)
  PROVE  SentOnce' /\ PagesFresh' /\ SyncedFresh'
<1>. USE DEF SyncInv, ChatInv, ChatTypeOK
<1>1. /\ UNCHANGED <<stamped, stored, sending, room, known, synced>>
      /\ page'[c].messages = Page(page[c].offset) /\ page'[c].offset = page[c].offset
      /\ \A d \in Clients \ {c} : page'[d] = page[d] /\ asking'[d] = asking[d]
  BY DEF ReadHistory, AskGoto
<1>2. SentOnce'
  BY <1>1 DEF SentOnce
<1>3. \A K : Fresh(K) => Fresh(K)'
  BY <1>1 DEF Fresh, Covered, Newer, After, NeverBroadcast
<1>4. SyncedFresh'
  BY <1>1, <1>3 DEF SyncedFresh, Fresh, Covered, Newer, After, NeverBroadcast
<1>5. ASSUME page[c].offset = 0 PROVE Fresh(known[c] \cup Page(0))
  <2>1. \A m \in stored \ Page(0) : Cardinality(Newer(Page(0), m)) >= PageSize
    BY PageLemma
  <2>2. ASSUME NEW m \in stored, Cardinality(Newer(Page(0), m)) >= PageSize
        PROVE  Cardinality(Newer(known[c] \cup Page(0), m)) >= PageSize
    <3>1. Newer(Page(0), m) \in SUBSET Newer(known[c] \cup Page(0), m)
      BY DEF Newer
    <3>2. /\ Cardinality(Newer(Page(0), m)) \in Nat
          /\ Cardinality(Newer(known[c] \cup Page(0), m)) \in Nat
          /\ Cardinality(Newer(Page(0), m)) <= Cardinality(Newer(known[c] \cup Page(0), m))
      BY <3>1, NewerLemma
    <3>. QED  BY <2>2, <3>2
  <2>. QED  BY <2>1, <2>2 DEF Fresh, Covered
<1>6. PagesFresh'
  <2>1. SUFFICES ASSUME NEW d \in room', asking'[d] = "answer", page'[d].offset = 0
                 PROVE  Fresh(known[d] \cup page[d].messages)'
    BY DEF PagesFresh
  <2>2. CASE d = c
    BY <1>1, <1>5, <2>1, <2>2 DEF Fresh, Covered, Newer, After, NeverBroadcast
  <2>3. CASE d # c
    <3>1. Fresh(known[d] \cup page[d].messages)
      BY <1>1, <2>1, <2>3 DEF PagesFresh
    <3>. QED  BY <1>1, <2>3, <3>1 DEF Fresh, Covered, Newer, After, NeverBroadcast
  <2>. QED  BY <2>2, <2>3
<1>. QED  BY <1>2, <1>4, <1>6

LEMMA SyncAnswer ==
  ASSUME SyncInv, NEW c \in Clients, AnswerHistory(c)
  PROVE  SentOnce' /\ PagesFresh' /\ SyncedFresh'
<1>. USE DEF SyncInv, ChatInv, ChatTypeOK
<1>1. /\ UNCHANGED <<stamped, stored, sending, room>>
      /\ asking[c] = "answer" /\ asking'[c] = "idle"
      /\ known'[c] = known[c] \cup page[c].messages
      /\ synced' \subseteq synced \cup {c}
      /\ c \in synced' \ synced => c \in room /\ page[c].offset = 0
      /\ \A d \in Clients \ {c} : page'[d] = page[d] /\ asking'[d] = asking[d] /\ known'[d] = known[d]
  BY DEF AnswerHistory, Answer, AskGoto
<1>2. MessagesMoveOn /\ SentOnce'
  BY <1>1, OthersMoveOn DEF NeverBroadcast
<1>3. PagesFresh'
  <2>1. SUFFICES ASSUME NEW d \in room', asking'[d] = "answer", page'[d].offset = 0
                 PROVE  Fresh(known[d] \cup page[d].messages)'
    BY DEF PagesFresh
  <2>2. d # c /\ Fresh(known[d] \cup page[d].messages)
    BY <1>1, <2>1 DEF PagesFresh
  <2>. QED  BY <1>1, <2>2 DEF Fresh, Covered, Newer, After, NeverBroadcast
<1>4. ASSUME NEW d \in synced' PROVE Fresh(known[d])'
  <2>1. CASE d \in synced
    <3>1. Fresh(known[d]) /\ known[d] \subseteq known'[d]
      BY <1>1, <2>1 DEF SyncedFresh
    <3>2. \A m \in stored : sending[m] = "emit" => sending'[m] = "emit"
      BY <1>1
    <3>3. ChatTypeOK
      OBVIOUS
    <3>. HIDE DEF ChatTypeOK
    <3>. QED  BY <1>2, <3>1, <3>2, <3>3, FreshLemma DEF Fresh, Covered, Newer
  <2>2. CASE d \notin synced
    <3>1. d = c /\ Fresh(known[c] \cup page[c].messages)
      BY <1>1, <2>2 DEF PagesFresh
    <3>. QED  BY <1>1, <3>1 DEF Fresh, Covered, Newer, After, NeverBroadcast
  <2>. QED  BY <2>1, <2>2
<1>5. synced' \subseteq room'
  BY <1>1 DEF SyncedFresh
<1>. QED  BY <1>2, <1>3, <1>4, <1>5 DEF SyncedFresh

LEMMA SyncStep == SyncInv /\ [ChatNext]_chatVars => SyncInv'
<1>. SUFFICES ASSUME SyncInv, [ChatNext]_chatVars PROVE SentOnce' /\ PagesFresh' /\ SyncedFresh'
  BY ChatStepInv DEF SyncInv
<1>1. CASE UNCHANGED chatVars
  BY <1>1 DEF chatVars, SyncInv, SentOnce, PagesFresh, SyncedFresh, Fresh, Covered, Newer, After, NeverBroadcast
<1>2. CASE ChatNext
  BY <1>2, SyncSending, SyncRoom, SyncCrash, SyncRead, SyncAnswer DEF ChatNext
<1>. QED  BY <1>1, <1>2

\* A client that has joined and then got the newest page keeps up with the chat
\* (handleJoinChatRoom, handleRequestChatHistory, handleSendMessage).
THEOREM NobodyMissesAMessage == ChatSpec => []NoMessageMissed
<1>1. ChatInit => SyncInv
  <2>1. ChatInit => ChatInv
    BY ChatInitInv
  <2>. QED  BY <2>1 DEF ChatInit, SyncInv, SentOnce, PagesFresh, SyncedFresh
<1>2. SyncInv => NoMessageMissed
  BY DEF SyncInv, SyncedFresh, Fresh, Covered, Newer, NoMessageMissed
<1>. QED  BY <1>1, <1>2, SyncStep, PTL DEF ChatSpec
=============================================================================
