----------------------------- MODULE ChatGateway ----------------------------
(***************************************************************************)
(* The chat of one order: ChatGateway's messages, room and history, and the *)
(* messages ChatService stores for POST /chat/:orderId.  Handlers are cut   *)
(* where they await the database.  Clients are the sockets of users who     *)
(* pass orderAccessWhere; what the code turns away (no user, no access, the *)
(* rate limit) changes nothing and is not a step.                           *)
(***************************************************************************)
EXTENDS Faults, Sequences, FiniteSets

CONSTANTS
  Messages,       \* messages that may be sent
  RestMessages,   \* those sent by POST /chat/:orderId
  Clients,        \* sockets of users with access to the order
  PageSize,       \* "limit" of request_chat_history, 50 unless the client sets it
  Offsets         \* values of "offset" clients send

ASSUME ChatAssumption ==
  /\ RestMessages \subseteq Messages
  /\ PageSize \in Nat \ {0}
  /\ Offsets \subseteq Nat /\ 0 \in Offsets

VARIABLES
  stamped,   \* the messages in the order of their sentAt
  stored,    \* the messages whose row is committed
  sending,   \* how far the handler of each message is
  room,      \* the clients in the room chat:<orderId>
  asking,    \* what each client's join or history handler does next
  page,      \* the messages such a handler has read, and the offset asked for
  known,     \* the messages each client has received
  synced     \* clients that got the newest page after they joined

chatVars == <<stamped, stored, sending, room, asking, page, known, synced, faults>>

NoPage == [messages |-> {}, offset |-> 0]

ChatTypeOK ==
  /\ stamped \in Seq(Messages)
  /\ stored \subseteq Messages
  /\ sending \in [Messages -> {"unsent", "store", "emit", "sent", "lost", "unheard"}]
  /\ room \subseteq Clients
  /\ asking \in [Clients -> {"idle", "join", "read", "answer"}]
  /\ page \in [Clients -> [messages : SUBSET Messages, offset : Offsets]]
  /\ known \in [Clients -> SUBSET Messages]
  /\ synced \subseteq Clients
  /\ FaultsTypeOK

ChatInit ==
  /\ stamped = <<>>
  /\ stored = {}
  /\ sending = [m \in Messages |-> "unsent"]
  /\ room = {}
  /\ asking = [c \in Clients |-> "idle"]
  /\ page = [c \in Clients |-> NoPage]
  /\ known = [c \in Clients |-> {}]
  /\ synced = {}
  /\ FaultsInit

SendGoto(m, s) == sending' = [sending EXCEPT ![m] = s]
AskGoto(c, s)  == asking' = [asking EXCEPT ![c] = s]

-----------------------------------------------------------------------------
(* handleSendMessage, and sendMessage of ChatService *)

\* Mutation: the message goes out while it is being stored.
SendUnstored(m) ==
  /\ sending[m] = "unsent"
  /\ SendGoto(m, "emit")
  /\ stamped' = Append(stamped, m)
  /\ UNCHANGED <<stored, room, asking, page, known, synced, faults>>

\* chat.create is called: sentAt is taken before the row is committed.
Send(m) ==
  /\ sending[m] = "unsent"
  /\ SendGoto(m, "store")
  /\ stamped' = Append(stamped, m)
  /\ UNCHANGED <<stored, room, asking, page, known, synced, faults>>

\* ChatService.sendMessage ends with the row; the gateway goes on to broadcast it.
AfterStore(m) == IF m \in RestMessages THEN "sent" ELSE "emit"

\* The row is committed.
Store(m) ==
  /\ sending[m] = "store"
  /\ stored' = stored \cup {m}
  /\ SendGoto(m, AfterStore(m))
  /\ UNCHANGED <<stamped, room, asking, page, known, synced, faults>>

\* chat.create throws, and the handler with it: there is no row, or there is one
\* that the handler did not learn of.
StoreFails(m) ==
  /\ sending[m] = "store"
  /\ Fault("store")
  /\ SendGoto(m, "lost")
  /\ UNCHANGED <<stamped, stored, room, asking, page, known, synced>>

StoreUnanswered(m) ==
  /\ sending[m] = "store"
  /\ Fault("storeAnswer")
  /\ stored' = stored \cup {m}
  /\ SendGoto(m, "unheard")
  /\ UNCHANGED <<stamped, room, asking, page, known, synced>>

Emit(m) ==
  /\ sending[m] = "emit"
  /\ SendGoto(m, "sent")
  /\ known' = [c \in Clients |-> IF c \in room THEN known[c] \cup {m} ELSE known[c]]
  /\ UNCHANGED <<stamped, stored, room, asking, page, synced, faults>>

-----------------------------------------------------------------------------
(* handleJoinChatRoom *)

JoinStart(c) ==
  /\ asking[c] = "idle" /\ c \notin room
  /\ AskGoto(c, "join")
  /\ UNCHANGED <<stamped, stored, sending, room, page, known, synced, faults>>

Join(c) ==
  /\ asking[c] = "join"
  /\ room' = room \cup {c}
  /\ AskGoto(c, "idle")
  /\ UNCHANGED <<stamped, stored, sending, page, known, synced, faults>>

-----------------------------------------------------------------------------
(* handleRequestChatHistory *)

\* n was sent after m.
After(n, m) == \E i, j \in DOMAIN stamped : i < j /\ stamped[i] = m /\ stamped[j] = n

\* Mutation: the oldest messages first.
PageOldestFirst(offset) ==
  {m \in stored : Cardinality({n \in stored : After(m, n)}) \in offset .. offset + PageSize - 1}

\* The stored messages, newest first: skip offset, take PageSize.
Page(offset) ==
  {m \in stored : Cardinality({n \in stored : After(n, m)}) \in offset .. offset + PageSize - 1}

AskHistory(c, offset) ==
  /\ asking[c] = "idle"
  /\ AskGoto(c, "read")
  /\ page' = [page EXCEPT ![c] = [messages |-> {}, offset |-> offset]]
  /\ UNCHANGED <<stamped, stored, sending, room, known, synced, faults>>

ReadHistory(c) ==
  /\ asking[c] = "read"
  /\ AskGoto(c, "answer")
  /\ page' = [page EXCEPT ![c].messages = Page(page[c].offset)]
  /\ UNCHANGED <<stamped, stored, sending, room, known, synced, faults>>

\* The client adds the page to what it has.
Answer(c) == known' = [known EXCEPT ![c] = @ \cup page[c].messages]

\* A client is in sync once it has the newest page, having asked in the room.
AnswerHistory(c) ==
  /\ asking[c] = "answer"
  /\ Answer(c)
  /\ synced' = IF c \in room /\ page[c].offset = 0 THEN synced \cup {c} ELSE synced
  /\ AskGoto(c, "idle")
  /\ page' = [page EXCEPT ![c] = NoPage]
  /\ UNCHANGED <<stamped, stored, sending, room, faults>>

\* The check of a join, or the query for a page, throws.
QueryFails(c) ==
  /\ asking[c] \in {"join", "read"}
  /\ Fault("query")
  /\ AskGoto(c, "idle")
  /\ page' = [page EXCEPT ![c] = NoPage]
  /\ UNCHANGED <<stamped, stored, sending, room, known, synced>>

-----------------------------------------------------------------------------
(* Connections and crashes *)

\* The socket is gone, with its rooms and what its handlers would have done.
Disconnect(c) ==
  /\ room' = room \ {c}
  /\ synced' = synced \ {c}
  /\ asking' = [asking EXCEPT ![c] = "idle"]
  /\ page' = [page EXCEPT ![c] = NoPage]
  /\ known' = [known EXCEPT ![c] = {}]
  /\ UNCHANGED <<stamped, stored, sending, faults>>

\* The process dies (a fault like the others), and every connection with it.
Crash ==
  /\ Fault("crash")
  /\ sending' = [m \in Messages |-> IF sending[m] \in {"store", "emit"}
                                    THEN "lost" ELSE sending[m]]
  /\ room' = {} /\ synced' = {}
  /\ asking' = [c \in Clients |-> "idle"]
  /\ page' = [c \in Clients |-> NoPage]
  /\ known' = [c \in Clients |-> {}]
  /\ UNCHANGED <<stamped, stored>>

ChatNext ==
  \/ \E m \in Messages : Send(m) \/ Store(m) \/ StoreFails(m) \/ StoreUnanswered(m) \/ Emit(m)
  \/ \E c \in Clients : \/ JoinStart(c) \/ Join(c)
                        \/ \E offset \in Offsets : AskHistory(c, offset)
                        \/ ReadHistory(c) \/ AnswerHistory(c) \/ QueryFails(c)
                        \/ Disconnect(c)
  \/ Crash

ChatSpec == ChatInit /\ [][ChatNext]_chatVars

-----------------------------------------------------------------------------
(* Properties *)

\* Messages that are not broadcast: those sent by POST /chat/:orderId, and those
\* whose handler did not learn that they are stored.
NeverBroadcast(m) == m \in RestMessages \/ sending[m] = "unheard"

\* A client that has joined the room and then received the history misses no
\* message: each stored message has reached it, or is about to be broadcast,
\* or is older than a whole page of messages the client has.  Only messages
\* that are never broadcast can pass it by.
NoMessageMissed ==
  \A c \in synced, m \in stored :
    \/ m \in known[c]
    \/ sending[m] = "emit"
    \/ NeverBroadcast(m)
    \/ Cardinality({n \in known[c] : After(n, m)}) >= PageSize

\* Whatever a client has seen, live or in a page, is stored: whoever asks for
\* the history later finds it, also after a crash.
SeenIsStored == \A c \in Clients : known[c] \cup page[c].messages \subseteq stored

\* The inductive invariant.
ChatInv ==
  /\ ChatTypeOK
  /\ \A m \in Messages : sending[m] = "emit" => m \in stored
  /\ SeenIsStored
=============================================================================
