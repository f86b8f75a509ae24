----------------------------- MODULE OrderJournal ---------------------------
(***************************************************************************)
(* What the order components promise together, without handlers, queue or   *)
(* worker: an order has a journal of the statuses it went through, which    *)
(* starts with PENDING and only grows, never from PENDING back to PENDING;  *)
(* its status is the journal's last entry; each entry is owed one broadcast *)
(* to the clients, and no broadcast is made that is not owed.  Where calls  *)
(* fail (Lossy) a broadcast that is owed may be lost, never repeated.       *)
(***************************************************************************)
EXTENDS OrderTypes, Sequences, Naturals

CONSTANT Lossy

VARIABLES
  journal,   \* the statuses of each order, oldest first
  status,    \* the status each order has now, "ABSENT" before there is one
  owed,      \* how many broadcasts of each status of each order are owed
  told       \* how many have been made

journalVars == <<journal, status, owed, told>>

None == [o \in Orders |-> [s \in Statuses |-> 0]]

JournalInit ==
  /\ journal = [o \in Orders |-> <<>>]
  /\ status = [o \in Orders |-> "ABSENT"]
  /\ owed = None
  /\ told = None

\* A transaction: the status and its journal entry.
Record(o, s) ==
  /\ journal[o] = <<>> <=> s = "PENDING"
  /\ status' = [status EXCEPT ![o] = s]
  /\ journal' = [journal EXCEPT ![o] = Append(@, s)]

\* A transaction owes a broadcast.
Write(o, s) ==
  /\ Record(o, s)
  /\ owed' = [owed EXCEPT ![o][s] = @ + 1]
  /\ UNCHANGED told

\* A transaction whose answer is lost: its handler does not know of it.
WriteUnheard(o, s) ==
  /\ Lossy
  /\ Record(o, s)
  /\ UNCHANGED <<owed, told>>

Broadcast(o, s) ==
  /\ owed[o][s] > 0
  /\ owed' = [owed EXCEPT ![o][s] = @ - 1]
  /\ told' = [told EXCEPT ![o][s] = @ + 1]
  /\ UNCHANGED <<journal, status>>

\* A handler failed, or the process died, before it made its broadcasts.
Lose ==
  /\ Lossy
  /\ UNCHANGED <<journal, status, told>>
  /\ \A o \in Orders, s \in Statuses : owed'[o][s] <= owed[o][s]

JournalNext ==
  \/ Lose
  \/ \E o \in Orders, s \in Statuses : Broadcast(o, s) \/ Write(o, s) \/ WriteUnheard(o, s)

JournalSpec == JournalInit /\ [][JournalNext]_journalVars
=============================================================================
