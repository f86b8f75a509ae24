--------------------------- MODULE MCOrderGateway ---------------------------
(***************************************************************************)
(* Instances of OrderGateway small enough for TLC: a customer whose sockets *)
(* may leave during their lookup, and a patient member of the staff; each   *)
(* of them has one socket that sends messages.                              *)
(***************************************************************************)
EXTENDS OrderGateway

CONSTANTS s1, s2, t1, t2, u1, u2, o1

\* With two sockets of each, and with one of the customer only.
FourSockets  == {s1, s2, t1, t2}
ThreeSockets == {s1, t1, t2}

TwoUsers    == {u1, u2}
OwnersOf(S) == [s \in S |-> IF s \in {t1, t2} THEN u2 ELSE u1]
FourOwners  == OwnersOf(FourSockets)
ThreeOwners == OwnersOf(ThreeSockets)
OnePatient  == {u2}
OneOrder    == {o1}
OfTheFirst  == [o \in OneOrder |-> u1]
TheSecond   == {u2}
TwoTalkers  == {s1, t1}

\* Two states are the same if their windows are as old, and what passed within
\* the length of a window passed at the same time.  What passed earlier is
\* compared with nothing any more, and a window that is over by more than a
\* millisecond is just over.
Age(t) == IF now - t > WindowMs THEN WindowMs + 1 ELSE now - t

RecentView ==
  <<gatewayVars, roomVars, now, released,
    [s \in Ids |-> IF windows[s] = NoWindow THEN NoWindow
                   ELSE [start |-> Age(windows[s].start), count |-> windows[s].count]],
    [s \in Ids |-> SelectSeq(passed[s], LAMBDA t : now - t < WindowMs)]>>
=============================================================================
