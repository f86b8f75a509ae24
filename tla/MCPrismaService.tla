--------------------------- MODULE MCPrismaService --------------------------
(***************************************************************************)
(* Instances of PrismaService small enough for TLC.                         *)
(***************************************************************************)
EXTENDS PrismaService

CONSTANTS i1, i2, t1

TwoInstances == {i1, i2}
OneCall      == {t1}
InTheFirst   == [c \in OneCall |-> i1]

SeedFaults == {"seed"}
=============================================================================
