---------------------------- MODULE OrderGateway ----------------------------
(***************************************************************************)
(* OrderGateway as a whole: the connections, the rate limiter in front of   *)
(* every message, and the rooms.  Messages may arrive while                 *)
(* handleConnection still awaits the database, and the database may answer  *)
(* a join when the socket has gone.                                         *)
(***************************************************************************)
EXTENDS SocketGateway, SocketRateLimiter

CONSTANTS
  Orders,
  Customer,     \* whose order each one is
  Staff,        \* the users that are members of the staff
  Talkers       \* bound: the sockets that send messages

ASSUME RoomsAssumption ==
  /\ Ids = Sockets
  /\ Customer \in [Orders -> Users]
  /\ Staff \subseteq Users
  /\ Talkers \subseteq Sockets

VARIABLES
  room,        \* the sockets in each order's room
  adminRoom,   \* the sockets in admin_room
  joining      \* who waits for the check of its join, and for which room

roomVars  == <<room, adminRoom, joining>>
orderGatewayVars == <<gatewayVars, limiterVars, roomVars>>

RoomsTypeOK ==
  /\ room \in [Orders -> SUBSET Sockets]
  /\ adminRoom \in SUBSET Sockets
  /\ joining \in SUBSET (Sockets \X Orders)
  /\ DOMAIN windows = Sockets

OrderGatewayInit ==
  /\ GatewayInit /\ LimiterInit
  /\ room = [o \in Orders |-> {}]
  /\ adminRoom = {}
  /\ joining = {}

-----------------------------------------------------------------------------
(* Connections *)

\* handleConnection and the clock leave windows and rooms alone; a refused
\* socket, which has no user, keeps its window.
Handshake(s) ==
  /\ Connect(s) \/ LookupFails(s) \/ LimitRefuses(s) \/ Accept(s)
  /\ UNCHANGED <<limiterVars, roomVars>>

Time == Tick /\ UNCHANGED <<gatewayVars, roomVars>>

\* Mutation: the window is kept.
ReleaseNothing(s) == UNCHANGED limiterVars

\* handleDisconnect: a socket with a user loses its window.
ReleaseKnown(s) == IF auth[s] = "accepted" THEN Release(s) ELSE UNCHANGED limiterVars

\* Socket.IO takes a socket out of its rooms.
LeaveAll(s) ==
  /\ room' = [o \in Orders |-> room[o] \ {s}]
  /\ adminRoom' = adminRoom \ {s}
  /\ UNCHANGED joining

Leave(s) == Disconnect(s) /\ ReleaseKnown(s) /\ LeaveAll(s)

RestartAll ==
  /\ Restart
  /\ windows' = [s \in Sockets |-> NoWindow]
  /\ released' = {s \in Sockets : link[s] # "unused"}
  /\ room' = [o \in Orders |-> {}]
  /\ adminRoom' = {}
  /\ joining' = {}
  /\ UNCHANGED <<now, passed>>

-----------------------------------------------------------------------------
(* Messages *)

\* checkRateLimit, the first thing every handler does.
Message(s) ==
  /\ link[s] = "up"
  /\ s \in Talkers
  /\ OpenWindow(s) \/ CountMessage(s)
  /\ UNCHANGED gatewayVars

Passes(s) == passed'[s] # passed[s]

RejectMessage(s) == Message(s) /\ ~ Passes(s) /\ UNCHANGED roomVars

\* Mutation: the handler does not look for a user.
AnyUser(s) == TRUE

\* client.data.user is set.
HasUser(s) == auth[s] = "accepted"

\* handleJoinOrderRoom asks the database for the order.
JoinOrderRoom(s, o) ==
  /\ Message(s) /\ Passes(s)
  /\ joining' = IF HasUser(s) THEN joining \cup {<<s, o>>} ELSE joining
  /\ UNCHANGED <<room, adminRoom>>

\* orderAccessWhere finds the order.
MayAccess(s, o) == Owner[s] \in Staff \/ Owner[s] = Customer[o]

\* The database answers; a query that fails ends the handler as well.  join
\* does nothing for a socket that is gone.
JoinChecked(s, o) ==
  /\ <<s, o>> \in joining
  /\ joining' = joining \ {<<s, o>>}
  /\ \/ /\ MayAccess(s, o) /\ link[s] = "up"
        /\ room' = [room EXCEPT ![o] = @ \cup {s}]
     \/ UNCHANGED room
  /\ UNCHANGED <<gatewayVars, limiterVars, adminRoom>>

LeaveOrderRoom(s, o) ==
  /\ Message(s) /\ Passes(s)
  /\ room' = [room EXCEPT ![o] = @ \ {s}]
  /\ UNCHANGED <<adminRoom, joining>>

JoinAdminRoom(s) ==
  /\ Message(s) /\ Passes(s)
  /\ adminRoom' = IF HasUser(s) /\ Owner[s] \in Staff THEN adminRoom \cup {s} ELSE adminRoom
  /\ UNCHANGED <<room, joining>>

OrderGatewayNext ==
  \/ \E s \in Sockets : \/ Handshake(s) \/ Leave(s)
                        \/ RejectMessage(s) \/ JoinAdminRoom(s)
                        \/ \E o \in Orders : \/ JoinOrderRoom(s, o) \/ JoinChecked(s, o)
                                             \/ LeaveOrderRoom(s, o)
  \/ Time
  \/ RestartAll

OrderGatewaySpec == OrderGatewayInit /\ [][OrderGatewayNext]_orderGatewayVars

-----------------------------------------------------------------------------
(* Properties *)

\* Who hears of an order is connected, was accepted and counted as a user, and
\* may know of it, also if it asked before its user was known or went away
\* before its join was checked.
RoomsGuarded ==
  /\ \A o \in Orders : \A s \in room[o] :
       s \in Serving(Owner[s]) /\ s \in tracked[Owner[s]] /\ MayAccess(s, o)
  /\ \A s \in adminRoom : s \in Serving(Owner[s]) /\ Owner[s] \in Staff

\* The limiter forgets a socket that is gone, unless it was gone, or turned
\* away, before it had a user: only those windows are left behind, and a socket
\* that got its user too late is counted for ever as well.
WindowsReleased ==
  \A s \in Sockets :
    (link[s] = "down" /\ windows[s] # NoWindow) => auth[s] # "accepted" \/ s \in tracked[Owner[s]]

-----------------------------------------------------------------------------
(* The inductive invariant *)

\* Who waits for the check of a join has a user.
JoiningOK == \A s \in Sockets, o \in Orders : <<s, o>> \in joining => HasUser(s)

RoomsInv == RoomsTypeOK /\ JoiningOK /\ RoomsGuarded /\ WindowsReleased

\* A socket that is not connected yet has sent nothing; one that was released is
\* forgotten.
QuietOK ==
  \A s \in Sockets :
    /\ link[s] = "unused" => windows[s] = NoWindow /\ passed[s] = <<>> /\ s \notin released
    /\ s \in released => windows[s] = NoWindow

OrderGatewayInv == GatewayInv /\ LimiterInv /\ RoomsInv /\ QuietOK
=============================================================================
