---------------------------- MODULE SocketGateway ---------------------------
(***************************************************************************)
(* The connections of a Socket.IO gateway (order.gateway.ts; chat.gateway   *)
(* keeps them by the same code): handleConnection awaits the database, and  *)
(* the socket may disconnect, or other sockets of the user may connect,     *)
(* meanwhile.  A socket id is used for one connection.  A handshake that is *)
(* turned down before the await (origin, token) changes nothing and is not  *)
(* a step.                                                                  *)
(***************************************************************************)
EXTENDS Naturals, FiniteSets

CONSTANTS
  Sockets,          \* the connections that may be made, by their ids
  Users,
  Owner,            \* the user each socket's token names
  MaxConnections,   \* maxConnectionsPerUser
  Patient           \* the users whose sockets stay until their lookup is answered

ASSUME GatewayAssumption ==
  /\ IsFiniteSet(Sockets)
  /\ Owner \in [Sockets -> Users]
  /\ MaxConnections \in Nat \ {0}
  /\ Patient \subseteq Users

VARIABLES
  link,      \* the connection of each socket: "unused", "up" or "down"
  auth,      \* handleConnection of each socket: "none", "lookup", then
             \* "accepted" (client.data.user is set), "refused" (no such user,
             \* or an error) or "limited" (too many connections)
  tracked    \* userConnections: the sockets counted for each user

gatewayVars == <<link, auth, tracked>>

\* The socket does not go away during its lookup.
Stays(s) == Owner[s] \in Patient

GatewayTypeOK ==
  /\ link \in [Sockets -> {"unused", "up", "down"}]
  /\ auth \in [Sockets -> {"none", "lookup", "accepted", "refused", "limited"}]
  /\ tracked \in [Users -> SUBSET Sockets]

GatewayInit ==
  /\ link = [s \in Sockets |-> "unused"]
  /\ auth = [s \in Sockets |-> "none"]
  /\ tracked = [u \in Users |-> {}]

\* The handshake carries a valid token: handleConnection asks for the user.
Connect(s) ==
  /\ link[s] = "unused"
  /\ link' = [link EXCEPT ![s] = "up"]
  /\ auth' = [auth EXCEPT ![s] = "lookup"]
  /\ UNCHANGED tracked

\* Mutation: the limit is only noticed once it is exceeded.
BeyondLimit(u) == Cardinality(tracked[u]) > MaxConnections

AtLimit(u) == Cardinality(tracked[u]) >= MaxConnections

\* client.disconnect() for a socket that has no data.user: handleDisconnect
\* then has nothing to clean up.
Refuse(s, why) ==
  /\ auth' = [auth EXCEPT ![s] = why]
  /\ link' = [link EXCEPT ![s] = "down"]
  /\ UNCHANGED tracked

\* The lookup failed or found no row.
LookupFails(s) == auth[s] = "lookup" /\ Refuse(s, "refused")

\* checkConnectionLimit at the limit: this.server is the namespace, whose
\* "sockets" is a Map without a property "sockets", so looking up the oldest
\* socket throws, and handleConnection disconnects the new one.
LimitRefuses(s) ==
  /\ auth[s] = "lookup"
  /\ AtLimit(Owner[s])
  /\ Refuse(s, "limited")

\* The socket is counted and gets its user, connected or not by now.
Accept(s) ==
  /\ auth[s] = "lookup"
  /\ ~ AtLimit(Owner[s])
  /\ tracked' = [tracked EXCEPT ![Owner[s]] = @ \cup {s}]
  /\ auth' = [auth EXCEPT ![s] = "accepted"]
  /\ UNCHANGED link

\* Mutation: the entry stays.
ForgetNothing(s) == UNCHANGED tracked

\* handleDisconnect: a socket with a user is not counted any more.
Forget(s) ==
  tracked' = IF auth[s] = "accepted"
             THEN [tracked EXCEPT ![Owner[s]] = @ \ {s}] ELSE tracked

\* The client or the network closes the connection.
Disconnect(s) ==
  /\ link[s] = "up"
  /\ Stays(s) => auth[s] # "lookup"
  /\ link' = [link EXCEPT ![s] = "down"]
  /\ Forget(s)
  /\ UNCHANGED auth

\* The process is started again: every connection is lost, the maps are empty.
Restart ==
  /\ \E s \in Sockets : link[s] = "up"
  /\ link' = [s \in Sockets |-> IF link[s] = "up" THEN "down" ELSE link[s]]
  /\ auth' = [s \in Sockets |-> IF auth[s] = "lookup" THEN "refused" ELSE auth[s]]
  /\ tracked' = [u \in Users |-> {}]

GatewayNext ==
  \/ \E s \in Sockets : \/ Connect(s) \/ Disconnect(s)
                        \/ LookupFails(s) \/ LimitRefuses(s) \/ Accept(s)
  \/ Restart

GatewaySpec == GatewayInit /\ [][GatewayNext]_gatewayVars

-----------------------------------------------------------------------------
(* Properties *)

\* The live connections of user u that have been accepted.
Serving(u) == {s \in Sockets : link[s] = "up" /\ auth[s] = "accepted" /\ Owner[s] = u}

\* A user never has more live connections than the limit, and each of them is
\* counted, whatever connects and disconnects during the lookups.
ConnectionsBounded ==
  \A u \in Users : /\ Serving(u) \subseteq tracked[u]
                   /\ Cardinality(tracked[u]) <= MaxConnections

\* Socket s is turned down for the limit in this step.
TurnedDown(s) == auth'[s] = "limited" /\ auth[s] # "limited"

\* A connection is turned down for the limit only when the user really has
\* that many live connections.
RefusedOnlyAtLimit ==
  [][\A s \in Sockets : TurnedDown(s)
       => Cardinality(Serving(Owner[s])) >= MaxConnections]_gatewayVars

\* That much is certain for users whose sockets wait for their lookup, whatever
\* other users' sockets do: nobody is turned down for connections already gone.
PatientRefusedOnlyAtLimit ==
  [][\A s \in Sockets : TurnedDown(s) /\ Stays(s)
       => Cardinality(Serving(Owner[s])) >= MaxConnections]_gatewayVars

-----------------------------------------------------------------------------
(* The inductive invariant *)

\* Only sockets that were accepted for a user are counted for it; of a patient
\* user, only connected ones.
TrackedOK ==
  \A u \in Users : \A s \in tracked[u] :
    auth[s] = "accepted" /\ Owner[s] = u /\ (Stays(s) => link[s] = "up")

\* A lookup belongs to a connection that was made, and that of a patient user to
\* one that is still there.
LookupOK ==
  \A s \in Sockets : /\ auth[s] = "none" <=> link[s] = "unused"
                     /\ Stays(s) /\ auth[s] = "lookup" => link[s] = "up"

GatewayInv == GatewayTypeOK /\ ConnectionsBounded /\ TrackedOK /\ LookupOK
=============================================================================
