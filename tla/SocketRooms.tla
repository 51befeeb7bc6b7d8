---------------------------- MODULE SocketRooms ----------------------------
(***************************************************************************)
(* The sockets of the device control service and the room of one domain    *)
(* (services/devicecontrol/src/routes/socket_routes.ts).  A new socket asks*)
(* for the domains of its user and joins their rooms when the answer has   *)
(* come, and its user's own room with them.  Meanwhile the bus worker, a   *)
(* process of its own, moves sockets in and out of the room: each handler  *)
(* (DeviceControlReplica) publishes its commands on Redis when it has      *)
(* written the role, and the server obeys them in that order.              *)
(***************************************************************************)
EXTENDS DeviceControlReplica

CONSTANTS Watchers,        \* the users that open a dashboard, and so a socket
          MaxDisconnects   \* bound: sockets that are disconnected

ASSUME RoomsAssumption == Watchers \subseteq Users /\ MaxDisconnects \in Nat

VARIABLES
  conn,          \* a user's socket: "off", "reading" its user's domains, "member" or
                 \* "stranger" as the answer on its way says, "on" once it has joined
  inRoom,        \* users whose socket is in the room of the domain
  orders,        \* Redis: what the worker has published for the server, oldest first
  bypassed,      \* history: users whose socket a command has passed by, or will
  disconnects    \* history: disconnections so far

rooms == <<conn, inRoom, orders, bypassed, disconnects>>
roomVars == <<dcVars, rooms>>

RoomsTypeOK ==
  /\ conn \in [Users -> {"off", "reading", "member", "stranger", "on"}]
  /\ inRoom \subseteq {u \in Users : conn[u] = "on"}
  /\ orders \in Seq(Event)
  /\ bypassed \subseteq Users
  /\ disconnects \in 0..MaxDisconnects

RoomsInit ==
  /\ DCInit
  /\ conn = [u \in Users |-> "off"]
  /\ inRoom = {}
  /\ orders = <<>>
  /\ bypassed = {}
  /\ disconnects = 0

-----------------------------------------------------------------------------
(* The server *)

Enters(u, stage) == conn' = [conn EXCEPT ![u] = stage]

\* A socket with a valid access token connects.
Connect(u) ==
  /\ conn[u] = "off"
  /\ Enters(u, "reading")
  /\ UNCHANGED <<dcVars, inRoom, orders, bypassed, disconnects>>

\* Plausible fault: the query finds deleted roles too.
ReadDomainsEverHad(u) ==
  /\ conn[u] = "reading"
  /\ Enters(u, IF held[u] \subseteq {NoRole} THEN "stranger" ELSE "member")
  /\ UNCHANGED <<dcVars, inRoom, orders, bypassed, disconnects>>

\* getDomainIdsByUserId, as Mongo answers it.
ReadDomains(u) ==
  /\ conn[u] = "reading"
  /\ Enters(u, IF dcRole[u] = NoRole THEN "stranger" ELSE "member")
  /\ UNCHANGED <<dcVars, inRoom, orders, bypassed, disconnects>>

\* The answer has come: the socket joins.
JoinRooms(u) ==
  /\ conn[u] \in {"member", "stranger"}
  /\ inRoom' = IF conn[u] = "member" THEN inRoom \cup {u} ELSE inRoom
  /\ Enters(u, "on")
  /\ UNCHANGED <<dcVars, orders, bypassed, disconnects>>

\* A command about the user is on its way.
Commanded(u) == \E i \in DOMAIN orders : orders[i].user = u

\* The token expires, the query fails, or the connection breaks.
Disconnect(u) ==
  /\ conn[u] # "off" /\ disconnects < MaxDisconnects
  /\ Enters(u, "off")
  /\ inRoom' = inRoom \ {u}
  /\ bypassed' = IF Commanded(u) THEN bypassed ELSE bypassed \ {u}
  /\ disconnects' = disconnects + 1
  /\ UNCHANGED <<dcVars, orders>>

\* Creations and additions have the same handler (device_control_service_worker.ts:14).
Adds(o) == o.kind \in {"CREATED", "ADDED"}

\* A command finds the sockets that are in the room it names: its user's room, or
\* the room of the domain.  It passes by a socket that has read and not joined.
Overtakes(o, u) ==
  \/ Adds(o) /\ o.user = u /\ conn[u] = "stranger"
  \/ o.kind = "REMOVED" /\ o.user = u /\ conn[u] = "member"
  \/ o.kind = "DELETED" /\ conn[u] = "member"

\* The server obeys the next command: socketsJoin, socketsLeave.
Obey ==
  /\ orders # <<>>
  /\ orders' = Tail(orders)
  /\ LET o == Head(orders)
     IN  /\ inRoom' = CASE Adds(o) /\ conn[o.user] = "on" -> inRoom \cup {o.user}
                        [] o.kind = "REMOVED" -> inRoom \ {o.user}
                        [] o.kind = "DELETED" -> {}
                        [] OTHER -> inRoom
         /\ bypassed' = bypassed \cup {u \in Users : Overtakes(o, u)}
  /\ UNCHANGED <<dcVars, conn, disconnects>>

-----------------------------------------------------------------------------
(* The bus worker *)

\* A handler has written and publishes its commands.
Tell(p) ==
  /\ Resolve(p)
  /\ orders' = Append(orders, published[p])
  /\ UNCHANGED <<held, conn, inRoom, bypassed, disconnects>>

\* The users a handler has written a role for and told nobody: the event that is
\* handled again is refused by the unique index before it comes to that.
Untold == {published[p].user : p \in {q \in written : Adds(published[q])}}

\* The worker's other steps.
Work ==
  \/ /\ Deliver
     /\ bypassed' = IF faults' > faults THEN bypassed \cup Untold ELSE bypassed
     /\ UNCHANGED <<held, conn, inRoom, orders, disconnects>>
  \/ Handle /\ UNCHANGED <<held, rooms>>

-----------------------------------------------------------------------------
\* Every event has been handled, none but additions waits to be handled again,
\* and the server has obeyed what the handlers told it.
AllTold ==
  /\ AllHandled
  /\ \A p \in parked : Adds(published[p])
  /\ orders = <<>>

\* The room of a domain holds the sockets of those who have a role in it and no
\* other, however connections and changes of the membership overlap, except for
\* a socket that a command passed by (it had read its domains and not joined yet, or
\* the worker failed before it told the server of an addition) and until it connects
\* again, no older command about its user being on its way.  A socket that stays in
\* the room goes on receiving what the devices of the domain report
\* (socket_routes.ts:15-22, domain_user_removed_handler.ts:25).
RoomsFollowRoles ==
  Spaced /\ AllTold /\ domain = "live" =>
    \A u \in Watchers \ bypassed :
      conn[u] = "on" => (u \in inRoom <=> dcRole[u] # NoRole)

(* The inductive invariant behind it (ReplicaProofs) *)

\* Until the domain is deleted nothing says that it is.
LiveInv ==
  domain # "deleted" =>
    /\ \A p \in Positions : Kind(p) # "DELETED"
    /\ \A r \in Requests : \A i \in DOMAIN unsent[r] : unsent[r][i].kind # "DELETED"
    /\ \A i \in DOMAIN orders : orders[i].kind # "DELETED"

\* An event that has been handled and may be handled again says what the copy holds.
RehandledInv ==
  Spaced =>
    \A p \in Unsettled \cap handled : \A u \in Users :
      About(published[p], u) => dcRole[u] = role[u]

\* A command that brings the user into the room or takes him out.
Moves(e, u) == e.user = u /\ (Adds(e) \/ e.kind = "REMOVED")

\* The worker has written something about the user and will tell the server of it.
TellsLater(u) ==
  \/ \E p \in written : Moves(published[p], u)
  \/ \E p \in (fresh \cup parked) \cap handled : published[p].kind = "REMOVED" /\ published[p].user = u

Allowed(u) == dcRole[u] # NoRole

\* The last command on its way agrees with the copy.
LastMoveAgrees(u) ==
  \A i \in DOMAIN orders :
    Moves(orders[i], u) /\ (\A j \in DOMAIN orders : j > i => ~Moves(orders[j], u))
      => (Adds(orders[i]) <=> Allowed(u))

\* Without one the socket is where it belongs, or will be once it has joined.
PlaceAgrees(u) ==
  (\A i \in DOMAIN orders : ~Moves(orders[i], u)) =>
    /\ conn[u] = "on" => (u \in inRoom <=> Allowed(u))
    /\ conn[u] \in {"member", "stranger"} => (conn[u] = "member" <=> Allowed(u))

Followed(u) == TellsLater(u) \/ (LastMoveAgrees(u) /\ PlaceAgrees(u))

MovesInv == Spaced /\ domain # "deleted" => \A u \in Users \ bypassed : Followed(u)

RoomsInv == LiveInv /\ RehandledInv /\ MovesInv

=============================================================================
