---------------------------- MODULE ServerSession ----------------------------
(***************************************************************************)
(* The authoritative state of the game server (server/state/session.py)    *)
(* under the handlers that change it (server/protocol/handlers.py) and the *)
(* connection life cycle (server/networking/server.py).                    *)
(*                                                                         *)
(* The server is one asyncio loop: a step of this model is the code        *)
(* between two awaits that can suspend.  The frames of one connection are  *)
(* handled one after the other, those of different connections interleave  *)
(* at the awaits; pc says where a connection's task is suspended.          *)
(*                                                                         *)
(* Left out here: payload fields, presence, the launcher's lobby flag, the *)
(* deep-sim host, the clock speed and what is broadcast.  The zone a world *)
(* write resolves to (stamped by the client, or the fallback of _zone_of)  *)
(* is a free choice from Stamp.                                            *)
(***************************************************************************)
EXTENDS FiniteSets

CONSTANTS
  Player,       \* the player ids the server hands out
  Conn,         \* TCP connections, each used once
  Client,       \* installations, by their persistent client_id
  Room,
  DefaultRoom,  \* the lobby room every new player starts in
  Zone,         \* zones a client can report ready in
  Stamp,        \* zones a world write can resolve to, None included if wanted
  Key,          \* replicated objects
  SerialHello,  \* TRUE: a client sends no HELLO while an earlier one of its own
                \* still waits for the stale socket to close
  None

ASSUME NoneAssumption ==
  None \notin Player \cup Conn \cup Client \cup Room \cup Zone
ASSUME RoomAssumption == DefaultRoom \in Room
ASSUME StampAssumption == Stamp \subseteq Zone \cup {None}
ASSUME SerialAssumption == SerialHello \in BOOLEAN

\* A key of the catalog and of the interaction table: both are partitioned
\* by room and zone.
Slot == [room : Room, zone : Zone \cup {None}, key : Key]
WriteSlot(room, zone, key) == [room |-> room, zone |-> zone, key |-> key]

VARIABLES
  issued,      \* the ids _next_player_id has passed
  registered,  \* keys of Session._players
  identity,    \* Session._by_client_id
  connection,  \* Player.connection
  roomOf,      \* Player.room_id
  clockReady,  \* Player.clock_ready
  clockZone,   \* Player.clock_zone
  members,     \* Room.members
  owner,       \* WorldObject.owner, None for a key never claimed
  holder,      \* Interaction.player_id
  cooling,     \* slots whose cooldown_until has not passed
  pc,          \* where the task of a connection is
  who,         \* Connection.player_id
  connRoom,    \* Connection.room_id
  closed,      \* Connection.closed
  target       \* what a suspended handler keeps in its locals

identityVars == <<issued, registered, identity, connection>>
placeVars == <<roomOf, members>>
clockVars == <<clockReady, clockZone>>
worldVars == <<owner, holder, cooling>>
taskVars == <<pc, who, connRoom, closed, target>>
vars == <<identityVars, placeVars, clockVars, worldVars, taskVars>>

\* reading: waiting for the next frame.  closing_old: HELLO waits for the
\* stale socket.  welcoming: HELLO sends its snapshots.  moving: JOIN_ROOM
\* sends its.  leaving: TIME_READY announces what it released.
PcState ==
  {"reading", "closing_old", "welcoming", "moving", "leaving", "done"}

TypeOK ==
  /\ issued \subseteq Player
  /\ registered \subseteq issued
  /\ identity \in [Client -> Player \cup {None}]
  /\ connection \in [Player -> Conn \cup {None}]
  /\ roomOf \in [Player -> Room \cup {None}]
  /\ clockReady \in [Player -> BOOLEAN]
  /\ clockZone \in [Player -> Zone \cup {None}]
  /\ members \in [Room -> SUBSET Player]
  /\ owner \in [Slot -> Player \cup {None}]
  /\ holder \in [Slot -> Player \cup {None}]
  /\ cooling \subseteq Slot
  /\ pc \in [Conn -> PcState]
  /\ who \in [Conn -> Player \cup {None}]
  /\ connRoom \in [Conn -> Room \cup {None}]
  /\ closed \in [Conn -> BOOLEAN]
  /\ target \in [Conn -> Player \cup Zone \cup {None}]

Init ==
  /\ issued = {}
  /\ registered = {}
  /\ identity = [k \in Client |-> None]
  /\ connection = [p \in Player |-> None]
  /\ roomOf = [p \in Player |-> None]
  /\ clockReady = [p \in Player |-> FALSE]
  /\ clockZone = [p \in Player |-> None]
  /\ members = [r \in Room |-> {}]
  /\ owner = [s \in Slot |-> None]
  /\ holder = [s \in Slot |-> None]
  /\ cooling = {}
  /\ pc = [c \in Conn |-> "reading"]
  /\ who = [c \in Conn |-> None]
  /\ connRoom = [c \in Conn |-> None]
  /\ closed = [c \in Conn |-> FALSE]
  /\ target = [c \in Conn |-> None]

-----------------------------------------------------------------------------
\* HELLO

\* The HELLO of c waits for the old socket of player p to close.
Awaiting(c, p) == pc[c] = "closing_old" /\ target[c] = p

\* c becomes the connection of player p, which keeps its room.
Adopt(c, p) ==
  LET room == IF roomOf[p] = None THEN DefaultRoom ELSE roomOf[p]
  IN /\ connection' = [connection EXCEPT ![p] = c]
     /\ who' = [who EXCEPT ![c] = p]
     /\ members' = [members EXCEPT ![room] = @ \cup {p}]
     /\ roomOf' = [roomOf EXCEPT ![p] = room]
     /\ connRoom' = [connRoom EXCEPT ![c] = room]
     /\ pc' = [pc EXCEPT ![c] = "welcoming"]
     /\ target' = [target EXCEPT ![c] = None]
     /\ UNCHANGED <<clockVars, worldVars>>

Fresh(c) == pc[c] = "reading" /\ who[c] = None

\* Mutant of NextIds: the counter is not advanced.
NextIdsStuck(p) == issued

\* What _next_player_id has passed once p is created.
NextIds(p) == issued \cup {p}

Create(c, p) ==
  /\ Fresh(c)
  /\ p \notin issued
  /\ issued' = NextIds(p)
  /\ registered' = registered \cup {p}
  /\ Adopt(c, p)
  /\ UNCHANGED closed

HelloNew(c, k) ==
  /\ identity[k] = None
  /\ \E p \in Player :
       /\ Create(c, p)
       /\ identity' = [identity EXCEPT ![k] = p]

\* A HELLO without a client_id (the lobby tools): nothing to resume later.
HelloAnonymous(c) ==
  /\ \E p \in Player : Create(c, p)
  /\ UNCHANGED identity

HasOpenConnection(p) == connection[p] # None /\ ~closed[connection[p]]

\* The old socket is gone or already closed: nothing to wait for.
HelloResume(c, k) ==
  /\ Fresh(c)
  /\ identity[k] # None
  /\ ~HasOpenConnection(identity[k])
  /\ SerialHello => \A d \in Conn : ~Awaiting(d, identity[k])
  /\ Adopt(c, identity[k])
  /\ UNCHANGED <<issued, registered, identity, closed>>

\* The old socket is open: close it and wait, the player still pointing at it.
HelloTakeover(c, k) ==
  /\ Fresh(c)
  /\ identity[k] # None
  /\ HasOpenConnection(identity[k])
  /\ SerialHello => \A d \in Conn : ~Awaiting(d, identity[k])
  /\ closed' = [closed EXCEPT ![connection[identity[k]]] = TRUE]
  /\ pc' = [pc EXCEPT ![c] = "closing_old"]
  /\ target' = [target EXCEPT ![c] = identity[k]]
  /\ UNCHANGED <<identityVars, placeVars, clockVars, worldVars, who, connRoom>>

HelloAdopt(c) ==
  /\ pc[c] = "closing_old"
  /\ Adopt(c, target[c])
  /\ UNCHANGED <<issued, registered, identity, closed>>

\* Only after every snapshot is sent is the player marked not ready.
HelloFinish(c) ==
  /\ pc[c] = "welcoming"
  /\ clockReady' = [clockReady EXCEPT ![who[c]] = FALSE]
  /\ clockZone' = [clockZone EXCEPT ![who[c]] = None]
  /\ pc' = [pc EXCEPT ![c] = "reading"]
  /\ UNCHANGED <<identityVars, placeVars, worldVars, who, connRoom, closed, target>>

-----------------------------------------------------------------------------
\* Leaving: a socket that breaks, a task that ends, a ghost that is evicted.

\* A send fails, or the reaper closes an idle connection.
Break(c) ==
  /\ pc[c] # "done"
  /\ who[c] # None
  /\ ~closed[c]
  /\ closed' = [closed EXCEPT ![c] = TRUE]
  /\ UNCHANGED <<identityVars, placeVars, clockVars, worldVars, pc, who, connRoom, target>>

\* Mutant of IsLive: the guard `connection is conn` is dropped.
IsLiveUnguarded(c) == who[c] \in registered

\* c is still the connection of its player.
IsLive(c) == who[c] \in registered /\ connection[who[c]] = c

\* The end of a connection's task makes its player a ghost, unless another
\* connection has adopted the player: holdings, host and zone stay.
Disconnect(c) ==
  LET p == who[c]
  IN /\ pc[c] \notin {"closing_old", "done"}
     /\ p # None
     /\ pc' = [pc EXCEPT ![c] = "done"]
     /\ closed' = [closed EXCEPT ![c] = TRUE]
     /\ target' = [target EXCEPT ![c] = None]
     /\ IF IsLive(c)
        THEN /\ connection' = [connection EXCEPT ![p] = None]
             /\ members' = [members EXCEPT ![roomOf[p]] = @ \ {p}]
             /\ clockReady' = [clockReady EXCEPT ![p] = FALSE]
        ELSE UNCHANGED <<connection, members, clockReady>>
     /\ UNCHANGED <<issued, registered, identity, roomOf, clockZone,
                    worldVars, who, connRoom>>

\* Mutants of SlotsOwnedBy: only the current room is searched; the owner of
\* an object is not looked at.
SlotsOwnedHere(p) == {s \in Slot : owner[s] = p /\ s.room = roomOf[p]}
SlotsOwnedByAnyone(p) == {s \in Slot : owner[s] # None}

SlotsOwnedBy(p) == {s \in Slot : owner[s] = p}
SlotsHeldBy(p) == {s \in Slot : holder[s] = p}

\* Mutant of Release: ended interactions start no cooldown.
ReleaseWarm(S, H) ==
  /\ owner' = [s \in Slot |-> IF s \in S THEN None ELSE owner[s]]
  /\ holder' = [s \in Slot |-> IF s \in H THEN None ELSE holder[s]]
  /\ UNCHANGED cooling

\* Mutant of Release: only interactions are ended.
ReleaseHeldOnly(S, H) ==
  /\ holder' = [s \in Slot |-> IF s \in H THEN None ELSE holder[s]]
  /\ cooling' = cooling \cup H
  /\ UNCHANGED owner

\* Clear ownership of S and end the interactions of H, which start to cool.
Release(S, H) ==
  /\ owner' = [s \in Slot |-> IF s \in S THEN None ELSE owner[s]]
  /\ holder' = [s \in Slot |-> IF s \in H THEN None ELSE holder[s]]
  /\ cooling' = cooling \cup H

\* The reaper drops a player that stayed a ghost for the ownership TTL.  The
\* TTL (60 s) outlasts what is left of a closed connection's task and a
\* HELLO's wait for a socket (2 s).
EvictGhost(p) ==
  /\ p \in registered
  /\ connection[p] = None
  /\ \A c \in Conn : who[c] = p /\ closed[c] => pc[c] = "done"
  /\ \A c \in Conn : ~Awaiting(c, p)
  /\ Release(SlotsOwnedBy(p), SlotsHeldBy(p))
  /\ registered' = registered \ {p}
  /\ identity' = [k \in Client |-> IF identity[k] = p THEN None ELSE identity[k]]
  /\ members' = [members EXCEPT ![roomOf[p]] = @ \ {p}]
  /\ roomOf' = [roomOf EXCEPT ![p] = None]
  /\ clockReady' = [clockReady EXCEPT ![p] = FALSE]
  /\ clockZone' = [clockZone EXCEPT ![p] = None]
  /\ UNCHANGED <<issued, connection, taskVars>>

-----------------------------------------------------------------------------
\* Frames of a registered connection.  A connection closed by a takeover may
\* still handle the frames it had buffered; the code stops at the first frame
\* whose direct reply fails, the model may go on.

Handling(c) == pc[c] = "reading" /\ who[c] # None

\* Mutant of Moved: the old room keeps the player.
MovedKeepingOld(p, r) == [members EXCEPT ![r] = @ \cup {p}]

\* The rosters once p has left its room for r.
Moved(p, r) ==
  [x \in Room |-> IF x = r THEN members[x] \cup {p}
                  ELSE IF x = roomOf[p] THEN members[x] \ {p}
                  ELSE members[x]]

JoinRoom(c, r) ==
  LET p == who[c]
  IN /\ Handling(c)
     /\ p \in registered
     /\ members' = Moved(p, r)
     /\ roomOf' = [roomOf EXCEPT ![p] = r]
     /\ connRoom' = [connRoom EXCEPT ![c] = r]
     /\ pc' = [pc EXCEPT ![c] = "moving"]
     /\ UNCHANGED <<identityVars, clockVars, worldVars, who, closed, target>>

JoinRoomFinish(c) ==
  /\ pc[c] = "moving"
  /\ clockReady' = [clockReady EXCEPT ![who[c]] = FALSE]
  /\ pc' = [pc EXCEPT ![c] = "reading"]
  /\ UNCHANGED <<identityVars, placeVars, clockZone, worldVars, who, connRoom, closed, target>>

\* The zone a ready player reports it has left, seen from its new zone z.
Leaves(c, z) == clockReady[who[c]] /\ clockZone[who[c]] \notin {None, z}
LeftOwned(c) == {s \in SlotsOwnedBy(who[c]) : s.room = connRoom[c] /\ s.zone = clockZone[who[c]]}
LeftHeld(c) == {s \in SlotsHeldBy(who[c]) : s.room = connRoom[c] /\ s.zone = clockZone[who[c]]}

\* Ready in zone z; with regate the rest of the room must report ready again.
Arrive(c, z, regate) ==
  /\ clockZone' = [clockZone EXCEPT ![who[c]] = z]
  /\ clockReady' = [p \in Player |->
                      IF p = who[c] THEN p \in registered
                      ELSE IF regate /\ roomOf[p] = connRoom[c] THEN FALSE
                      ELSE clockReady[p]]

TimeReady(c, z) ==
  /\ Handling(c)
  /\ who[c] \in registered
  /\ Leaves(c, z) => LeftOwned(c) \cup LeftHeld(c) = {}
  /\ Arrive(c, z, Leaves(c, z))
  /\ UNCHANGED <<identityVars, placeVars, worldVars, taskVars>>

\* Something is released: it is announced before the player arrives.
TimeReadyLeave(c, z) ==
  /\ Handling(c)
  /\ who[c] \in registered
  /\ Leaves(c, z)
  /\ LeftOwned(c) \cup LeftHeld(c) # {}
  /\ Release(LeftOwned(c), LeftHeld(c))
  /\ pc' = [pc EXCEPT ![c] = "leaving"]
  /\ target' = [target EXCEPT ![c] = z]
  /\ UNCHANGED <<identityVars, placeVars, clockVars, who, connRoom, closed>>

TimeReadyArrive(c) ==
  /\ pc[c] = "leaving"
  /\ Arrive(c, target[c], TRUE)
  /\ pc' = [pc EXCEPT ![c] = "reading"]
  /\ target' = [target EXCEPT ![c] = None]
  /\ UNCHANGED <<identityVars, placeVars, worldVars, who, connRoom, closed>>

TimeUnready(c) ==
  /\ Handling(c)
  /\ who[c] \in registered
  /\ clockReady' = [clockReady EXCEPT ![who[c]] = FALSE]
  /\ UNCHANGED <<identityVars, placeVars, clockZone, worldVars, taskVars>>

\* Ownership is exclusive: a key driven by someone else is refused.
ObjectClaim(c, z, k) ==
  LET s == WriteSlot(connRoom[c], z, k)
  IN /\ Handling(c)
     /\ owner[s] = None
     /\ owner' = [owner EXCEPT ![s] = who[c]]
     /\ UNCHANGED <<identityVars, placeVars, clockVars, holder, cooling, taskVars>>

\* OBJECT_RELEASE, and OBJECT_GONE of an object the sender owns: no owner is
\* left.  Both refuse to touch an object of somebody else.
ObjectRelease(c, z, k) ==
  LET s == WriteSlot(connRoom[c], z, k)
  IN /\ Handling(c)
     /\ owner[s] = who[c]
     /\ owner' = [owner EXCEPT ![s] = None]
     /\ UNCHANGED <<identityVars, placeVars, clockVars, holder, cooling, taskVars>>

InteractionRequest(c, z, k) ==
  LET s == WriteSlot(connRoom[c], z, k)
  IN /\ Handling(c)
     /\ holder[s] = None
     /\ s \notin cooling
     /\ holder' = [holder EXCEPT ![s] = who[c]]
     /\ UNCHANGED <<identityVars, placeVars, clockVars, owner, cooling, taskVars>>

InteractionEnd(c, z, k) ==
  LET s == WriteSlot(connRoom[c], z, k)
  IN /\ Handling(c)
     /\ holder[s] = who[c]
     /\ Release({}, {s})
     /\ UNCHANGED <<identityVars, placeVars, clockVars, taskVars>>

-----------------------------------------------------------------------------
\* Time.

\* The watchdog ends an interaction that ran for interaction_max_duration.
ExpireInteraction(s) ==
  /\ holder[s] # None
  /\ Release({}, {s})
  /\ UNCHANGED <<identityVars, placeVars, clockVars, taskVars>>

CooldownOver(s) ==
  /\ s \in cooling
  /\ cooling' = cooling \ {s}
  /\ UNCHANGED <<identityVars, placeVars, clockVars, owner, holder, taskVars>>

-----------------------------------------------------------------------------
Next ==
  \/ \E c \in Conn : \/ \E k \in Client : \/ HelloNew(c, k)
                                         \/ HelloResume(c, k)
                                         \/ HelloTakeover(c, k)
                     \/ HelloAnonymous(c)
                     \/ HelloAdopt(c)
                     \/ HelloFinish(c)
                     \/ Break(c)
                     \/ Disconnect(c)
                     \/ \E r \in Room : JoinRoom(c, r)
                     \/ JoinRoomFinish(c)
                     \/ \E z \in Zone : TimeReady(c, z) \/ TimeReadyLeave(c, z)
                     \/ TimeReadyArrive(c)
                     \/ TimeUnready(c)
                     \/ \E z \in Stamp, k \in Key : \/ ObjectClaim(c, z, k)
                                                    \/ ObjectRelease(c, z, k)
                                                    \/ InteractionRequest(c, z, k)
                                                    \/ InteractionEnd(c, z, k)
  \/ \E p \in Player : EvictGhost(p)
  \/ \E s \in Slot : ExpireInteraction(s) \/ CooldownOver(s)

Spec == Init /\ [][Next]_vars

\* A closed socket ends its task, the wait for a stale socket is cut off after
\* 2 s, and the reaper runs every reap_interval for as long as the server does.
Ends(c) == closed[c] /\ Disconnect(c)

SessionRuns ==
  (\E c \in Conn : Ends(c) \/ HelloAdopt(c)) \/ (\E p \in Player : EvictGhost(p))

FairSpec == Spec /\ WF_vars(SessionRuns)

-----------------------------------------------------------------------------
\* Properties that hold.

Unfinished(c, p) == who[c] = p /\ pc[c] # "done"

\* A player is on the roster of no room but its own, and a player with a
\* connection is on it: broadcasts reach every connected player exactly once,
\* whatever moves, takeovers and evictions went on around them.
RostersAgree ==
  /\ \A r \in Room : \A p \in members[r] : p \in registered /\ roomOf[p] = r
  /\ \A p \in Player : connection[p] # None => p \in members[roomOf[p]]

\* A client_id names at most one registered player, and no player has two
\* client_ids.  A player is kept alive only by a connection whose task still
\* runs, and a client that says HELLO serially never has a second open
\* connection acting for its player (docs/protocol.md: "reconnect races cannot
\* end up as two players").
OnePlayerOneConnection ==
  /\ \A k \in Client : identity[k] # None =>
       /\ identity[k] \in registered
       /\ \A j \in Client : identity[j] = identity[k] => j = k
  /\ \A p \in Player : connection[p] # None =>
       p \in registered /\ Unfinished(connection[p], p)
  /\ SerialHello => \A c \in Conn, p \in Player :
       Unfinished(c, p) => connection[p] = c \/ closed[c]

\* Nothing is reserved for a player the server has forgotten: every owner and
\* every interaction holder is registered, in every room and zone the player
\* ever wrote to (eviction releases them all).
HoldersRegistered ==
  SerialHello => \A s \in Slot : /\ owner[s] \in registered \cup {None}
                                 /\ holder[s] \in registered \cup {None}

Reservation == INSTANCE KeyReservation

\* The handlers, the watchdogs and the cooldowns together implement the
\* reservation protocol of the interaction table.
ReservesKeys == Reservation!Spec

\* A player whose last task is over and who is not evicted.
Ghost(p) ==
  /\ p \in registered
  /\ connection[p] = None
  /\ \A c \in Conn : ~Unfinished(c, p)

\* Becoming a ghost, staying one and being resumed leaves the ownership of a
\* player exactly as it was: no release by others, by their travel or by
\* their eviction touches it (docs/protocol.md, "Ghost ownership").
GhostKeepsObjects ==
  [][\A p \in Player :
       (p \in registered' /\ (Ghost(p) \/ Ghost(p)')) =>
         \A s \in Slot : owner'[s] = p <=> owner[s] = p]_vars

\* Nothing stays reserved for a player who is gone: once a player has no open
\* connection it comes back, or what it owned is given up.
GoneOwnersLetGo ==
  \A s \in Slot, p \in Player :
    (owner[s] = p /\ ~HasOpenConnection(p)) ~>
      (HasOpenConnection(p) \/ owner[s] # p)

-----------------------------------------------------------------------------
\* Properties the repository states and the code does not have.

\* "when a reconnect adopts the same player record, the old socket's
\* disconnect path must be a no-op, so a later PLAYER_LEFT is never emitted
\* for a player that just reconnected" (Session.disconnect_player): while a
\* HELLO takes a player over, the stale socket does not make it a ghost.
TakeoverKeepsPlayer ==
  \A c \in Conn : pc[c] = "closing_old" => connection[target[c]] # None

\* "a TIME_READY in a new zone [...] auto-releases every object/interaction it
\* held in the old zone" (docs/protocol.md): whoever becomes ready in a zone
\* has nothing left in the zone it was ready in before.
TravelReleasesOldZone ==
  [][\A p \in Player :
       (clockZone[p] # None /\ clockZone'[p] \notin {None, clockZone[p]}) =>
         \A s \in Slot : (s.room = roomOf[p] /\ s.zone = clockZone[p]) =>
           owner'[s] # p /\ holder'[s] # p]_vars
=============================================================================
