------------------------ MODULE ServerSession_proofs ------------------------
(***************************************************************************)
(* The invariants of ServerSession for any players, connections, clients,  *)
(* rooms, zones and keys, and the refinement of KeyReservation.            *)
(***************************************************************************)
EXTENDS ServerSession, TLAPS

\* What the suspended handlers know.
TaskInv ==
  \A c \in Conn :
    /\ pc[c] = "closing_old" => who[c] = None /\ target[c] \in Player
    /\ pc[c] = "leaving" => target[c] \in Zone
    /\ pc[c] \in {"welcoming", "moving", "leaving", "done"} => who[c] \in Player
    /\ who[c] # None => connRoom[c] \in Room

\* The slot a frame names is one: a registered connection has a room.
LEMMA SlotType ==
  ASSUME TypeOK, TaskInv, NEW c \in Conn, NEW z \in Stamp, NEW k \in Key, who[c] # None
  PROVE  WriteSlot(connRoom[c], z, k) \in Slot
  BY StampAssumption DEF TaskInv, WriteSlot, Slot

\* Types and task facts hold at the start.
LEMMA InitType == Init => TypeOK /\ TaskInv
  BY DEF Init, TypeOK, TaskInv, PcState

\* One action at a time, the type invariant and what the tasks know.
LEMMA AdoptType ==
  ASSUME TypeOK, TaskInv, NEW c \in Conn, NEW p \in Player, Adopt(c, p)
  PROVE  /\ connection' \in [Player -> Conn \cup {None}]
         /\ roomOf' \in [Player -> Room \cup {None}]
         /\ members' \in [Room -> SUBSET Player]
         /\ pc' \in [Conn -> PcState]
         /\ who' \in [Conn -> Player \cup {None}]
         /\ connRoom' \in [Conn -> Room \cup {None}]
         /\ target' \in [Conn -> Player \cup Zone \cup {None}]
         /\ TaskInv'
<1> DEFINE room == IF roomOf[p] = None THEN DefaultRoom ELSE roomOf[p]
<1>1. room \in Room
  BY RoomAssumption DEF TypeOK
<1> QED BY <1>1, NoneAssumption DEF Adopt, TypeOK, TaskInv, PcState

\* HELLO, with or without a player to resume.
LEMMA HelloType ==
  ASSUME TypeOK, TaskInv, NEW c \in Conn,
         \/ \E k \in Client : HelloNew(c, k) \/ HelloResume(c, k) \/ HelloTakeover(c, k)
         \/ HelloAnonymous(c) \/ HelloAdopt(c) \/ HelloFinish(c)
  PROVE  TypeOK' /\ TaskInv'
<1>1. ASSUME NEW p \in Player, Create(c, p),
             identity' \in [Client -> Player \cup {None}]
      PROVE  TypeOK' /\ TaskInv'
  <2>1. UNCHANGED <<clockReady, clockZone, owner, holder, cooling, closed>>
    BY <1>1 DEF Create, Adopt, clockVars, worldVars
  <2>2. issued' \subseteq Player /\ registered' \subseteq issued'
    BY <1>1 DEF Create, NextIds, TypeOK
  <2> QED BY <1>1, <2>1, <2>2, AdoptType DEF Create, TypeOK
<1>2. ASSUME NEW k \in Client, HelloNew(c, k) PROVE TypeOK' /\ TaskInv'
  BY <1>1, <1>2 DEF HelloNew, TypeOK
<1>3. CASE HelloAnonymous(c)
  BY <1>1, <1>3 DEF HelloAnonymous, TypeOK
<1>4. ASSUME NEW p \in Player, Adopt(c, p),
             UNCHANGED <<issued, registered, identity, closed>>
      PROVE  TypeOK' /\ TaskInv'
  <2>1. UNCHANGED <<clockReady, clockZone, owner, holder, cooling>>
    BY <1>4 DEF Adopt, clockVars, worldVars
  <2> QED BY <1>4, <2>1, AdoptType DEF TypeOK
<1>5. ASSUME NEW k \in Client, HelloResume(c, k) PROVE TypeOK' /\ TaskInv'
  <2>1. identity[k] \in Player
    BY <1>5 DEF HelloResume, TypeOK
  <2> QED BY <1>4, <1>5, <2>1 DEF HelloResume
<1>6. CASE HelloAdopt(c)
  BY <1>4, <1>6 DEF HelloAdopt, TaskInv
<1>7. ASSUME NEW k \in Client, HelloTakeover(c, k) PROVE TypeOK' /\ TaskInv'
  <2>1. identity[k] \in Player /\ connection[identity[k]] \in Conn
    BY <1>7 DEF HelloTakeover, HasOpenConnection, TypeOK
  <2> QED BY <1>7, <2>1, NoneAssumption
        DEF HelloTakeover, Fresh, TypeOK, TaskInv, PcState,
            identityVars, placeVars, clockVars, worldVars
<1>8. CASE HelloFinish(c)
  BY <1>8 DEF HelloFinish, TypeOK, TaskInv, PcState, identityVars, placeVars, worldVars
<1> QED BY <1>2, <1>3, <1>5, <1>6, <1>7, <1>8

\* Broken sockets, ended tasks and evictions.
LEMMA LeavingType ==
  ASSUME TypeOK, TaskInv,
         \/ \E c \in Conn : Break(c) \/ Disconnect(c)
         \/ \E p \in Player : EvictGhost(p)
  PROVE  TypeOK' /\ TaskInv'
<1>1. ASSUME NEW c \in Conn, Break(c) PROVE TypeOK' /\ TaskInv'
  BY <1>1 DEF Break, TypeOK, TaskInv, identityVars, placeVars, clockVars, worldVars
<1>2. ASSUME NEW c \in Conn, Disconnect(c) PROVE TypeOK' /\ TaskInv'
  <2>1. who[c] \in Player
    BY <1>2 DEF Disconnect, TypeOK
  <2>2. /\ connection' \in [Player -> Conn \cup {None}]
        /\ members' \in [Room -> SUBSET Player]
        /\ clockReady' \in [Player -> BOOLEAN]
    <3>1. CASE IsLive(c)
      <4>1. /\ connection' = [connection EXCEPT ![who[c]] = None]
            /\ members' = [members EXCEPT ![roomOf[who[c]]] = @ \ {who[c]}]
            /\ clockReady' = [clockReady EXCEPT ![who[c]] = FALSE]
        BY <1>2, <3>1 DEF Disconnect
      <4> QED BY <4>1 DEF TypeOK
    <3>2. CASE ~IsLive(c)
      BY <1>2, <3>2 DEF Disconnect, TypeOK
    <3> QED BY <3>1, <3>2
  <2>3. /\ pc' = [pc EXCEPT ![c] = "done"]
        /\ closed' = [closed EXCEPT ![c] = TRUE]
        /\ target' = [target EXCEPT ![c] = None]
        /\ UNCHANGED <<issued, registered, identity, roomOf, clockZone,
                       owner, holder, cooling, who, connRoom>>
    BY <1>2 DEF Disconnect, worldVars
  <2>4. TaskInv'
    BY <2>1, <2>3 DEF TypeOK, TaskInv
  <2>5. TypeOK'
    BY <2>2, <2>3 DEF TypeOK, PcState
  <2> QED BY <2>4, <2>5
<1>3. ASSUME NEW p \in Player, EvictGhost(p) PROVE TypeOK' /\ TaskInv'
  BY <1>3 DEF EvictGhost, Release, SlotsOwnedBy, SlotsHeldBy, TypeOK, TaskInv, taskVars
<1> QED BY <1>1, <1>2, <1>3

\* Arriving in a zone, with or without re-gating the room.
LEMMA ArriveType ==
  ASSUME TypeOK, NEW c \in Conn, NEW z \in Zone, NEW regate \in BOOLEAN, Arrive(c, z, regate)
  PROVE  /\ clockZone' \in [Player -> Zone \cup {None}]
         /\ clockReady' \in [Player -> BOOLEAN]
<1>1. clockZone' \in [Player -> Zone \cup {None}]
  BY DEF Arrive, TypeOK
<1>2. clockReady' \in [Player -> BOOLEAN]
  <2> DEFINE ready(p) == IF p = who[c] THEN p \in registered
                         ELSE IF regate /\ roomOf[p] = connRoom[c] THEN FALSE
                         ELSE clockReady[p]
  <2>1. ASSUME NEW p \in Player PROVE ready(p) \in BOOLEAN
    <3>1. clockReady[p] \in BOOLEAN
      BY DEF TypeOK
    <3>2. CASE p = who[c]
      BY <3>2
    <3>3. CASE p # who[c] /\ regate /\ roomOf[p] = connRoom[c]
      BY <3>3
    <3>4. CASE p # who[c] /\ ~(regate /\ roomOf[p] = connRoom[c])
      BY <3>1, <3>4
    <3> QED BY <3>2, <3>3, <3>4
  <2>2. clockReady' = [p \in Player |-> ready(p)]
    BY Zenon DEF Arrive
  <2> HIDE DEF ready
  <2> QED BY <2>1, <2>2
<1> QED BY <1>1, <1>2

\* JOIN_ROOM, TIME_READY and TIME_UNREADY.
LEMMA RoomType ==
  ASSUME TypeOK, TaskInv, NEW c \in Conn,
         \/ \E r \in Room : JoinRoom(c, r)
         \/ JoinRoomFinish(c)
         \/ \E z \in Zone : TimeReady(c, z) \/ TimeReadyLeave(c, z)
         \/ TimeReadyArrive(c) \/ TimeUnready(c)
  PROVE  TypeOK' /\ TaskInv'
<1>1. ASSUME NEW r \in Room, JoinRoom(c, r) PROVE TypeOK' /\ TaskInv'
  <2>1. who[c] \in Player
    BY <1>1 DEF JoinRoom, Handling, TypeOK
  <2> QED BY <1>1, <2>1, NoneAssumption
        DEF JoinRoom, Handling, Moved, TypeOK, TaskInv, PcState,
            identityVars, clockVars, worldVars
<1>2. CASE JoinRoomFinish(c)
  BY <1>2 DEF JoinRoomFinish, TypeOK, TaskInv, PcState, identityVars, placeVars, worldVars
<1>3. ASSUME NEW z \in Zone, TimeReady(c, z) PROVE TypeOK' /\ TaskInv'
  BY <1>3 DEF TimeReady, Arrive, TypeOK, TaskInv, identityVars, placeVars, worldVars, taskVars
<1>4. ASSUME NEW z \in Zone, TimeReadyLeave(c, z) PROVE TypeOK' /\ TaskInv'
  <2>1. who[c] \in Player
    BY <1>4 DEF TimeReadyLeave, Handling, TypeOK
  <2>2. /\ owner' \in [Slot -> Player \cup {None}]
        /\ holder' \in [Slot -> Player \cup {None}]
        /\ cooling' \subseteq Slot
    BY <1>4 DEF TimeReadyLeave, Release, LeftHeld, SlotsHeldBy, TypeOK
  <2>3. /\ pc' = [pc EXCEPT ![c] = "leaving"]
        /\ target' = [target EXCEPT ![c] = z]
        /\ UNCHANGED <<issued, registered, identity, connection, roomOf, members,
                       clockReady, clockZone, who, connRoom, closed>>
    BY <1>4 DEF TimeReadyLeave, identityVars, placeVars, clockVars
  <2>4. pc[c] = "reading"
    BY <1>4 DEF TimeReadyLeave, Handling
  <2>5. TypeOK'
    BY <2>2, <2>3 DEF TypeOK, PcState
  <2>6. TaskInv'
    BY <2>1, <2>3, <2>4 DEF TypeOK, TaskInv
  <2> QED BY <2>5, <2>6
<1>5. CASE TimeReadyArrive(c)
  <2>1. target[c] \in Zone
    BY <1>5 DEF TimeReadyArrive, TaskInv
  <2>2. /\ clockZone' \in [Player -> Zone \cup {None}]
        /\ clockReady' \in [Player -> BOOLEAN]
    BY <1>5, <2>1, ArriveType DEF TimeReadyArrive
  <2>3. /\ pc' = [pc EXCEPT ![c] = "reading"]
        /\ target' = [target EXCEPT ![c] = None]
        /\ UNCHANGED <<issued, registered, identity, connection, roomOf, members,
                       owner, holder, cooling, who, connRoom, closed>>
    BY <1>5 DEF TimeReadyArrive, identityVars, placeVars, worldVars
  <2>4. TypeOK'
    BY <2>2, <2>3 DEF TypeOK, PcState
  <2>5. TaskInv'
    BY <2>3 DEF TypeOK, TaskInv
  <2> QED BY <2>4, <2>5
<1>6. CASE TimeUnready(c)
  BY <1>6 DEF TimeUnready, TypeOK, TaskInv, identityVars, placeVars, worldVars, taskVars
<1> QED BY <1>1, <1>2, <1>3, <1>4, <1>5, <1>6

\* Objects and interactions, and the watchdogs over them.
LEMMA WorldType ==
  ASSUME TypeOK, TaskInv,
         \/ \E c \in Conn, z \in Stamp, k \in Key :
              \/ ObjectClaim(c, z, k) \/ ObjectRelease(c, z, k)
              \/ InteractionRequest(c, z, k) \/ InteractionEnd(c, z, k)
         \/ \E s \in Slot : ExpireInteraction(s) \/ CooldownOver(s)
  PROVE  TypeOK' /\ TaskInv'
<1> USE DEF TypeOK, TaskInv, identityVars, placeVars, clockVars, taskVars
<1>1. ASSUME NEW c \in Conn, NEW z \in Stamp, NEW k \in Key, ObjectClaim(c, z, k)
      PROVE  TypeOK' /\ TaskInv'
  BY <1>1 DEF ObjectClaim, Handling
<1>2. ASSUME NEW c \in Conn, NEW z \in Stamp, NEW k \in Key, ObjectRelease(c, z, k)
      PROVE  TypeOK' /\ TaskInv'
  BY <1>2 DEF ObjectRelease
<1>3. ASSUME NEW c \in Conn, NEW z \in Stamp, NEW k \in Key, InteractionRequest(c, z, k)
      PROVE  TypeOK' /\ TaskInv'
  BY <1>3 DEF InteractionRequest, Handling
<1>4. ASSUME NEW c \in Conn, NEW z \in Stamp, NEW k \in Key, InteractionEnd(c, z, k)
      PROVE  TypeOK' /\ TaskInv'
  <2>1. WriteSlot(connRoom[c], z, k) \in Slot
    BY <1>4, SlotType DEF InteractionEnd, Handling
  <2> QED BY <1>4, <2>1 DEF InteractionEnd, Release
<1>5. ASSUME NEW s \in Slot, ExpireInteraction(s) PROVE TypeOK' /\ TaskInv'
  BY <1>5 DEF ExpireInteraction, Release
<1>6. ASSUME NEW s \in Slot, CooldownOver(s) PROVE TypeOK' /\ TaskInv'
  BY <1>6 DEF CooldownOver
<1> QED BY <1>1, <1>2, <1>3, <1>4, <1>5, <1>6

\* Types and task facts are inductive.
LEMMA TypeStep == TypeOK /\ TaskInv /\ [Next]_vars => (TypeOK /\ TaskInv)'
<1> SUFFICES ASSUME TypeOK, TaskInv, [Next]_vars PROVE TypeOK' /\ TaskInv'
  OBVIOUS
<1>1. CASE UNCHANGED vars
  BY <1>1 DEF vars, identityVars, placeVars, clockVars, worldVars, taskVars, TypeOK, TaskInv
<1>2. CASE Next
  BY <1>2, HelloType, LeavingType, RoomType, WorldType, ZenonT(60) DEF Next
<1> QED BY <1>1, <1>2

\* Every field of every record of the session keeps its type; in particular a
\* registered id is one that was issued, so ids are never handed out twice.
THEOREM TypeCorrect == Spec => []TypeOK
<1> QED BY InitType, TypeStep, PTL DEF Spec

-----------------------------------------------------------------------------
\* Identities and connections.

\* A player is kept alive by an unfinished connection only, and whoever a
\* suspended HELLO is about to adopt is still registered.
ConnInv ==
  /\ \A p \in Player : connection[p] # None => p \in registered /\ Unfinished(connection[p], p)
  /\ \A c \in Conn : pc[c] = "closing_old" => target[c] \in registered

RoomInv == \A p \in registered : roomOf[p] \in Room

IdentityInv ==
  \A k \in Client : identity[k] # None =>
    /\ identity[k] \in registered
    /\ \A j \in Client : identity[j] = identity[k] => j = k

\* What serial HELLOs add: one open connection per player, one HELLO waiting.
SerialInv ==
  /\ \A c \in Conn, p \in Player : Unfinished(c, p) =>
       p \in registered /\ (connection[p] = c \/ closed[c])
  /\ \A c, d \in Conn, p \in Player : Awaiting(c, p) /\ Awaiting(d, p) => c = d
  /\ \A c \in Conn, p \in Player : Awaiting(c, p) => ~HasOpenConnection(p)

IInv ==
  /\ TypeOK
  /\ TaskInv
  /\ ConnInv
  /\ IdentityInv
  /\ RoomInv
  /\ SerialHello => SerialInv
  /\ RostersAgree
  /\ HoldersRegistered

\* A step in which nobody connects, disconnects, is created or is evicted.
Quiet ==
  /\ UNCHANGED <<issued, registered, identity, connection, who, closed>>
  /\ \A c \in Conn : /\ pc'[c] = "done" <=> pc[c] = "done"
                     /\ pc'[c] = "closing_old" <=> pc[c] = "closing_old"
                     /\ pc[c] = "closing_old" => target'[c] = target[c]

QuietAction ==
  \/ \E c \in Conn : \/ HelloFinish(c)
                     \/ \E r \in Room : JoinRoom(c, r)
                     \/ JoinRoomFinish(c)
                     \/ \E z \in Zone : TimeReady(c, z) \/ TimeReadyLeave(c, z)
                     \/ TimeReadyArrive(c)
                     \/ TimeUnready(c)
                     \/ \E z \in Stamp, k \in Key : \/ ObjectClaim(c, z, k)
                                                    \/ ObjectRelease(c, z, k)
                                                    \/ InteractionRequest(c, z, k)
                                                    \/ InteractionEnd(c, z, k)
  \/ \E s \in Slot : ExpireInteraction(s) \/ CooldownOver(s)
  \/ UNCHANGED vars

LoudAction ==
  \/ \E c \in Conn, k \in Client : HelloNew(c, k) \/ HelloResume(c, k) \/ HelloTakeover(c, k)
  \/ \E c \in Conn : HelloAnonymous(c) \/ HelloAdopt(c) \/ Break(c) \/ Disconnect(c)
  \/ \E p \in Player : EvictGhost(p)

\* Every step is one or the other.
LEMMA QuietOrLoud == [Next]_vars => QuietAction \/ LoudAction
  BY ZenonT(60) DEF Next, QuietAction, LoudAction

\* The quiet actions leave players and their connections alone.
LEMMA QuietActionIsQuiet == TypeOK /\ QuietAction => Quiet
<1> SUFFICES ASSUME TypeOK, QuietAction PROVE Quiet
  OBVIOUS
<1> USE DEF Quiet, identityVars, taskVars, TypeOK
<1>1. ASSUME NEW c \in Conn, HelloFinish(c) PROVE Quiet
  BY <1>1 DEF HelloFinish
<1>2. ASSUME NEW c \in Conn, NEW r \in Room, JoinRoom(c, r) PROVE Quiet
  BY <1>2 DEF JoinRoom, Handling
<1>3. ASSUME NEW c \in Conn, JoinRoomFinish(c) PROVE Quiet
  BY <1>3 DEF JoinRoomFinish
<1>4. ASSUME NEW c \in Conn, NEW z \in Zone, TimeReady(c, z) PROVE Quiet
  BY <1>4 DEF TimeReady
<1>5. ASSUME NEW c \in Conn, NEW z \in Zone, TimeReadyLeave(c, z) PROVE Quiet
  BY <1>5 DEF TimeReadyLeave, Handling
<1>6. ASSUME NEW c \in Conn, TimeReadyArrive(c) PROVE Quiet
  BY <1>6 DEF TimeReadyArrive
<1>7. ASSUME NEW c \in Conn, TimeUnready(c) PROVE Quiet
  BY <1>7 DEF TimeUnready
<1>8. ASSUME NEW c \in Conn, NEW z \in Stamp, NEW k \in Key,
             \/ ObjectClaim(c, z, k) \/ ObjectRelease(c, z, k)
             \/ InteractionRequest(c, z, k) \/ InteractionEnd(c, z, k)
      PROVE  Quiet
  BY <1>8 DEF ObjectClaim, ObjectRelease, InteractionRequest, InteractionEnd
<1>9. ASSUME NEW s \in Slot, ExpireInteraction(s) \/ CooldownOver(s) PROVE Quiet
  BY <1>9 DEF ExpireInteraction, CooldownOver
<1>10. CASE UNCHANGED vars
  BY <1>10 DEF vars
<1> QED BY <1>1, <1>2, <1>3, <1>4, <1>5, <1>6, <1>7, <1>8, <1>9, <1>10 DEF QuietAction

\* A new player gets a connection and an identity of its own.
LEMMA ConnCreate ==
  ASSUME TypeOK, TaskInv, ConnInv, IdentityInv, SerialHello => SerialInv,
         NEW c \in Conn, NEW p \in Player, Create(c, p),
         identity' = identity \/ \E k \in Client : identity' = [identity EXCEPT ![k] = p]
  PROVE  ConnInv' /\ IdentityInv' /\ (SerialHello => SerialInv')
<1>1. /\ p \notin registered /\ registered' = registered \cup {p}
      /\ who[c] = None /\ pc[c] = "reading"
      /\ connection' = [connection EXCEPT ![p] = c]
      /\ who' = [who EXCEPT ![c] = p]
      /\ pc' = [pc EXCEPT ![c] = "welcoming"]
      /\ target' = [target EXCEPT ![c] = None]
      /\ closed' = closed
  BY DEF Create, Adopt, Fresh, TypeOK
<1>2. ConnInv'
  BY <1>1, NoneAssumption DEF ConnInv, Unfinished, TypeOK
<1>3. IdentityInv'
  BY <1>1 DEF IdentityInv, TypeOK
<1>4. ASSUME SerialHello, SerialInv PROVE SerialInv'
  BY <1>1, <1>4 DEF SerialInv, ConnInv, Unfinished, Awaiting, HasOpenConnection, TypeOK
<1> QED BY <1>2, <1>3, <1>4

\* A registered player adopted by the HELLO of c.
LEMMA ConnAdopt ==
  ASSUME TypeOK, TaskInv, ConnInv, IdentityInv, SerialHello => SerialInv,
         NEW c \in Conn, NEW p \in registered, Adopt(c, p),
         UNCHANGED <<issued, registered, identity, closed>>,
         who[c] = None, ~Awaiting(c, p) => ~HasOpenConnection(p),
         SerialHello => \A d \in Conn : Awaiting(d, p) => d = c
  PROVE  ConnInv' /\ IdentityInv' /\ (SerialHello => SerialInv')
<1>1. /\ p \in Player
      /\ connection' = [connection EXCEPT ![p] = c]
      /\ who' = [who EXCEPT ![c] = p]
      /\ pc' = [pc EXCEPT ![c] = "welcoming"]
      /\ target' = [target EXCEPT ![c] = None]
  BY DEF Adopt, TypeOK
<1>2. ConnInv'
  BY <1>1, NoneAssumption DEF ConnInv, Unfinished, TypeOK
<1>3. IdentityInv'
  BY DEF IdentityInv
<1>4. ASSUME SerialHello, SerialInv PROVE SerialInv'
  <2>1. ~HasOpenConnection(p)
    BY <1>1, <1>4 DEF SerialInv
  <2>2. (\A d \in Conn, q \in Player : Unfinished(d, q) =>
           q \in registered /\ (connection[q] = d \/ closed[d]))'
    BY <1>1, <1>4, <2>1, NoneAssumption DEF SerialInv, Unfinished, HasOpenConnection, TypeOK
  <2>3. (\A d, e \in Conn, q \in Player : Awaiting(d, q) /\ Awaiting(e, q) => d = e)'
    BY <1>1, <1>4 DEF SerialInv, Awaiting, TypeOK
  <2>4. (\A d \in Conn, q \in Player : Awaiting(d, q) => ~HasOpenConnection(q))'
    BY <1>1, <1>4 DEF SerialInv, Awaiting, HasOpenConnection, TypeOK
  <2> QED BY <2>2, <2>3, <2>4 DEF SerialInv
<1> QED BY <1>2, <1>3, <1>4

\* A stale socket is closed before its player is adopted.
LEMMA ConnTakeover ==
  ASSUME TypeOK, TaskInv, ConnInv, IdentityInv, SerialHello => SerialInv,
         NEW c \in Conn, NEW k \in Client, HelloTakeover(c, k)
  PROVE  ConnInv' /\ IdentityInv' /\ (SerialHello => SerialInv')
<1> DEFINE p == identity[k]
<1>1. p \in registered /\ p \in Player
  BY DEF HelloTakeover, IdentityInv, TypeOK
<1>2. /\ who[c] = None /\ pc[c] = "reading"
      /\ closed' = [closed EXCEPT ![connection[p]] = TRUE]
      /\ pc' = [pc EXCEPT ![c] = "closing_old"]
      /\ target' = [target EXCEPT ![c] = p]
      /\ connection[p] # None
      /\ UNCHANGED <<issued, registered, identity, connection, who>>
  BY DEF HelloTakeover, HasOpenConnection, Fresh, identityVars
<1> HIDE DEF p
<1>3. ConnInv'
  BY <1>1, <1>2 DEF ConnInv, Unfinished, TypeOK
<1>4. IdentityInv'
  BY <1>2 DEF IdentityInv
<1>5. ASSUME SerialHello, SerialInv PROVE SerialInv'
  <2>1. \A d \in Conn : ~Awaiting(d, p)
    BY <1>5 DEF HelloTakeover, p
  <2>2. connection[p] \in Conn /\ closed'[connection[p]]
    BY <1>1, <1>2 DEF TypeOK
  <2>3. \A d \in Conn : closed[d] => closed'[d]
    BY <1>1, <1>2 DEF TypeOK
  <2>4. (\A d \in Conn, q \in Player : Unfinished(d, q) =>
           q \in registered /\ (connection[q] = d \/ closed[d]))'
    BY <1>2, <1>5, <2>3 DEF SerialInv, Unfinished, TypeOK
  <2>5. (\A d, e \in Conn, q \in Player : Awaiting(d, q) /\ Awaiting(e, q) => d = e)'
    BY <1>2, <1>5, <2>1 DEF SerialInv, Awaiting, TypeOK
  <2>6. (\A d \in Conn, q \in Player : Awaiting(d, q) => ~HasOpenConnection(q))'
    BY <1>1, <1>2, <1>5, <2>2, <2>3 DEF SerialInv, Awaiting, HasOpenConnection, TypeOK
  <2> QED BY <2>4, <2>5, <2>6 DEF SerialInv
<1> QED BY <1>3, <1>4, <1>5

\* A socket that breaks only becomes closed.
LEMMA ConnBreak ==
  ASSUME TypeOK, TaskInv, ConnInv, IdentityInv, SerialHello => SerialInv,
         NEW c \in Conn, Break(c)
  PROVE  ConnInv' /\ IdentityInv' /\ (SerialHello => SerialInv')
<1> USE DEF Break, identityVars
<1>1. ConnInv'
  BY DEF ConnInv, Unfinished
<1>2. IdentityInv'
  BY DEF IdentityInv
<1>3. ASSUME SerialHello, SerialInv PROVE SerialInv'
  BY <1>3 DEF SerialInv, Unfinished, Awaiting, HasOpenConnection, TypeOK
<1> QED BY <1>1, <1>2, <1>3

\* A task that ends takes away its own connection only.
LEMMA ConnDisconnect ==
  ASSUME TypeOK, TaskInv, ConnInv, IdentityInv, SerialHello => SerialInv,
         NEW c \in Conn, Disconnect(c)
  PROVE  ConnInv' /\ IdentityInv' /\ (SerialHello => SerialInv')
<1>1. /\ who[c] \in Player /\ pc[c] # "closing_old"
      /\ pc' = [pc EXCEPT ![c] = "done"]
      /\ closed' = [closed EXCEPT ![c] = TRUE]
      /\ target' = [target EXCEPT ![c] = None]
      /\ UNCHANGED <<issued, registered, identity, who>>
  BY DEF Disconnect, TypeOK
<1>2. \A p \in Player :
        connection'[p] = IF p \in registered /\ who[c] = p /\ connection[p] = c
                         THEN None ELSE connection[p]
  <2>1. CASE IsLive(c)
    <3>1. connection' = [connection EXCEPT ![who[c]] = None]
      BY <2>1 DEF Disconnect
    <3> QED BY <2>1, <3>1 DEF IsLive, TypeOK
  <2>2. CASE ~IsLive(c)
    BY <2>2 DEF Disconnect, IsLive
  <2> QED BY <2>1, <2>2
<1>3. ConnInv'
  BY <1>1, <1>2 DEF ConnInv, Unfinished, TypeOK
<1>4. IdentityInv'
  BY <1>1 DEF IdentityInv
<1>5. ASSUME SerialHello, SerialInv PROVE SerialInv'
  <2>1. \A d \in Conn, q \in Player : Unfinished(d, q)' => Unfinished(d, q) /\ d # c
    BY <1>1 DEF Unfinished, TypeOK
  <2>2. \A d \in Conn, q \in Player : Awaiting(d, q)' => Awaiting(d, q)
    BY <1>1 DEF Awaiting, TypeOK
  <2>3. \A q \in Player : HasOpenConnection(q)' => HasOpenConnection(q)
    BY <1>1, <1>2 DEF HasOpenConnection, TypeOK
  <2>4. (\A d \in Conn, q \in Player : Unfinished(d, q) =>
           q \in registered /\ (connection[q] = d \/ closed[d]))'
    BY <1>1, <1>2, <1>5, <2>1 DEF SerialInv, TypeOK
  <2> QED BY <1>5, <2>2, <2>3, <2>4 DEF SerialInv
<1> QED BY <1>3, <1>4, <1>5

\* Eviction forgets a player nobody acts for.
LEMMA ConnEvict ==
  ASSUME TypeOK, TaskInv, ConnInv, IdentityInv, SerialHello => SerialInv,
         NEW p \in Player, EvictGhost(p)
  PROVE  ConnInv' /\ IdentityInv' /\ (SerialHello => SerialInv')
<1>1. /\ p \in registered /\ connection[p] = None
      /\ \A c \in Conn : who[c] = p /\ closed[c] => pc[c] = "done"
      /\ \A c \in Conn : ~Awaiting(c, p)
      /\ registered' = registered \ {p}
      /\ identity' = [k \in Client |-> IF identity[k] = p THEN None ELSE identity[k]]
      /\ UNCHANGED <<connection, pc, who, closed, target>>
  BY DEF EvictGhost, taskVars
<1>2. ConnInv'
  BY <1>1 DEF ConnInv, Unfinished, Awaiting, TypeOK
<1>3. IdentityInv'
  BY <1>1, NoneAssumption DEF IdentityInv, TypeOK
<1>4. ASSUME SerialHello, SerialInv PROVE SerialInv'
  BY <1>1, <1>4, NoneAssumption DEF SerialInv, Unfinished, Awaiting, HasOpenConnection, TypeOK
<1> QED BY <1>2, <1>3, <1>4

\* Quiet steps do not matter.
LEMMA ConnQuiet ==
  ASSUME TypeOK, ConnInv, IdentityInv, SerialHello => SerialInv, Quiet
  PROVE  ConnInv' /\ IdentityInv' /\ (SerialHello => SerialInv')
<1> USE DEF Quiet
<1>1. ConnInv'
  BY DEF ConnInv, Unfinished, TypeOK
<1>2. IdentityInv'
  BY DEF IdentityInv
<1>3. ASSUME SerialHello, SerialInv PROVE SerialInv'
  BY <1>3 DEF SerialInv, Unfinished, Awaiting, HasOpenConnection, TypeOK
<1> QED BY <1>1, <1>2, <1>3

\* The facts about connections and identities are inductive.
LEMMA ConnStep ==
  ASSUME TypeOK, TaskInv, ConnInv, IdentityInv, SerialHello => SerialInv, [Next]_vars
  PROVE  ConnInv' /\ IdentityInv' /\ (SerialHello => SerialInv')
<1> DEFINE G == ConnInv' /\ IdentityInv' /\ (SerialHello => SerialInv')
<1>1. ASSUME NEW c \in Conn, NEW k \in Client, HelloNew(c, k) PROVE G
  BY <1>1, ConnCreate DEF HelloNew
<1>2. ASSUME NEW c \in Conn, HelloAnonymous(c) PROVE G
  BY <1>2, ConnCreate DEF HelloAnonymous
<1>3. ASSUME NEW c \in Conn, NEW k \in Client, HelloResume(c, k) PROVE G
  <2>1. identity[k] \in registered
    BY <1>3 DEF HelloResume, IdentityInv
  <2> QED BY <1>3, <2>1, ConnAdopt DEF HelloResume, Fresh
<1>4. ASSUME NEW c \in Conn, NEW k \in Client, HelloTakeover(c, k) PROVE G
  BY <1>4, ConnTakeover
<1>5. ASSUME NEW c \in Conn, HelloAdopt(c) PROVE G
  <2>1. target[c] \in registered /\ who[c] = None /\ Awaiting(c, target[c])
    BY <1>5 DEF HelloAdopt, ConnInv, TaskInv, Awaiting
  <2>2. SerialHello => \A d \in Conn : Awaiting(d, target[c]) => d = c
    BY <2>1 DEF SerialInv, TypeOK
  <2> QED BY <1>5, <2>1, <2>2, ConnAdopt DEF HelloAdopt
<1>6. ASSUME NEW c \in Conn, Break(c) \/ Disconnect(c) PROVE G
  BY <1>6, ConnBreak, ConnDisconnect
<1>7. ASSUME NEW p \in Player, EvictGhost(p) PROVE G
  BY <1>7, ConnEvict
<1>8. ASSUME QuietAction PROVE G
  BY <1>8, QuietActionIsQuiet, ConnQuiet
<1> HIDE DEF G
<1>9. ASSUME LoudAction PROVE G
  BY <1>1, <1>2, <1>3, <1>4, <1>5, <1>6, <1>7, <1>9 DEF LoudAction
<1>10. G
  BY <1>8, <1>9, QuietOrLoud
<1> QED BY <1>10 DEF G

-----------------------------------------------------------------------------
\* Rosters.

\* An adopted player is on the roster of its room.
LEMMA RosterAdopt ==
  ASSUME TypeOK, ConnInv, RoomInv, RostersAgree,
         NEW c \in Conn, NEW p \in Player, Adopt(c, p),
         registered' = registered \cup {p}
  PROVE  RoomInv' /\ RostersAgree'
<1> DEFINE room == IF roomOf[p] = None THEN DefaultRoom ELSE roomOf[p]
<1>1. /\ connection' = [connection EXCEPT ![p] = c]
      /\ members' = [members EXCEPT ![room] = @ \cup {p}]
      /\ roomOf' = [roomOf EXCEPT ![p] = room]
      /\ room \in Room
  BY RoomAssumption DEF Adopt, TypeOK
<1>2. \A r \in Room : p \in members[r] => r = room
  BY NoneAssumption DEF RostersAgree
<1> HIDE DEF room
<1>3. RoomInv'
  BY <1>1 DEF RoomInv, TypeOK
<1>4. (\A r \in Room : \A q \in members[r] : q \in registered /\ roomOf[q] = r)'
  BY <1>1, <1>2 DEF RostersAgree, TypeOK
<1>5. (\A q \in Player : connection[q] # None => q \in members[roomOf[q]])'
  <2> SUFFICES ASSUME NEW q \in Player, connection'[q] # None
               PROVE  q \in members'[roomOf'[q]]
    OBVIOUS
  <2>1. CASE q = p
    BY <1>1, <2>1 DEF TypeOK
  <2>2. CASE q # p
    <3>1. connection[q] # None
      BY <1>1, <2>2 DEF TypeOK
    <3>2. q \in members[roomOf[q]] /\ roomOf[q] \in Room
      BY <3>1 DEF RostersAgree, ConnInv, RoomInv
    <3> QED BY <1>1, <2>2, <3>2 DEF TypeOK
  <2> QED BY <2>1, <2>2
<1> QED BY <1>3, <1>4, <1>5 DEF RostersAgree

\* A ghost is on no roster and keeps its room.
LEMMA RosterDisconnect ==
  ASSUME TypeOK, ConnInv, RoomInv, RostersAgree, NEW c \in Conn, Disconnect(c)
  PROVE  RoomInv' /\ RostersAgree'
<1>1. UNCHANGED <<registered, roomOf>>
  BY DEF Disconnect
<1>2. RoomInv'
  BY <1>1 DEF RoomInv
<1>3. CASE IsLive(c)
  <2> DEFINE p == who[c]
  <2>1. /\ p \in Player
        /\ connection' = [connection EXCEPT ![p] = None]
        /\ members' = [members EXCEPT ![roomOf[p]] = @ \ {p}]
    BY <1>3 DEF Disconnect, IsLive, TypeOK
  <2> HIDE DEF p
  <2>2. (\A r \in Room : \A q \in members[r] : q \in registered /\ roomOf[q] = r)'
    BY <1>1, <2>1 DEF RostersAgree, TypeOK
  <2>3. (\A q \in Player : connection[q] # None => q \in members[roomOf[q]])'
    BY <1>1, <2>1 DEF RostersAgree, TypeOK, ConnInv, RoomInv
  <2> QED BY <1>2, <2>2, <2>3 DEF RostersAgree
<1>4. CASE ~IsLive(c)
  <2>1. UNCHANGED <<connection, members>>
    BY <1>4 DEF Disconnect
  <2> QED BY <1>1, <1>2, <2>1 DEF RostersAgree
<1> QED BY <1>3, <1>4

\* An evicted player is on no roster and has no room.
LEMMA RosterEvict ==
  ASSUME TypeOK, ConnInv, RoomInv, RostersAgree, NEW p \in Player, EvictGhost(p)
  PROVE  RoomInv' /\ RostersAgree'
<1>1. /\ p \in registered /\ connection[p] = None
      /\ registered' = registered \ {p}
      /\ members' = [members EXCEPT ![roomOf[p]] = @ \ {p}]
      /\ roomOf' = [roomOf EXCEPT ![p] = None]
      /\ connection' = connection
  BY DEF EvictGhost
<1>2. RoomInv'
  BY <1>1 DEF RoomInv, TypeOK
<1>3. roomOf[p] \in Room
  BY <1>1 DEF RoomInv
<1>4. (\A r \in Room : \A q \in members[r] : q \in registered /\ roomOf[q] = r)'
  BY <1>1, <1>3 DEF RostersAgree, TypeOK
<1>5. (\A q \in Player : connection[q] # None => q \in members[roomOf[q]])'
  BY <1>1, <1>3 DEF RostersAgree, TypeOK, ConnInv, RoomInv
<1> QED BY <1>2, <1>4, <1>5 DEF RostersAgree

\* A move takes the player from the old roster to the new one.
LEMMA RosterJoin ==
  ASSUME TypeOK, ConnInv, RoomInv, RostersAgree, NEW c \in Conn, NEW r \in Room, JoinRoom(c, r)
  PROVE  RoomInv' /\ RostersAgree'
<1> DEFINE p == who[c]
<1>1. /\ p \in registered /\ p \in Player
      /\ members' = Moved(p, r)
      /\ roomOf' = [roomOf EXCEPT ![p] = r]
      /\ UNCHANGED <<registered, connection>>
  BY DEF JoinRoom, TypeOK, identityVars
<1> HIDE DEF p
<1>2. RoomInv'
  BY <1>1 DEF RoomInv, TypeOK
<1>3. roomOf[p] \in Room
  BY <1>1 DEF RoomInv
<1>4. (\A x \in Room : \A q \in members[x] : q \in registered /\ roomOf[q] = x)'
  BY <1>1, <1>3 DEF RostersAgree, Moved, TypeOK
<1>5. (\A q \in Player : connection[q] # None => q \in members[roomOf[q]])'
  <2> SUFFICES ASSUME NEW q \in Player, connection'[q] # None
               PROVE  q \in members'[roomOf'[q]]
    OBVIOUS
  <2>1. CASE q = p
    BY <1>1, <2>1 DEF Moved, TypeOK
  <2>2. CASE q # p
    <3>1. q \in members[roomOf[q]] /\ roomOf[q] \in Room /\ roomOf'[q] = roomOf[q]
      BY <1>1, <2>2 DEF RostersAgree, ConnInv, RoomInv, TypeOK
    <3> QED BY <1>1, <2>2, <3>1 DEF Moved, TypeOK
  <2> QED BY <2>1, <2>2
<1> QED BY <1>2, <1>4, <1>5 DEF RostersAgree

\* Every other step leaves rosters, rooms and connections alone.
LEMMA RosterUntouched ==
  ASSUME TypeOK, RoomInv, RostersAgree, UNCHANGED <<registered, connection, roomOf, members>>
  PROVE  RoomInv' /\ RostersAgree'
  BY DEF RoomInv, RostersAgree

\* Other quiet steps leave the rosters alone.
LEMMA QuietRosters ==
  ASSUME QuietAction, ~\E c \in Conn, r \in Room : JoinRoom(c, r)
  PROVE  UNCHANGED <<registered, connection, roomOf, members>>
<1> USE DEF identityVars, placeVars
<1>1. ASSUME NEW c \in Conn,
             \/ HelloFinish(c) \/ JoinRoomFinish(c) \/ TimeReadyArrive(c) \/ TimeUnready(c)
             \/ \E z \in Zone : TimeReady(c, z) \/ TimeReadyLeave(c, z)
      PROVE  UNCHANGED <<registered, connection, roomOf, members>>
  BY <1>1 DEF HelloFinish, JoinRoomFinish, TimeReadyArrive, TimeUnready, TimeReady, TimeReadyLeave
<1>2. ASSUME NEW c \in Conn, NEW z \in Stamp, NEW k \in Key,
             \/ ObjectClaim(c, z, k) \/ ObjectRelease(c, z, k)
             \/ InteractionRequest(c, z, k) \/ InteractionEnd(c, z, k)
      PROVE  UNCHANGED <<registered, connection, roomOf, members>>
  BY <1>2 DEF ObjectClaim, ObjectRelease, InteractionRequest, InteractionEnd
<1>3. ASSUME NEW s \in Slot, ExpireInteraction(s) \/ CooldownOver(s)
      PROVE  UNCHANGED <<registered, connection, roomOf, members>>
  BY <1>3 DEF ExpireInteraction, CooldownOver
<1>4. ASSUME UNCHANGED vars
      PROVE  UNCHANGED <<registered, connection, roomOf, members>>
  BY <1>4 DEF vars
<1> QED BY <1>1, <1>2, <1>3, <1>4 DEF QuietAction

\* The facts about rosters are inductive.
LEMMA RosterStep ==
  ASSUME TypeOK, TaskInv, ConnInv, IdentityInv, RoomInv, RostersAgree, [Next]_vars
  PROVE  RoomInv' /\ RostersAgree'
<1> DEFINE G == RoomInv' /\ RostersAgree'
<1>1. ASSUME NEW c \in Conn, NEW p \in Player, Create(c, p) PROVE G
  BY <1>1, RosterAdopt DEF Create
<1>2. ASSUME NEW c \in Conn, NEW k \in Client, HelloNew(c, k) PROVE G
  BY <1>1, <1>2 DEF HelloNew
<1>3. ASSUME NEW c \in Conn, HelloAnonymous(c) PROVE G
  BY <1>1, <1>3 DEF HelloAnonymous
<1>4. ASSUME NEW c \in Conn, NEW p \in registered, Adopt(c, p), registered' = registered PROVE G
  <2>1. p \in Player /\ registered' = registered \cup {p}
    BY <1>4 DEF TypeOK
  <2> QED BY <1>4, <2>1, RosterAdopt
<1>5. ASSUME NEW c \in Conn, NEW k \in Client, HelloResume(c, k) PROVE G
  BY <1>4, <1>5 DEF HelloResume, IdentityInv
<1>6. ASSUME NEW c \in Conn, HelloAdopt(c) PROVE G
  BY <1>4, <1>6 DEF HelloAdopt, ConnInv
<1>7. ASSUME NEW c \in Conn, NEW k \in Client, HelloTakeover(c, k) PROVE G
  BY <1>7, RosterUntouched DEF HelloTakeover, identityVars, placeVars
<1>8. ASSUME NEW c \in Conn, Break(c) PROVE G
  BY <1>8, RosterUntouched DEF Break, identityVars, placeVars
<1>9. ASSUME NEW c \in Conn, Disconnect(c) PROVE G
  BY <1>9, RosterDisconnect
<1>10. ASSUME NEW p \in Player, EvictGhost(p) PROVE G
  BY <1>10, RosterEvict
<1>11. ASSUME LoudAction PROVE G
  BY <1>2, <1>3, <1>5, <1>6, <1>7, <1>8, <1>9, <1>10, <1>11, ZenonT(60) DEF LoudAction
<1>12. ASSUME NEW c \in Conn, NEW r \in Room, JoinRoom(c, r) PROVE G
  BY <1>12, RosterJoin
<1>13. ASSUME QuietAction PROVE G
  BY <1>12, <1>13, QuietRosters, RosterUntouched
<1> QED BY <1>11, <1>13, QuietOrLoud

-----------------------------------------------------------------------------
\* Holdings.

\* A frame is handled for a registered player.
LEMMA HandlersRegistered ==
  ASSUME TypeOK, SerialInv, NEW c \in Conn, Handling(c)
  PROVE  who[c] \in registered
  BY DEF SerialInv, Handling, Unfinished, TypeOK

\* Releasing adds no owner and no holder.
LEMMA HoldersRelease ==
  ASSUME SerialHello, TypeOK, HoldersRegistered, NEW S, NEW H, Release(S, H),
         registered' = registered
  PROVE  HoldersRegistered'
  BY DEF HoldersRegistered, Release

\* More players registered, the same owners and holders.
LEMMA HoldersUntouched ==
  ASSUME HoldersRegistered, registered \subseteq registered', UNCHANGED <<owner, holder>>
  PROVE  HoldersRegistered'
  BY DEF HoldersRegistered

\* An evicted player owns and holds nothing.
LEMMA HoldersEvict ==
  ASSUME SerialHello, TypeOK, HoldersRegistered, NEW p \in Player, EvictGhost(p)
  PROVE  HoldersRegistered'
<1>1. /\ registered' = registered \ {p}
      /\ owner' = [s \in Slot |-> IF s \in SlotsOwnedBy(p) THEN None ELSE owner[s]]
      /\ holder' = [s \in Slot |-> IF s \in SlotsHeldBy(p) THEN None ELSE holder[s]]
  BY DEF EvictGhost, Release
<1>2. \A s \in Slot : owner'[s] # p /\ holder'[s] # p
  BY <1>1, NoneAssumption DEF SlotsOwnedBy, SlotsHeldBy
<1>3. \A s \in Slot : /\ owner'[s] \in {owner[s], None}
                      /\ holder'[s] \in {holder[s], None}
  BY <1>1
<1> QED BY <1>1, <1>2, <1>3 DEF HoldersRegistered

\* Whoever writes is registered, so whoever owns or holds is.
LEMMA HoldersStep ==
  ASSUME TypeOK, TaskInv, SerialHello => SerialInv, HoldersRegistered, [Next]_vars
  PROVE  HoldersRegistered'
<1> SUFFICES ASSUME SerialHello, SerialInv PROVE HoldersRegistered'
  BY DEF HoldersRegistered
<1> USE DEF identityVars, placeVars, clockVars, worldVars, taskVars
<1>1. ASSUME NEW c \in Conn, NEW p \in Player, Create(c, p) PROVE HoldersRegistered'
  BY <1>1, HoldersUntouched DEF Create, Adopt
<1>2. ASSUME NEW c \in Conn, HelloAnonymous(c) \/ \E k \in Client : HelloNew(c, k)
      PROVE  HoldersRegistered'
  BY <1>1, <1>2 DEF HelloAnonymous, HelloNew
<1>3. ASSUME NEW c \in Conn, HelloAdopt(c) \/ \E k \in Client : HelloResume(c, k)
      PROVE  HoldersRegistered'
  BY <1>3, HoldersUntouched DEF HelloAdopt, HelloResume, Adopt
<1>4. ASSUME NEW c \in Conn, Break(c) \/ \E k \in Client : HelloTakeover(c, k)
      PROVE  HoldersRegistered'
  BY <1>4, HoldersUntouched DEF Break, HelloTakeover
<1>5. ASSUME NEW c \in Conn, Disconnect(c) PROVE HoldersRegistered'
  <2>1. UNCHANGED <<registered, owner, holder>>
    BY <1>5 DEF Disconnect
  <2> QED BY <2>1, HoldersUntouched
<1>6. ASSUME NEW p \in Player, EvictGhost(p) PROVE HoldersRegistered'
  BY <1>6, HoldersEvict
<1>7. ASSUME LoudAction PROVE HoldersRegistered'
  BY <1>2, <1>3, <1>4, <1>5, <1>6, <1>7 DEF LoudAction
<1>8. ASSUME NEW c \in Conn, \/ HelloFinish(c) \/ JoinRoomFinish(c) \/ TimeUnready(c)
                             \/ TimeReadyArrive(c)
                             \/ \E r \in Room : JoinRoom(c, r)
                             \/ \E z \in Zone : TimeReady(c, z)
      PROVE  HoldersRegistered'
  BY <1>8, HoldersUntouched
     DEF HelloFinish, JoinRoomFinish, TimeUnready, TimeReadyArrive, JoinRoom, TimeReady
<1>9. ASSUME NEW c \in Conn, NEW z \in Zone, TimeReadyLeave(c, z) PROVE HoldersRegistered'
  BY <1>9, HoldersRelease DEF TimeReadyLeave
<1>10. ASSUME NEW c \in Conn, NEW z \in Stamp, NEW k \in Key,
              ObjectClaim(c, z, k) \/ InteractionRequest(c, z, k)
       PROVE  HoldersRegistered'
  <2>1. who[c] \in registered
    BY <1>10, HandlersRegistered DEF ObjectClaim, InteractionRequest
  <2> QED BY <1>10, <2>1 DEF ObjectClaim, InteractionRequest, HoldersRegistered, TypeOK
<1>11. ASSUME NEW c \in Conn, NEW z \in Stamp, NEW k \in Key, ObjectRelease(c, z, k)
       PROVE  HoldersRegistered'
  BY <1>11 DEF ObjectRelease, HoldersRegistered, TypeOK
<1>12. ASSUME NEW c \in Conn, NEW z \in Stamp, NEW k \in Key, InteractionEnd(c, z, k)
       PROVE  HoldersRegistered'
  BY <1>12, HoldersRelease DEF InteractionEnd
<1>13. ASSUME NEW s \in Slot, ExpireInteraction(s) PROVE HoldersRegistered'
  BY <1>13, HoldersRelease DEF ExpireInteraction
<1>14. ASSUME NEW s \in Slot, CooldownOver(s) PROVE HoldersRegistered'
  BY <1>14, HoldersUntouched DEF CooldownOver
<1>15. ASSUME UNCHANGED vars PROVE HoldersRegistered'
  BY <1>15, HoldersUntouched DEF vars
<1>16. ASSUME QuietAction PROVE HoldersRegistered'
  BY <1>8, <1>9, <1>10, <1>11, <1>12, <1>13, <1>14, <1>15, <1>16 DEF QuietAction
<1> QED BY <1>7, <1>16, QuietOrLoud

-----------------------------------------------------------------------------
\* The theorems.

\* The initial state satisfies the inductive invariant.
LEMMA InitIInv == Init => IInv
<1> SUFFICES ASSUME Init PROVE IInv
  OBVIOUS
<1>1. TypeOK /\ TaskInv
  BY InitType
<1>2. ConnInv /\ IdentityInv /\ RoomInv /\ RostersAgree /\ HoldersRegistered
  BY DEF Init, ConnInv, IdentityInv, RoomInv, RostersAgree, HoldersRegistered
<1>3. SerialInv
  BY NoneAssumption DEF Init, SerialInv, Unfinished, Awaiting
<1> QED BY <1>1, <1>2, <1>3 DEF IInv

\* Every step keeps the inductive invariant.
LEMMA StepIInv == IInv /\ [Next]_vars => IInv'
<1> SUFFICES ASSUME IInv, [Next]_vars PROVE IInv'
  OBVIOUS
<1>1. TypeOK' /\ TaskInv'
  BY TypeStep DEF IInv
<1>2. ConnInv' /\ IdentityInv' /\ (SerialHello => SerialInv')
  BY ConnStep DEF IInv
<1>3. RoomInv' /\ RostersAgree'
  BY RosterStep DEF IInv
<1>4. HoldersRegistered'
  BY HoldersStep DEF IInv
<1> QED BY <1>1, <1>2, <1>3, <1>4 DEF IInv

\* Every connected player is on the roster of its room and of no other, after
\* any interleaving of moves, takeovers, disconnects and evictions.
THEOREM RostersAgreeCorrect == Spec => []RostersAgree
<1>1. IInv => RostersAgree
  BY DEF IInv
<1> QED BY InitIInv, StepIInv, <1>1, PTL DEF Spec

\* A client_id never means two players, a finished connection keeps nobody
\* alive, and a serial client has one open connection.
THEOREM OnePlayerOneConnectionCorrect == Spec => []OnePlayerOneConnection
<1>1. IInv => OnePlayerOneConnection
  BY DEF IInv, ConnInv, IdentityInv, SerialInv, OnePlayerOneConnection
<1> QED BY InitIInv, StepIInv, <1>1, PTL DEF Spec

\* No object and no interaction stays with an evicted player.
THEOREM HoldersRegisteredCorrect == Spec => []HoldersRegistered
<1>1. IInv => HoldersRegistered
  BY DEF IInv
<1> QED BY InitIInv, StepIInv, <1>1, PTL DEF Spec

-----------------------------------------------------------------------------
\* The refinement.

\* Ending interactions H of one player is a step of the protocol, or none.
LEMMA ReleaseFrees ==
  ASSUME TypeOK, NEW S, NEW p \in Player, NEW H \in SUBSET SlotsHeldBy(p), Release(S, H)
  PROVE  [Reservation!Next]_Reservation!vars
<1>1. H \in SUBSET Reservation!HeldBy(p)
  BY DEF SlotsHeldBy, Reservation!HeldBy
<1>2. CASE H = {}
  <2>1. holder' = holder /\ cooling' = cooling
    BY <1>2 DEF Release, TypeOK
  <2> QED BY <2>1 DEF Reservation!vars
<1>3. CASE H # {}
  <2>1. Reservation!Free(H)
    BY <1>3 DEF Release, Reservation!Free
  <2> QED BY <1>1, <2>1 DEF Reservation!Next
<1> QED BY <1>2, <1>3

\* Every step grants, frees or thaws, or leaves the reservations alone.
LEMMA ReservationStep ==
  ASSUME TypeOK, TaskInv, [Next]_vars
  PROVE  [Reservation!Next]_Reservation!vars
<1> DEFINE G == [Reservation!Next]_Reservation!vars
<1> USE DEF identityVars, placeVars, clockVars, worldVars, taskVars
<1>1. ASSUME UNCHANGED <<holder, cooling>> PROVE G
  BY <1>1 DEF Reservation!vars
<1>2. ASSUME NEW c \in Conn,
             \/ HelloAnonymous(c) \/ HelloAdopt(c) \/ HelloFinish(c)
             \/ \E k \in Client : HelloNew(c, k) \/ HelloResume(c, k) \/ HelloTakeover(c, k)
      PROVE  UNCHANGED <<holder, cooling>>
  BY <1>2 DEF HelloAnonymous, HelloAdopt, HelloFinish, HelloNew, HelloResume, HelloTakeover,
              Create, Adopt
<1>3. ASSUME NEW c \in Conn,
             \/ Break(c) \/ JoinRoomFinish(c) \/ TimeReadyArrive(c) \/ TimeUnready(c)
             \/ \E r \in Room : JoinRoom(c, r)
             \/ \E z \in Zone : TimeReady(c, z)
      PROVE  UNCHANGED <<holder, cooling>>
  BY <1>3 DEF Break, JoinRoomFinish, TimeReadyArrive, TimeUnready, JoinRoom, TimeReady
<1>4. ASSUME NEW c \in Conn, Disconnect(c) PROVE UNCHANGED <<holder, cooling>>
  BY <1>4 DEF Disconnect
<1>5. ASSUME NEW c \in Conn, NEW z \in Stamp, NEW k \in Key,
             ObjectClaim(c, z, k) \/ ObjectRelease(c, z, k)
      PROVE  UNCHANGED <<holder, cooling>>
  BY <1>5 DEF ObjectClaim, ObjectRelease
<1>6. ASSUME NEW p \in Player, EvictGhost(p) PROVE G
  BY <1>6, ReleaseFrees DEF EvictGhost
<1>7. ASSUME NEW c \in Conn, NEW z \in Zone, TimeReadyLeave(c, z) PROVE G
  <2>1. who[c] \in Player /\ LeftHeld(c) \in SUBSET SlotsHeldBy(who[c])
    BY <1>7 DEF TimeReadyLeave, Handling, LeftHeld, TypeOK
  <2> QED BY <1>7, <2>1, ReleaseFrees DEF TimeReadyLeave
<1>8. ASSUME NEW c \in Conn, NEW z \in Stamp, NEW k \in Key, InteractionRequest(c, z, k) PROVE G
  <2> DEFINE s == WriteSlot(connRoom[c], z, k)
  <2>1. s \in Slot /\ who[c] \in Player
    BY <1>8, SlotType DEF InteractionRequest, Handling, TypeOK
  <2>2. Reservation!Grant(s, who[c])
    BY <1>8 DEF InteractionRequest, Reservation!Grant
  <2> HIDE DEF s
  <2> QED BY <2>1, <2>2 DEF Reservation!Next
<1>9. ASSUME NEW c \in Conn, NEW z \in Stamp, NEW k \in Key, InteractionEnd(c, z, k) PROVE G
  <2> DEFINE s == WriteSlot(connRoom[c], z, k)
  <2>1. s \in Slot /\ who[c] \in Player
    BY <1>9, SlotType DEF InteractionEnd, Handling, TypeOK
  <2>2. holder[s] = who[c] /\ Release({}, {s})
    BY <1>9 DEF InteractionEnd
  <2> HIDE DEF s
  <2>3. {s} \in SUBSET SlotsHeldBy(who[c])
    BY <2>1, <2>2 DEF SlotsHeldBy
  <2> QED BY <2>1, <2>2, <2>3, ReleaseFrees
<1>10. ASSUME NEW s \in Slot, ExpireInteraction(s) PROVE G
  <2>1. holder[s] \in Player /\ {s} \in SUBSET SlotsHeldBy(holder[s])
    BY <1>10 DEF ExpireInteraction, SlotsHeldBy, TypeOK
  <2> QED BY <1>10, <2>1, ReleaseFrees DEF ExpireInteraction
<1>11. ASSUME NEW s \in Slot, CooldownOver(s) PROVE G
  BY <1>11 DEF CooldownOver, Reservation!Thaw, Reservation!Next
<1>12. ASSUME UNCHANGED vars PROVE UNCHANGED <<holder, cooling>>
  BY <1>12 DEF vars
<1> HIDE DEF G
<1>13. ASSUME LoudAction PROVE G
  BY <1>1, <1>2, <1>3, <1>4, <1>6, <1>13 DEF LoudAction
<1>14. ASSUME QuietAction PROVE G
  BY <1>1, <1>2, <1>3, <1>5, <1>7, <1>8, <1>9, <1>10, <1>11, <1>12, <1>14 DEF QuietAction
<1>15. G
  BY <1>13, <1>14, QuietOrLoud
<1> QED BY <1>15 DEF G

\* Requests, ends, travel, watchdog and eviction together implement the
\* reservation protocol.
THEOREM ReservesKeysCorrect == Spec => ReservesKeys
<1>1. Init => Reservation!Init
  BY DEF Init, Reservation!Init
<1>2. TypeOK /\ TaskInv /\ [Next]_vars => [Reservation!Next]_Reservation!vars
  BY ReservationStep
<1> QED BY <1>1, <1>2, InitType, TypeStep, PTL DEF Spec, ReservesKeys, Reservation!Spec

\* What the reservation protocol guarantees.
ReservationInv == Reservation!TypeOK /\ Reservation!HeldIsWarm

\* A grant needs a cool key, and what is freed is not held.
LEMMA ReservationKeeps ==
  ReservationInv /\ [Reservation!Next]_Reservation!vars => ReservationInv'
<1> SUFFICES ASSUME ReservationInv, [Reservation!Next]_Reservation!vars PROVE ReservationInv'
  OBVIOUS
<1> USE DEF ReservationInv, Reservation!TypeOK, Reservation!HeldIsWarm
<1>1. ASSUME NEW s \in Slot, NEW p \in Player, Reservation!Grant(s, p) PROVE ReservationInv'
  BY <1>1 DEF Reservation!Grant
<1>2. ASSUME NEW p \in Player, NEW S \in SUBSET Reservation!HeldBy(p), Reservation!Free(S)
      PROVE  ReservationInv'
  BY <1>2 DEF Reservation!Free, Reservation!HeldBy
<1>3. ASSUME NEW s \in Slot, Reservation!Thaw(s) PROVE ReservationInv'
  BY <1>3 DEF Reservation!Thaw
<1>4. CASE UNCHANGED Reservation!vars
  BY <1>4 DEF Reservation!vars
<1> QED BY <1>1, <1>2, <1>3, <1>4 DEF Reservation!Next

\* A key in use is never inside the cooldown of an earlier use
\* (Session.request_interaction refuses it).
THEOREM HeldIsWarmCorrect == Reservation!Spec => []Reservation!HeldIsWarm
<1>1. Reservation!Init => ReservationInv
  BY DEF Reservation!Init, ReservationInv, Reservation!TypeOK, Reservation!HeldIsWarm
<1>2. ReservationInv => Reservation!HeldIsWarm
  BY DEF ReservationInv
<1> QED BY <1>1, <1>2, ReservationKeeps, PTL DEF Reservation!Spec

-----------------------------------------------------------------------------
\* Ghosts.

\* Somebody else's holdings do not move when player q gives up the objects S.
LEMMA OthersKeep ==
  ASSUME TypeOK, NEW p \in Player, NEW q, p # q, NEW S, NEW H,
         \A s \in S : owner[s] = q, Release(S, H)
  PROVE  \A s \in Slot : owner'[s] = p <=> owner[s] = p
  BY NoneAssumption DEF Release, TypeOK

\* A connection that handles a frame of p, before and after the step.
LEMMA HandlerIsNoGhost ==
  ASSUME NEW c \in Conn, NEW p \in Player, Ghost(p) \/ Ghost(p)', Handling(c),
         who' = who, pc'[c] # "done"
  PROVE  p # who[c]
  BY DEF Ghost, Unfinished, Handling

\* Becoming a ghost, staying one and coming back changes no ownership.
THEOREM GhostKeepsObjectsCorrect == Spec => GhostKeepsObjects
<1> DEFINE Keep(p) == \A s \in Slot : owner'[s] = p <=> owner[s] = p
           Goal == \A p \in Player : (p \in registered' /\ (Ghost(p) \/ Ghost(p)')) => Keep(p)
<1>1. ASSUME TypeOK, TaskInv, [Next]_vars, NEW p \in Player,
             p \in registered', Ghost(p) \/ Ghost(p)'
      PROVE  Keep(p)
  <2> USE DEF identityVars, placeVars, clockVars, worldVars, taskVars
  <2>1. ASSUME owner' = owner PROVE Keep(p)
    BY <2>1
  <2>2. ASSUME NEW c \in Conn,
               \/ HelloAnonymous(c) \/ HelloAdopt(c) \/ HelloFinish(c)
               \/ \E k \in Client : HelloNew(c, k) \/ HelloResume(c, k) \/ HelloTakeover(c, k)
        PROVE  owner' = owner
    BY <2>2 DEF HelloAnonymous, HelloAdopt, HelloFinish, HelloNew, HelloResume, HelloTakeover,
                Create, Adopt
  <2>3. ASSUME NEW c \in Conn,
               \/ Break(c) \/ JoinRoomFinish(c) \/ TimeReadyArrive(c) \/ TimeUnready(c)
               \/ \E r \in Room : JoinRoom(c, r)
               \/ \E z \in Zone : TimeReady(c, z)
        PROVE  owner' = owner
    BY <2>3 DEF Break, JoinRoomFinish, TimeReadyArrive, TimeUnready, JoinRoom, TimeReady
  <2>4. ASSUME NEW c \in Conn, Disconnect(c) PROVE owner' = owner
    BY <2>4 DEF Disconnect
  <2>5. ASSUME NEW q \in Player, EvictGhost(q) PROVE Keep(p)
    <3>1. p # q
      BY <1>1, <2>5 DEF EvictGhost
    <3> QED BY <1>1, <2>5, <3>1, OthersKeep DEF EvictGhost, SlotsOwnedBy
  <2>6. ASSUME NEW c \in Conn, NEW z \in Zone, TimeReadyLeave(c, z) PROVE Keep(p)
    <3>1. Handling(c) /\ who' = who /\ pc'[c] # "done"
      BY <1>1, <2>6 DEF TimeReadyLeave, TypeOK
    <3>2. p # who[c]
      BY <1>1, <3>1, HandlerIsNoGhost
    <3>3. \A s \in LeftOwned(c) : owner[s] = who[c]
      BY DEF LeftOwned, SlotsOwnedBy
    <3> QED BY <1>1, <2>6, <3>2, <3>3, OthersKeep DEF TimeReadyLeave
  <2>7. ASSUME NEW c \in Conn, NEW z \in Stamp, NEW k \in Key,
               ObjectClaim(c, z, k) \/ ObjectRelease(c, z, k)
        PROVE  Keep(p)
    <3>1. Handling(c) /\ who' = who /\ pc'[c] # "done"
      BY <1>1, <2>7 DEF ObjectClaim, ObjectRelease, Handling
    <3>2. p # who[c]
      BY <1>1, <3>1, HandlerIsNoGhost
    <3> QED BY <1>1, <2>7, <3>2, NoneAssumption DEF ObjectClaim, ObjectRelease, TypeOK
  <2>8. ASSUME NEW c \in Conn, NEW z \in Stamp, NEW k \in Key,
               InteractionRequest(c, z, k)
        PROVE  owner' = owner
    BY <2>8 DEF InteractionRequest
  <2>9. ASSUME NEW S, Release({}, S) PROVE owner' = owner
    BY <1>1, <2>9 DEF Release, TypeOK
  <2>10. ASSUME NEW c \in Conn, NEW z \in Stamp, NEW k \in Key, InteractionEnd(c, z, k)
         PROVE  owner' = owner
    BY <2>9, <2>10 DEF InteractionEnd
  <2>11. ASSUME NEW s \in Slot, ExpireInteraction(s) \/ CooldownOver(s) PROVE owner' = owner
    BY <2>9, <2>11 DEF ExpireInteraction, CooldownOver
  <2>12. ASSUME UNCHANGED vars PROVE owner' = owner
    BY <2>12 DEF vars
  <2> HIDE DEF Keep
  <2>13. ASSUME LoudAction PROVE Keep(p)
    BY <2>1, <2>2, <2>3, <2>4, <2>5, <2>13 DEF LoudAction
  <2>14. ASSUME QuietAction PROVE Keep(p)
    BY <2>1, <2>2, <2>3, <2>6, <2>7, <2>8, <2>10, <2>11, <2>12, <2>14 DEF QuietAction
  <2> QED BY <1>1, <2>13, <2>14, QuietOrLoud
<1>2. TypeOK /\ TaskInv /\ [Next]_vars => [Goal]_vars
  BY <1>1
<1> QED BY <1>2, InitType, TypeStep, PTL DEF Spec, GhostKeepsObjects
=============================================================================
