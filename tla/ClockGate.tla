----------------------------- MODULE ClockGate -----------------------------
(***************************************************************************)
(* The clock gate of a room: the server counts who is ready and announces  *)
(* the room's speed, 0 while the gate is closed; a client reports ready    *)
(* when its zone runs and unready when it leaves it.  Handlers suspend at  *)
(* broadcasts, connections drop and are replaced, players move and travel. *)
(*                                                                         *)
(* A player is a client identity: the server's record of it may be gone    *)
(* and made anew.                                                          *)
(***************************************************************************)
EXTENDS Players, Integers, FiniteSets, Sequences

CONSTANTS Room, Zone,
          DefaultRoom,   \* where a new player starts
          MinPlayers,    \* connected players an open gate needs
          MaxFrames,     \* bound: frames a client has in flight
          MaxTrouble     \* bound: commands typed, zones left and sockets broken

ASSUME GateConstants ==
  /\ DefaultRoom \in Room
  /\ None \notin Room \cup Zone
  /\ MinPlayers \in Nat \ {0}
  /\ MaxFrames \in Nat
  /\ MaxTrouble \in Nat

VARIABLES
  \* the server's session
  seat,        \* "none", "live" (has a connection), "ghost"
  room,        \* Player.room_id
  ready,       \* Player.clock_ready
  zone,        \* Player.clock_zone
  desired,     \* Room.clock["desired"]: 0 paused, 1 running
  \* the server's tasks
  task,        \* where the handler of the player's connection is suspended
  late,        \* the same for a connection that was taken over
  \* the clients
  link,        \* "down", "up"
  greeted,     \* the server has seen the HELLO of this connection
  wire,        \* frames on the way to the server
  welcome,     \* a WELCOME the game thread has not drained
  game,        \* the zone that runs, None outside one
  sent,        \* time_ready_sent
  unsent,      \* time_unready_sent
  readyZone,   \* zone_ready_id
  heard,       \* the last TIME_SYNC sent to the player, None at first
  trouble,     \* commands typed, zones left and sockets broken so far
  \* history
  skipped,     \* rooms whose gate changed in a handler that died before its sync
  forgotten,   \* players whose readiness was cleared unknown to them
  vouched,     \* players that reported ready without being able to take it back
  revived      \* players marked ready by a handler that outlived its connection

session == <<seat, room, ready, zone, desired>>
client == <<game, sent, unsent, readyZone>>
net == <<link, greeted, wire, welcome>>
history == <<forgotten, vouched, revived>>
vars == <<session, task, late, client, net, heard, trouble, skipped, history>>

Idle == [kind |-> "idle", from |-> None, to |-> None, zone |-> None]

Task(kind, from, to, z) == [kind |-> kind, from |-> from, to |-> to, zone |-> z]

Tasks ==
  [kind : {"idle", "hello", "join", "travel", "leave"}, from : Room \cup {None},
   to : Room \cup {None}, zone : Zone \cup {None}]

Frames ==
  [type : {"TIME_READY"}, arg : Zone] \cup [type : {"JOIN_ROOM"}, arg : Room]
    \cup [type : {"TIME_SPEED"}, arg : {0, 1}] \cup [type : {"TIME_UNREADY"}, arg : {0}]

Frame(type, arg) == [type |-> type, arg |-> arg]

-----------------------------------------------------------------------------
\* What the server announces.

Participants(st, rm, r) == {p \in Player : st[p] # "none" /\ rm[p] = r}

Connected(st, rm, r) == {p \in Participants(st, rm, r) : st[p] = "live"}

\* Mutant of Opens: one player more than min_players.
OpensAbove(st, rm, rd, r) ==
  /\ Cardinality(Connected(st, rm, r)) > MinPlayers
  /\ \A p \in Participants(st, rm, r) : rd[p]

\* clock_gate_open
Opens(st, rm, rd, r) ==
  /\ Participants(st, rm, r) # {}
  /\ Cardinality(Connected(st, rm, r)) >= MinPlayers
  /\ \A p \in Participants(st, rm, r) : rd[p]

\* clock_snapshot
Snapshot(st, rm, rd, ds, r) ==
  [gate |-> ~Opens(st, rm, rd, r),
   speed |-> IF Opens(st, rm, rd, r) THEN ds[r] ELSE 0]

\* sync_clock of the rooms R, on the state the step leaves behind.
Announce(R) ==
  heard' = [p \in Player |->
    IF seat'[p] = "live" /\ room'[p] \in R
      THEN Snapshot(seat', room', ready', desired', room'[p])
      ELSE heard[p]]

Sync(R) == Announce(R) /\ skipped' = skipped \ R

NoSync == UNCHANGED <<heard, skipped>>

-----------------------------------------------------------------------------
Init ==
  /\ seat = [p \in Player |-> "none"]
  /\ room = [p \in Player |-> None]
  /\ ready = [p \in Player |-> FALSE]
  /\ zone = [p \in Player |-> None]
  /\ desired = [r \in Room |-> 1]
  /\ task = [p \in Player |-> Idle]
  /\ late = [p \in Player |-> Idle]
  /\ link = [p \in Player |-> "down"]
  /\ greeted = [p \in Player |-> FALSE]
  /\ wire = [p \in Player |-> <<>>]
  /\ welcome = [p \in Player |-> FALSE]
  /\ game = [p \in Player |-> None]
  /\ sent = [p \in Player |-> FALSE]
  /\ unsent = [p \in Player |-> FALSE]
  /\ readyZone = [p \in Player |-> None]
  /\ heard = [p \in Player |-> None]
  /\ trouble = 0
  /\ skipped = {}
  /\ forgotten = {}
  /\ vouched = {}
  /\ revived = {}

-----------------------------------------------------------------------------
Trouble ==
  /\ trouble < MaxTrouble
  /\ trouble' = trouble + 1

\* The client.  Its game thread is one process: a tick drains the inbox and
\* then reconciles, the zone changes between ticks.

CanSend(p) == Len(wire[p]) < MaxFrames

SendFrame(p, type, arg) ==
  /\ CanSend(p)
  /\ wire' = [wire EXCEPT ![p] = Append(@, Frame(type, arg))]

\* time_ready_sent and zone_ready_id once the tick has drained the inbox.
StillSent(p) == sent[p] /\ ~welcome[p]

StillReadyZone(p) == IF welcome[p] THEN None ELSE readyZone[p]

\* The game loads a zone, or leaves the one it plays, straight to another
\* one or not.
PlayZone(p, z) ==
  /\ game[p] # z
  /\ game' = [game EXCEPT ![p] = z]
  /\ IF game[p] = None THEN UNCHANGED trouble ELSE Trouble
  /\ UNCHANGED <<session, task, late, sent, unsent, readyZone, net, heard, skipped, history>>

Drain(p) == welcome' = [welcome EXCEPT ![p] = FALSE]

\* A tick with nothing to report.
TickQuiet(p) ==
  /\ welcome[p]
  /\ \/ link[p] = "down"
     \/ game[p] = None /\ ~(StillSent(p) /\ ~unsent[p])
  /\ Drain(p)
  /\ sent' = [sent EXCEPT ![p] = FALSE]
  /\ readyZone' = [readyZone EXCEPT ![p] = None]
  /\ vouched' = IF sent[p] /\ link[p] = "up" THEN vouched \cup {p} ELSE vouched
  /\ UNCHANGED <<session, task, late, game, unsent, link, greeted, wire, heard, trouble,
                 skipped, forgotten,
                 revived>>

\* Outside a playable zone: TIME_UNREADY, once.
TickAway(p) ==
  /\ link[p] = "up"
  /\ game[p] = None
  /\ StillSent(p) /\ ~unsent[p]
  /\ SendFrame(p, "TIME_UNREADY", 0)
  /\ unsent' = [unsent EXCEPT ![p] = TRUE]
  /\ sent' = [sent EXCEPT ![p] = FALSE]
  /\ UNCHANGED <<session, task, late, game, readyZone, link, greeted, welcome, heard, trouble,
                 skipped, history>>

\* In a running zone: TIME_READY the first time, after a WELCOME and for a new zone.
TickPlaying(p) ==
  /\ link[p] = "up"
  /\ game[p] # None
  /\ ~StillSent(p) \/ StillReadyZone(p) # game[p]
  /\ Drain(p)
  /\ SendFrame(p, "TIME_READY", game[p])
  /\ unsent' = [unsent EXCEPT ![p] = FALSE]
  /\ sent' = [sent EXCEPT ![p] = TRUE]
  /\ readyZone' = [readyZone EXCEPT ![p] = game[p]]
  /\ vouched' = vouched \ {p}
  /\ UNCHANGED <<session, task, late, game, link, greeted, heard, trouble, skipped, forgotten,
                 revived>>

\* The rest of a tick in a running zone: it can leave again.
TickSettled(p) ==
  /\ link[p] = "up"
  /\ game[p] # None
  /\ StillSent(p) /\ StillReadyZone(p) = game[p]
  /\ unsent[p]
  /\ unsent' = [unsent EXCEPT ![p] = FALSE]
  /\ vouched' = vouched \ {p}
  /\ UNCHANGED <<session, task, late, game, sent, readyZone, net, heard, trouble, skipped,
                 forgotten, revived>>

\* What a user types: mp.ready (in whatever zone the game has, running or
\* not), mp.join and a speed.
Command(p) == link[p] = "up" /\ Trouble

MarkReady(p, z) ==
  /\ Command(p)
  /\ ~sent[p]
  /\ game[p] \in {None, z}
  /\ SendFrame(p, "TIME_READY", z)
  /\ sent' = [sent EXCEPT ![p] = TRUE]
  /\ vouched' = IF game[p] = None \/ unsent[p] \/ welcome[p] THEN vouched \cup {p} ELSE vouched
  /\ UNCHANGED <<session, task, late, game, unsent, readyZone, link, greeted, welcome, heard,
                 skipped, forgotten,
                 revived>>

TypeJoin(p, r) ==
  /\ Command(p)
  /\ SendFrame(p, "JOIN_ROOM", r)
  /\ UNCHANGED <<session, task, late, client, link, greeted, welcome, heard, skipped, history>>

ChangeSpeed(p, s) ==
  /\ Command(p)
  /\ SendFrame(p, "TIME_SPEED", s)
  /\ UNCHANGED <<session, task, late, client, link, greeted, welcome, heard, skipped, history>>

-----------------------------------------------------------------------------
\* Connections.

\* The socket opens; what the old one still carried is lost with it.
Connect(p) ==
  /\ link[p] = "down"
  /\ link' = [link EXCEPT ![p] = "up"]
  /\ greeted' = [greeted EXCEPT ![p] = FALSE]
  /\ wire' = [wire EXCEPT ![p] = <<>>]
  /\ UNCHANGED <<session, task, late, client, welcome, heard, trouble, skipped, history>>

\* The socket breaks: the last frames and an unread WELCOME may be lost.
Drop(p) ==
  /\ link[p] = "up" /\ Trouble
  /\ link' = [link EXCEPT ![p] = "down"]
  /\ \E n \in 0..Len(wire[p]) : wire' = [wire EXCEPT ![p] = SubSeq(@, 1, n)]
  /\ \/ UNCHANGED welcome
     \/ welcome' = [welcome EXCEPT ![p] = FALSE]
  /\ UNCHANGED <<session, task, late, client, greeted, heard, skipped, history>>

Busy(p) == task[p] # Idle

\* HELLO up to its first broadcast.  A record that is still live is taken
\* over, a handler of its old connection may still be suspended.
Hello(p) ==
  /\ link[p] = "up" /\ ~greeted[p]
  /\ late[p] = Idle
  /\ LET r == IF seat[p] = "none" THEN DefaultRoom ELSE room[p]
     IN  /\ room' = [room EXCEPT ![p] = r]
         /\ task' = [task EXCEPT ![p] = Task("hello", None, r, None)]
  /\ seat' = [seat EXCEPT ![p] = "live"]
  /\ late' = [late EXCEPT ![p] = task[p]]
  /\ greeted' = [greeted EXCEPT ![p] = TRUE]
  /\ welcome' = [welcome EXCEPT ![p] = TRUE]
  /\ NoSync
  /\ UNCHANGED <<ready, zone, desired, client, link, wire, trouble, history>>

\* Mutant of ClearHello: a resumed player keeps its readiness.
ClearHelloKeeping(p, r) ==
  /\ zone' = [zone EXCEPT ![p] = None]
  /\ UNCHANGED <<seat, room, ready, desired>>
  /\ Announce({r})

\* Its end: not ready, whatever was reported before.
ClearHello(p, r) ==
  /\ ready' = [ready EXCEPT ![p] = FALSE]
  /\ zone' = [zone EXCEPT ![p] = None]
  /\ UNCHANGED <<seat, room, desired>>
  /\ Announce({r})

HelloFinish(p) ==
  /\ task[p].kind = "hello"
  /\ ClearHello(p, task[p].to)
  /\ task' = [task EXCEPT ![p] = Idle]
  /\ forgotten' = forgotten \ {p}
  /\ skipped' = skipped \ {task[p].to}
  /\ revived' = revived \ {p}
  /\ UNCHANGED <<late, client, net, trouble, vouched>>

\* The connection of a live player ends with its socket, or with the HELLO
\* that is about to take the player over.
Gone(p) == IF link[p] = "down" THEN wire[p] = <<>> ELSE ~greeted[p]

LosesReady(p) == [ready EXCEPT ![p] = FALSE]

Disconnect(p) ==
  /\ seat[p] = "live" /\ ~Busy(p) /\ Gone(p)
  /\ seat' = [seat EXCEPT ![p] = "ghost"]
  /\ ready' = LosesReady(p)
  /\ task' = [task EXCEPT ![p] = Task("leave", None, room[p], None)]
  /\ NoSync
  /\ UNCHANGED <<room, zone, desired, late, client, net, trouble, history>>

\* The clock is announced after PLAYER_LEFT.
DisconnectFinish(p) ==
  /\ task[p].kind = "leave"
  /\ task' = [task EXCEPT ![p] = Idle]
  /\ UNCHANGED session
  /\ Sync({task[p].to})
  /\ UNCHANGED <<late, client, net, trouble, history>>

\* The reaper evicts a ghost, its record with it, and announces every room.
\* Ghosts live longer than any handler of theirs.
EvictGhost(p) ==
  /\ seat[p] = "ghost" /\ ~Busy(p) /\ late[p] = Idle
  /\ seat' = [seat EXCEPT ![p] = "none"]
  /\ room' = [room EXCEPT ![p] = None]
  /\ ready' = LosesReady(p)
  /\ zone' = [zone EXCEPT ![p] = None]
  /\ UNCHANGED desired
  /\ Sync(Room)
  /\ UNCHANGED <<task, late, client, net, trouble, history>>

-----------------------------------------------------------------------------
\* Frames of a registered player, one at a time.

Receive(p, type) ==
  /\ seat[p] = "live" /\ greeted[p] /\ ~Busy(p)
  /\ wire[p] # <<>>
  /\ Head(wire[p]).type = type
  /\ wire' = [wire EXCEPT ![p] = Tail(@)]
  /\ UNCHANGED <<link, greeted, welcome>>

\* Mutant of Arg: the frame instead of its payload.
ArgWhole(p) == Head(wire[p])

Arg(p) == Head(wire[p]).arg

Others(p) == {q \in Player : seat[q] # "none" /\ room[q] = room[p]} \ {p}

\* A TIME_READY for another zone than before, from a player that counted as ready.
Flips(p, z) == zone[p] # None /\ zone[p] # z /\ ready[p]

\* Mutant of Arrive: marks the player ready first, then clears the room.
ArriveClearingAll(p, z, flips) ==
  /\ ready' = [q \in Player |-> (q = p \/ ready[q]) /\ ~(flips /\ q \in Others(p) \cup {p})]
  /\ zone' = [zone EXCEPT ![p] = z]
  /\ forgotten' = (forgotten \ {p}) \cup
       (IF flips THEN {q \in Others(p) : ready[q]} ELSE {})
  /\ UNCHANGED <<seat, room, desired>>

\* clear_room_clock_ready, if it flips, then set_clock_ready.
Arrive(p, z, flips) ==
  /\ ready' = [q \in Player |-> q = p \/ (ready[q] /\ ~(flips /\ q \in Others(p)))]
  /\ zone' = [zone EXCEPT ![p] = z]
  /\ forgotten' = (forgotten \ {p}) \cup
       (IF flips THEN {q \in Others(p) : ready[q]} ELSE {})
  /\ UNCHANGED <<seat, room, desired>>

TimeReady(p) ==
  /\ Receive(p, "TIME_READY")
  /\ Arrive(p, Arg(p), Flips(p, Arg(p)))
  /\ Sync({room[p]})
  /\ UNCHANGED <<task, late, client, trouble, vouched, revived>>

\* The same, with objects of the old zone to release: the handler suspends first.
TimeReadyLeave(p) ==
  /\ Receive(p, "TIME_READY")
  /\ Flips(p, Arg(p))
  /\ task' = [task EXCEPT ![p] = Task("travel", None, None, Arg(p))]
  /\ NoSync
  /\ UNCHANGED <<session, late, client, trouble, history>>

TimeReadyArrive(p) ==
  /\ task[p].kind = "travel"
  /\ task' = [task EXCEPT ![p] = Idle]
  /\ Arrive(p, task[p].zone, TRUE)
  /\ Sync({room[p]})
  /\ UNCHANGED <<late, client, net, trouble, vouched, revived>>

TimeUnready(p) ==
  /\ Receive(p, "TIME_UNREADY")
  /\ ready' = [ready EXCEPT ![p] = FALSE]
  /\ UNCHANGED <<seat, room, zone, desired>>
  /\ Sync({room[p]})
  /\ UNCHANGED <<task, late, client, trouble, history>>

TimeSpeed(p) ==
  /\ Receive(p, "TIME_SPEED")
  /\ desired' = [desired EXCEPT ![room[p]] = Arg(p)]
  /\ UNCHANGED <<seat, room, ready, zone>>
  /\ Sync({room[p]})
  /\ UNCHANGED <<task, late, client, trouble, history>>

\* JOIN_ROOM moves at once and clears the readiness after its broadcasts.
JoinRoom(p) ==
  /\ Receive(p, "JOIN_ROOM")
  /\ room' = [room EXCEPT ![p] = Arg(p)]
  /\ task' = [task EXCEPT ![p] = Task("join", room[p], Arg(p), None)]
  /\ NoSync
  /\ UNCHANGED <<seat, ready, zone, desired, late, client, trouble, history>>

\* Mutant of ClearJoin: announces the new room only.
ClearJoinThere(p, from, to) ==
  /\ ready' = [ready EXCEPT ![p] = FALSE]
  /\ UNCHANGED <<seat, room, zone, desired>>
  /\ Announce({to})

ClearJoin(p, from, to) ==
  /\ ready' = [ready EXCEPT ![p] = FALSE]
  /\ UNCHANGED <<seat, room, zone, desired>>
  /\ Announce({from, to})

JoinRoomFinish(p) ==
  /\ task[p].kind = "join"
  /\ ClearJoin(p, task[p].from, task[p].to)
  /\ task' = [task EXCEPT ![p] = Idle]
  /\ forgotten' = forgotten \cup {p}
  /\ skipped' = skipped \ {task[p].from, task[p].to}
  /\ UNCHANGED <<late, client, net, trouble, vouched, revived>>

\* A direct reply of JOIN_ROOM fails: the handler ends there, the room it
\* left is never announced.
JoinRoomDies(p) ==
  /\ link[p] = "down"
  /\ Receive(p, "JOIN_ROOM")
  /\ seat' = [seat EXCEPT ![p] = "ghost"]
  /\ room' = [room EXCEPT ![p] = Arg(p)]
  /\ ready' = LosesReady(p)
  /\ task' = [task EXCEPT ![p] = Task("leave", None, Arg(p), None)]
  /\ skipped' = skipped \cup ({room[p]} \ {Arg(p)})
  /\ UNCHANGED <<zone, desired, late, client, heard, trouble, history>>

\* Handlers of a connection that was taken over end too, and write to the
\* player's record, wherever it is by now; a TIME_READY dies at its first
\* reply, before its sync.
LateFinish(p) ==
  LET t == late[p]
      told == {t.from, t.to} \ {None}
  IN  /\ t # Idle
      /\ late' = [late EXCEPT ![p] = Idle]
      /\ \/ /\ t.kind \in {"hello", "join"}
            /\ IF t.kind = "hello" THEN ClearHello(p, t.to) ELSE ClearJoin(p, t.from, t.to)
            /\ forgotten' = forgotten \cup {p}
            /\ UNCHANGED <<vouched, revived>>
         \/ /\ t.kind = "leave"
            /\ UNCHANGED <<session, history>>
            /\ Announce(told)
         \/ /\ t.kind = "travel"
            /\ Arrive(p, t.zone, TRUE)
            /\ revived' = revived \cup {p}
            /\ UNCHANGED <<heard, vouched>>
      /\ skipped' = (skipped \ told) \cup
           (IF t.kind = "leave" THEN {} ELSE {room[p]} \ told)
      /\ UNCHANGED <<task, client, net, trouble>>

-----------------------------------------------------------------------------
ClientNext(p) ==
  \/ \E z \in Zone \cup {None} : PlayZone(p, z)
  \/ TickQuiet(p) \/ TickAway(p) \/ TickPlaying(p) \/ TickSettled(p)
  \/ \E z \in Zone : MarkReady(p, z)
  \/ \E r \in Room : TypeJoin(p, r)
  \/ \E s \in {0, 1} : ChangeSpeed(p, s)
  \/ Connect(p) \/ Drop(p)

ServerNext(p) ==
  \/ Hello(p) \/ HelloFinish(p)
  \/ Disconnect(p) \/ DisconnectFinish(p) \/ EvictGhost(p)
  \/ TimeReady(p) \/ TimeReadyLeave(p) \/ TimeReadyArrive(p)
  \/ TimeUnready(p) \/ TimeSpeed(p)
  \/ JoinRoom(p) \/ JoinRoomFinish(p) \/ JoinRoomDies(p)
  \/ LateFinish(p)

Next == \E p \in Player : ClientNext(p) \/ ServerNext(p)

Spec == Init /\ [][Next]_vars

\* Ticks recur and the loop runs every task; eviction needs a ghost that stays.
Tick(p) == TickQuiet(p) \/ TickAway(p) \/ TickPlaying(p) \/ TickSettled(p)

FairSpec == Spec /\ WF_vars(\E p \in Player : Tick(p) \/ ServerNext(p))

-----------------------------------------------------------------------------
\* Types.
TypeOK ==
  /\ seat \in [Player -> {"none", "live", "ghost"}]
  /\ room \in [Player -> Room \cup {None}]
  /\ ready \in [Player -> BOOLEAN]
  /\ zone \in [Player -> Zone \cup {None}]
  /\ desired \in [Room -> {0, 1}]
  /\ task \in [Player -> Tasks]
  /\ late \in [Player -> Tasks]
  /\ link \in [Player -> {"down", "up"}]
  /\ greeted \in [Player -> BOOLEAN]
  /\ wire \in [Player -> Seq(Frames)]
  /\ welcome \in [Player -> BOOLEAN]
  /\ game \in [Player -> Zone \cup {None}]
  /\ sent \in [Player -> BOOLEAN]
  /\ unsent \in [Player -> BOOLEAN]
  /\ readyZone \in [Player -> Zone \cup {None}]
  /\ heard \in [Player -> [gate : BOOLEAN, speed : {0, 1}] \cup {None}]
  /\ trouble \in Nat
  /\ skipped \subseteq Room
  /\ forgotten \subseteq Player
  /\ vouched \subseteq Player
  /\ revived \subseteq Player

\* Handlers that still have to announce room r.
WillSync(r) ==
  \E p \in Player : \E t \in {task[p], late[p]} :
    t.kind \in {"hello", "join", "leave"} /\ r \in {t.from, t.to}

\* The server's last TIME_SYNC to a player tells the room's gate and speed as
\* they are, unless a suspended handler is about to tell: every path that
\* changes readiness, seats, rooms or the speed ends in a sync_clock.
AnnouncedIsCurrent ==
  \A p \in Player :
    seat[p] = "live" /\ ~WillSync(room[p]) /\ room[p] \notin skipped
      => heard[p] = Snapshot(seat, room, ready, desired, room[p])

\* A connected player that counts as ready is in a running zone, or its
\* client is going to say otherwise; vouched lists the exceptions.
NobodyPlaysAhead ==
  \A p \in Player :
    /\ seat[p] = "live" /\ greeted[p] /\ link[p] = "up" /\ task[p].kind # "hello"
    /\ ready[p] /\ p \notin vouched \cup revived
    => \/ game[p] # None
       \/ sent[p] /\ ~unsent[p]
       \/ \E i \in DOMAIN wire[p] : wire[p][i].type = "TIME_UNREADY"

\* A client that reported ready and hears nothing of its readiness being
\* cleared is counted ready once its frames are handled.
ReportsCount ==
  \A p \in Player :
    /\ greeted[p] /\ link[p] = "up" /\ ~welcome[p] /\ wire[p] = <<>>
    /\ seat[p] = "live" /\ task[p] = Idle /\ late[p] = Idle
    /\ sent[p] /\ p \notin forgotten
    => ready[p]

\* A ghost counts as ready only on the word of a handler that outlived its connection.
GhostsNotReady == \A p \in Player : seat[p] = "ghost" /\ ready[p] => p \in revived

AllPlaying == \A p \in Player : link[p] = "up" /\ game[p] # None

AllHearOpen == \A p \in Player : heard[p] # None /\ ~heard[p].gate

\* Once everybody plays, nobody's readiness is cleared unknown to it and the
\* rooms are full enough, everybody hears that the gate is open.
GateOpens ==
  <>[](AllPlaying /\ forgotten = {} /\ skipped = {}
        /\ \A p \in Player : Cardinality(Connected(seat, room, room[p])) >= MinPlayers)
    => []<>AllHearOpen
=============================================================================
