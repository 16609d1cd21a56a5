-------------------------- MODULE ClockGate_proofs --------------------------
(***************************************************************************)
(* The invariants of ClockGate for any players, rooms and zones.           *)
(***************************************************************************)
EXTENDS ClockGate, TLAPS

\* What a task names, by its kind.
Shaped(t) ==
  /\ t.kind = "idle" => t = Idle
  /\ t.kind \in {"hello", "leave"} => t.from = None /\ t.to \in Room
  /\ t.kind = "join" => t.from \in Room /\ t.to \in Room
  /\ t.kind = "travel" => t.from = None /\ t.to = None /\ t.zone \in Zone

\* A seat is in a room, a handler belongs to a connected player and one that
\* announces the player's room has it right, a disconnect's to a ghost.
TaskInv ==
  \A p \in Player :
    /\ seat[p] # "none" => room[p] \in Room
    /\ late[p] # Idle => seat[p] # "none"
    /\ task[p].kind \in {"hello", "join", "travel"} => seat[p] = "live"
    /\ task[p].kind = "leave" => seat[p] = "ghost"
    /\ task[p].kind \in {"hello", "join", "leave"} => task[p].to = room[p]
    /\ Shaped(task[p]) /\ Shaped(late[p])

Base == TypeOK /\ TaskInv

\* The parts of TypeOK.
SeatTypes ==
  /\ seat \in [Player -> {"none", "live", "ghost"}]
  /\ room \in [Player -> Room \cup {None}]

ReadyTypes ==
  /\ ready \in [Player -> BOOLEAN]
  /\ zone \in [Player -> Zone \cup {None}]
  /\ desired \in [Room -> {0, 1}]

TaskTypes == task \in [Player -> Tasks] /\ late \in [Player -> Tasks]

NetTypes ==
  /\ link \in [Player -> {"down", "up"}]
  /\ greeted \in [Player -> BOOLEAN]
  /\ wire \in [Player -> Seq(Frames)]
  /\ welcome \in [Player -> BOOLEAN]

ClientTypes ==
  /\ game \in [Player -> Zone \cup {None}]
  /\ sent \in [Player -> BOOLEAN]
  /\ unsent \in [Player -> BOOLEAN]
  /\ readyZone \in [Player -> Zone \cup {None}]

Heard == [gate : BOOLEAN, speed : {0, 1}] \cup {None}

HeardTypes == heard \in [Player -> Heard] /\ skipped \subseteq Room

HistoryTypes == forgotten \subseteq Player /\ vouched \subseteq Player /\ revived \subseteq Player

LEMMA TypeParts ==
  TypeOK <=> /\ SeatTypes /\ ReadyTypes /\ TaskTypes /\ NetTypes /\ ClientTypes
             /\ HeardTypes /\ HistoryTypes /\ trouble \in Nat
BY DEF TypeOK, SeatTypes, ReadyTypes, TaskTypes, NetTypes, ClientTypes, HeardTypes, HistoryTypes,
       Heard

LEMMA TypePartsNext ==
  TypeOK' <=> /\ SeatTypes' /\ ReadyTypes' /\ TaskTypes' /\ NetTypes' /\ ClientTypes'
              /\ HeardTypes' /\ HistoryTypes' /\ trouble' \in Nat
BY DEF TypeOK, SeatTypes, ReadyTypes, TaskTypes, NetTypes, ClientTypes, HeardTypes, HistoryTypes,
       Heard

-----------------------------------------------------------------------------
\* The facts every step needs.

\* What a frame carries.
LEMMA FrameKinds ==
  ASSUME NEW f \in Frames
  PROVE  /\ f.type \in {"TIME_READY", "JOIN_ROOM", "TIME_SPEED", "TIME_UNREADY"}
         /\ f.type = "TIME_READY" => f.arg \in Zone
         /\ f.type = "JOIN_ROOM" => f.arg \in Room
         /\ f.type = "TIME_SPEED" => f.arg \in {0, 1}
BY DEF Frames

\* Frames a client makes are frames.
LEMMA FramesMade ==
  /\ \A z \in Zone : Frame("TIME_READY", z) \in Frames
  /\ \A r \in Room : Frame("JOIN_ROOM", r) \in Frames
  /\ \A s \in {0, 1} : Frame("TIME_SPEED", s) \in Frames
  /\ Frame("TIME_UNREADY", 0) \in Frames
BY DEF Frames, Frame

\* Tasks a handler makes are tasks of their shape.
LEMMA TasksMade ==
  /\ Idle \in Tasks /\ Shaped(Idle) /\ Idle.kind = "idle"
  /\ \A r \in Room : /\ Task("hello", None, r, None) \in Tasks
                     /\ Shaped(Task("hello", None, r, None))
                     /\ Task("leave", None, r, None) \in Tasks
                     /\ Shaped(Task("leave", None, r, None))
  /\ \A r, s \in Room : /\ Task("join", r, s, None) \in Tasks
                        /\ Shaped(Task("join", r, s, None))
  /\ \A z \in Zone : /\ Task("travel", None, None, z) \in Tasks
                     /\ Shaped(Task("travel", None, None, z))
BY DEF Tasks, Task, Idle, Shaped

LEMMA TaskFields ==
  \A kind, from, to, z :
    /\ Task(kind, from, to, z).kind = kind
    /\ Task(kind, from, to, z).from = from
    /\ Task(kind, from, to, z).to = to
    /\ Task(kind, from, to, z).zone = z
BY DEF Task

LEMMA FrameFields ==
  \A type, arg : Frame(type, arg).type = type /\ Frame(type, arg).arg = arg
BY DEF Frame

\* What is announced to a connected player is a TIME_SYNC.
LEMMA AnnounceTypes ==
  ASSUME NEW R, HeardTypes, SeatTypes', ReadyTypes', Announce(R),
         \A p \in Player : seat'[p] = "live" => room'[p] \in Room
  PROVE  heard' \in [Player -> Heard]
<1>1. \A r \in Room : Snapshot(seat', room', ready', desired', r) \in Heard
  <2> SUFFICES ASSUME NEW r \in Room
               PROVE  Snapshot(seat', room', ready', desired', r) \in Heard
    OBVIOUS
  <2>1. desired'[r] \in {0, 1}
    BY DEF ReadyTypes
  <2>2. Opens(seat', room', ready', r) \in BOOLEAN
    BY DEF Opens
  <2> QED BY <2>1, <2>2 DEF Snapshot, Heard
<1> QED BY <1>1 DEF Announce, HeardTypes

-----------------------------------------------------------------------------
\* The types and what tasks know.

LEMMA InitBase == Init => Base
<1> SUFFICES ASSUME Init PROVE Base
  OBVIOUS
<1>1. TaskInv
  BY TasksMade DEF Init, TaskInv
<1>2. TaskTypes /\ HeardTypes /\ SeatTypes
  BY TasksMade DEF Init, TaskTypes, HeardTypes, SeatTypes, Heard
<1>3. ReadyTypes /\ ClientTypes /\ HistoryTypes /\ trouble \in Nat
  BY DEF Init, ReadyTypes, ClientTypes, HistoryTypes
<1>4. NetTypes
  BY DEF Init, NetTypes
<1> QED BY <1>1, <1>2, <1>3, <1>4, TypeParts DEF Base

\* A step that leaves the server alone keeps what tasks know.
LEMMA ServerUntouched ==
  ASSUME Base, UNCHANGED <<session, task, late, heard, skipped>>,
         NetTypes', ClientTypes', HistoryTypes', trouble' \in Nat
  PROVE  Base'
<1>1. TaskInv'
  BY DEF Base, TaskInv, session
<1>2. TaskTypes' /\ HeardTypes' /\ SeatTypes' /\ ReadyTypes'
  BY TypeParts DEF Base, TaskTypes, HeardTypes, SeatTypes, ReadyTypes, session
<1> QED BY <1>1, <1>2, TypePartsNext DEF Base

LEMMA SendTypes ==
  ASSUME NetTypes, NEW p \in Player, NEW type, NEW arg, Frame(type, arg) \in Frames,
         SendFrame(p, type, arg)
  PROVE  wire' \in [Player -> Seq(Frames)]
BY DEF NetTypes, SendFrame

LEMMA ClientBase ==
  ASSUME Base, NEW p \in Player, ClientNext(p)
  PROVE  Base'
<1> USE DEF net, client, history
<1>0. /\ NetTypes /\ ClientTypes /\ HistoryTypes /\ trouble \in Nat
  BY TypeParts DEF Base
<1>1. ASSUME NEW z \in Zone \cup {None}, PlayZone(p, z) PROVE Base'
  <2>1. NetTypes' /\ ClientTypes' /\ HistoryTypes'
    BY <1>0, <1>1 DEF PlayZone, NetTypes, ClientTypes, HistoryTypes
  <2>2. trouble' \in Nat
    BY <1>0, <1>1 DEF PlayZone, Trouble
  <2> QED BY <1>1, <2>1, <2>2, ServerUntouched DEF PlayZone
<1>2. ASSUME TickQuiet(p) PROVE Base'
  <2>1. NetTypes' /\ ClientTypes' /\ HistoryTypes' /\ trouble' \in Nat
    BY <1>0, <1>2 DEF TickQuiet, Drain, NetTypes, ClientTypes, HistoryTypes
  <2> QED BY <1>2, <2>1, ServerUntouched DEF TickQuiet
<1>3. ASSUME TickAway(p) PROVE Base'
  <2>1. NetTypes' /\ ClientTypes' /\ HistoryTypes' /\ trouble' \in Nat
    BY <1>0, <1>3, FramesMade, SendTypes DEF TickAway, NetTypes, ClientTypes, HistoryTypes
  <2> QED BY <1>3, <2>1, ServerUntouched DEF TickAway
<1>4. ASSUME TickPlaying(p) PROVE Base'
  <2>1. game[p] \in Zone
    BY <1>0, <1>4 DEF TickPlaying, ClientTypes
  <2>2. wire' \in [Player -> Seq(Frames)]
    BY <1>0, <1>4, <2>1, FramesMade, SendTypes DEF TickPlaying
  <2>3. NetTypes' /\ ClientTypes' /\ HistoryTypes' /\ trouble' \in Nat
    BY <1>0, <1>4, <2>1, <2>2 DEF TickPlaying, Drain, NetTypes, ClientTypes, HistoryTypes
  <2> QED BY <1>4, <2>3, ServerUntouched DEF TickPlaying
<1>5. ASSUME TickSettled(p) PROVE Base'
  <2>1. NetTypes' /\ ClientTypes' /\ HistoryTypes' /\ trouble' \in Nat
    BY <1>0, <1>5 DEF TickSettled, NetTypes, ClientTypes, HistoryTypes
  <2> QED BY <1>5, <2>1, ServerUntouched DEF TickSettled
<1>6. ASSUME NEW z \in Zone, MarkReady(p, z) PROVE Base'
  <2>1. wire' \in [Player -> Seq(Frames)]
    BY <1>0, <1>6, FramesMade, SendTypes DEF MarkReady
  <2>2. NetTypes' /\ ClientTypes'
    BY <1>0, <1>6, <2>1 DEF MarkReady, NetTypes, ClientTypes
  <2>3. HistoryTypes' /\ trouble' \in Nat
    BY <1>0, <1>6 DEF MarkReady, Command, Trouble, HistoryTypes
  <2> QED BY <1>6, <2>2, <2>3, ServerUntouched DEF MarkReady
<1>7. ASSUME NEW r \in Room, TypeJoin(p, r) PROVE Base'
  <2>1. wire' \in [Player -> Seq(Frames)]
    BY <1>0, <1>7, FramesMade, SendTypes DEF TypeJoin
  <2>2. NetTypes' /\ ClientTypes' /\ HistoryTypes' /\ trouble' \in Nat
    BY <1>0, <1>7, <2>1 DEF TypeJoin, Command, Trouble, NetTypes, ClientTypes, HistoryTypes
  <2> QED BY <1>7, <2>2, ServerUntouched DEF TypeJoin
<1>8. ASSUME NEW s \in {0, 1}, ChangeSpeed(p, s) PROVE Base'
  <2>1. wire' \in [Player -> Seq(Frames)]
    BY <1>0, <1>8, FramesMade, SendTypes DEF ChangeSpeed
  <2>2. NetTypes' /\ ClientTypes' /\ HistoryTypes' /\ trouble' \in Nat
    BY <1>0, <1>8, <2>1 DEF ChangeSpeed, Command, Trouble, NetTypes, ClientTypes, HistoryTypes
  <2> QED BY <1>8, <2>2, ServerUntouched DEF ChangeSpeed
<1>9. ASSUME Connect(p) PROVE Base'
  <2>1. NetTypes' /\ ClientTypes' /\ HistoryTypes' /\ trouble' \in Nat
    BY <1>0, <1>9 DEF Connect, NetTypes, ClientTypes, HistoryTypes
  <2> QED BY <1>9, <2>1, ServerUntouched DEF Connect
<1>10. ASSUME Drop(p) PROVE Base'
  <2>1. PICK n \in 0..Len(wire[p]) : wire' = [wire EXCEPT ![p] = SubSeq(wire[p], 1, n)]
    BY <1>10 DEF Drop
  <2>2. wire' \in [Player -> Seq(Frames)]
    BY <1>0, <2>1 DEF NetTypes
  <2>3. NetTypes'
    BY <1>0, <1>10, <2>2 DEF Drop, NetTypes
  <2>4. ClientTypes' /\ HistoryTypes' /\ trouble' \in Nat
    BY <1>0, <1>10 DEF Drop, Trouble, ClientTypes, HistoryTypes
  <2> QED BY <1>10, <2>3, <2>4, ServerUntouched DEF Drop
<1> QED
  BY <1>1, <1>2, <1>3, <1>4, <1>5, <1>6, <1>7, <1>8, <1>9, <1>10 DEF ClientNext

-----------------------------------------------------------------------------
\* The server's steps.  Each of them changes what one player's tasks and
\* seat say, and the readiness of the others at most.

\* Base once the parts are known.
LEMMA BaseParts ==
  ASSUME SeatTypes', ReadyTypes', TaskTypes', NetTypes', ClientTypes', HeardTypes', HistoryTypes',
         trouble' \in Nat, TaskInv'
  PROVE  Base'
BY TypePartsNext DEF Base

\* What tasks know after a step that concerns player p.
LEMMA TaskInvOf ==
  ASSUME TaskInv, NEW p \in Player,
         \A q \in Player \ {p} : UNCHANGED <<seat[q], room[q], task[q], late[q]>>,
         seat'[p] # "none" => room'[p] \in Room,
         late'[p] # Idle => seat'[p] # "none",
         task'[p].kind \in {"hello", "join", "travel"} => seat'[p] = "live",
         task'[p].kind = "leave" => seat'[p] = "ghost",
         task'[p].kind \in {"hello", "join", "leave"} => task'[p].to = room'[p],
         Shaped(task'[p]), Shaped(late'[p])
  PROVE  TaskInv'
<1> SUFFICES ASSUME NEW q \in Player
             PROVE  /\ seat'[q] # "none" => room'[q] \in Room
                    /\ late'[q] # Idle => seat'[q] # "none"
                    /\ task'[q].kind \in {"hello", "join", "travel"} => seat'[q] = "live"
                    /\ task'[q].kind = "leave" => seat'[q] = "ghost"
                    /\ task'[q].kind \in {"hello", "join", "leave"} => task'[q].to = room'[q]
                    /\ Shaped(task'[q]) /\ Shaped(late'[q])
  BY DEF TaskInv, Shaped
<1>1. CASE q = p
  BY <1>1
<1>2. CASE q # p
  BY <1>2 DEF TaskInv
<1> QED BY <1>1, <1>2

\* What is known of a player before a step.
LEMMA Known ==
  ASSUME Base, NEW p \in Player
  PROVE  /\ seat[p] \in {"none", "live", "ghost"}
         /\ seat[p] # "none" => room[p] \in Room
         /\ late[p] # Idle => seat[p] # "none"
         /\ task[p].kind \in {"hello", "join", "travel"} => seat[p] = "live"
         /\ task[p].kind = "leave" => seat[p] = "ghost"
         /\ task[p].kind \in {"hello", "join", "leave"} => task[p].to = room[p]
         /\ Shaped(task[p]) /\ Shaped(late[p])
         /\ task[p] \in Tasks /\ late[p] \in Tasks
BY TypeParts DEF Base, TaskInv, TaskTypes, SeatTypes

\* A frame that is read.
LEMMA Received ==
  ASSUME Base, NEW p \in Player, NEW type, Receive(p, type)
  PROVE  /\ wire' \in [Player -> Seq(Frames)]
         /\ NetTypes'
         /\ Head(wire[p]) \in Frames /\ Head(wire[p]).type = type
         /\ seat[p] = "live" /\ room[p] \in Room
         /\ task[p] = Idle
<1>1. wire[p] \in Seq(Frames) /\ wire[p] # <<>>
  BY TypeParts DEF Base, NetTypes, Receive
<1>2. Head(wire[p]) \in Frames /\ Tail(wire[p]) \in Seq(Frames)
  BY <1>1
<1>3. NetTypes'
  BY <1>2, TypeParts DEF Base, NetTypes, Receive
<1>4. seat[p] = "live" /\ room[p] \in Room /\ task[p] = Idle
  BY Known DEF Receive, Busy
<1> QED BY <1>2, <1>3, <1>4 DEF Receive, NetTypes

\* The clock is announced, or not.
LEMMA SyncTypes ==
  ASSUME HeardTypes, SeatTypes', ReadyTypes', NEW R, Sync(R) \/ NoSync,
         \A p \in Player : seat'[p] = "live" => room'[p] \in Room
  PROVE  HeardTypes'
<1>1. CASE Sync(R)
  BY <1>1, AnnounceTypes DEF Sync, HeardTypes
<1>2. CASE NoSync
  BY <1>2 DEF NoSync, HeardTypes
<1> QED BY <1>1, <1>2

LEMMA ArriveTypes ==
  ASSUME ReadyTypes, HistoryTypes, NEW p \in Player, NEW z \in Zone, NEW flips \in BOOLEAN,
         Arrive(p, z, flips)
  PROVE  ReadyTypes' /\ forgotten' \subseteq Player
<1> DEFINE counts(q) == q = p \/ (ready[q] /\ ~(flips /\ q \in Others(p)))
<1>1. \A q \in Player : counts(q) \in BOOLEAN
  OBVIOUS
<1>2. ready' = [q \in Player |-> counts(q)]
  BY Zenon DEF Arrive
<1> HIDE DEF counts
<1>3. ready' \in [Player -> BOOLEAN]
  BY <1>1, <1>2
<1>4. zone' \in [Player -> Zone \cup {None}] /\ desired' \in [Room -> {0, 1}]
  BY DEF ReadyTypes, Arrive
<1>5. forgotten' \subseteq Player
  BY DEF HistoryTypes, Arrive, Others
<1> QED BY <1>3, <1>4, <1>5 DEF ReadyTypes

\* Every step of the server keeps the types and what tasks know.
LEMMA ServerBase ==
  ASSUME Base, NEW p \in Player, ServerNext(p)
  PROVE  Base'
<1> USE DEF net, client, history, session
<1>0. /\ SeatTypes /\ ReadyTypes /\ TaskTypes /\ NetTypes /\ ClientTypes /\ HeardTypes
      /\ HistoryTypes /\ trouble \in Nat /\ TaskInv
  BY TypeParts DEF Base
<1> DEFINE Live == \A q \in Player : seat'[q] = "live" => room'[q] \in Room
<1>l. TaskInv' => Live
  BY DEF TaskInv
<1>1. ASSUME Hello(p) PROVE Base'
  <2> DEFINE r == IF seat[p] = "none" THEN DefaultRoom ELSE room[p]
  <2>1. r \in Room
    BY Known, <1>0, GateConstants
  <2>2. /\ room' = [room EXCEPT ![p] = r] /\ task' = [task EXCEPT ![p] = Task("hello", None, r, None)]
        /\ seat' = [seat EXCEPT ![p] = "live"] /\ late' = [late EXCEPT ![p] = task[p]]
    BY <1>1 DEF Hello
  <2> HIDE DEF r
  <2>3. SeatTypes' /\ TaskTypes'
    BY <1>0, <2>1, <2>2, TasksMade DEF SeatTypes, TaskTypes
  <2>4. /\ task'[p] = Task("hello", None, r, None) /\ late'[p] = task[p] /\ seat'[p] = "live"
        /\ room'[p] = r
        /\ \A q \in Player \ {p} : UNCHANGED <<seat[q], room[q], task[q], late[q]>>
    BY <1>0, <2>2 DEF SeatTypes, TaskTypes
  <2>5. TaskInv'
    BY <1>0, <2>1, <2>4, TaskInvOf, Known, TasksMade, TaskFields
  <2>6. ReadyTypes' /\ ClientTypes' /\ HistoryTypes' /\ trouble' \in Nat /\ NetTypes'
    BY <1>0, <1>1 DEF Hello, ReadyTypes, ClientTypes, HistoryTypes, NetTypes
  <2>7. HeardTypes'
    BY <1>0, <1>1 DEF Hello, NoSync, HeardTypes
  <2> QED BY <2>3, <2>5, <2>6, <2>7, BaseParts
<1>2. ASSUME HelloFinish(p) PROVE Base'
  <2>1. SeatTypes' /\ TaskTypes' /\ ReadyTypes'
    BY <1>0, <1>2, TasksMade DEF HelloFinish, ClearHello, SeatTypes, TaskTypes, ReadyTypes
  <2>2. TaskInv'
    <3>1. /\ task'[p] = Idle /\ late'[p] = late[p]
          /\ \A q \in Player \ {p} : UNCHANGED <<seat[q], room[q], task[q], late[q]>>
          /\ UNCHANGED <<seat[p], room[p]>>
      BY <1>0, <1>2 DEF HelloFinish, ClearHello, SeatTypes, TaskTypes
    <3> QED BY <1>0, <3>1, TaskInvOf, Known, TasksMade
  <2>3. ClientTypes' /\ HistoryTypes' /\ trouble' \in Nat /\ NetTypes'
    BY <1>0, <1>2 DEF HelloFinish, ClientTypes, HistoryTypes, NetTypes
  <2>4. HeardTypes'
    <3>1. Announce({task[p].to})
      BY <1>2 DEF HelloFinish, ClearHello
    <3>2. heard' \in [Player -> Heard]
      BY <1>0, <1>l, <2>1, <2>2, <3>1, AnnounceTypes
    <3> QED BY <1>0, <1>2, <3>2 DEF HelloFinish, HeardTypes
  <2> QED BY <2>1, <2>2, <2>3, <2>4, BaseParts
<1>3. ASSUME Disconnect(p) PROVE Base'
  <2>1. room[p] \in Room /\ task[p] = Idle
    BY <1>3, Known DEF Disconnect, Busy
  <2>2. SeatTypes' /\ TaskTypes' /\ ReadyTypes'
    BY <1>0, <1>3, <2>1, TasksMade DEF Disconnect, LosesReady, SeatTypes, TaskTypes, ReadyTypes
  <2>3. TaskInv'
    <3>1. /\ task'[p] = Task("leave", None, room[p], None) /\ late'[p] = late[p]
          /\ seat'[p] = "ghost" /\ room'[p] = room[p]
          /\ \A q \in Player \ {p} : UNCHANGED <<seat[q], room[q], task[q], late[q]>>
      BY <1>0, <1>3 DEF Disconnect, SeatTypes, TaskTypes
    <3> QED BY <1>0, <2>1, <3>1, TaskInvOf, Known, TasksMade, TaskFields
  <2>4. ClientTypes' /\ HistoryTypes' /\ trouble' \in Nat /\ NetTypes' /\ HeardTypes'
    BY <1>0, <1>3 DEF Disconnect, NoSync, ClientTypes, HistoryTypes, NetTypes, HeardTypes
  <2> QED BY <2>2, <2>3, <2>4, BaseParts
<1>4. ASSUME DisconnectFinish(p) PROVE Base'
  <2>1. SeatTypes' /\ TaskTypes' /\ ReadyTypes'
    BY <1>0, <1>4, TasksMade DEF DisconnectFinish, SeatTypes, TaskTypes, ReadyTypes
  <2>2. TaskInv'
    <3>1. /\ task'[p] = Idle /\ late'[p] = late[p]
          /\ \A q \in Player \ {p} : UNCHANGED <<seat[q], room[q], task[q], late[q]>>
          /\ UNCHANGED <<seat[p], room[p]>>
      BY <1>0, <1>4 DEF DisconnectFinish, SeatTypes, TaskTypes
    <3> QED BY <1>0, <3>1, TaskInvOf, Known, TasksMade
  <2>3. ClientTypes' /\ HistoryTypes' /\ trouble' \in Nat /\ NetTypes'
    BY <1>0, <1>4 DEF DisconnectFinish, ClientTypes, HistoryTypes, NetTypes
  <2>4. HeardTypes'
    BY <1>0, <1>4, <1>l, <2>1, <2>2, SyncTypes DEF DisconnectFinish
  <2> QED BY <2>1, <2>2, <2>3, <2>4, BaseParts
<1>5. ASSUME EvictGhost(p) PROVE Base'
  <2>1. SeatTypes' /\ TaskTypes'
    BY <1>0, <1>5 DEF EvictGhost, SeatTypes, TaskTypes
  <2>2. ReadyTypes'
    BY <1>0, <1>5 DEF EvictGhost, LosesReady, ReadyTypes
  <2>3. TaskInv'
    <3>1. /\ task'[p] = Idle /\ late'[p] = Idle /\ seat'[p] = "none"
          /\ \A q \in Player \ {p} : UNCHANGED <<seat[q], room[q], task[q], late[q]>>
      BY <1>0, <1>5 DEF EvictGhost, Busy, SeatTypes, TaskTypes
    <3> QED BY <1>0, <3>1, TaskInvOf, TasksMade
  <2>4. ClientTypes' /\ HistoryTypes' /\ trouble' \in Nat /\ NetTypes'
    BY <1>0, <1>5 DEF EvictGhost, ClientTypes, HistoryTypes, NetTypes
  <2>5. HeardTypes'
    BY <1>0, <1>5, <1>l, <2>1, <2>2, <2>3, SyncTypes DEF EvictGhost
  <2> QED BY <2>1, <2>2, <2>3, <2>4, <2>5, BaseParts
<1>6. ASSUME TimeReady(p) PROVE Base'
  <2>1. Receive(p, "TIME_READY") /\ Arrive(p, Arg(p), Flips(p, Arg(p))) /\ Sync({room[p]})
    BY <1>6 DEF TimeReady
  <2>2. Arg(p) \in Zone /\ NetTypes'
    BY <2>1, Received, FrameKinds DEF Arg
  <2>3. ReadyTypes' /\ forgotten' \subseteq Player
    BY <1>0, <2>1, <2>2, ArriveTypes DEF Flips
  <2>4. SeatTypes' /\ TaskTypes' /\ TaskInv'
    BY <1>0, <1>6, <2>1 DEF TimeReady, Arrive, SeatTypes, TaskTypes, TaskInv
  <2>5. ClientTypes' /\ HistoryTypes' /\ trouble' \in Nat
    BY <1>0, <1>6, <2>3 DEF TimeReady, ClientTypes, HistoryTypes
  <2>6. HeardTypes'
    BY <1>0, <1>l, <2>1, <2>3, <2>4, SyncTypes
  <2> QED BY <2>2, <2>3, <2>4, <2>5, <2>6, BaseParts
<1>7. ASSUME TimeReadyLeave(p) PROVE Base'
  <2>1. Receive(p, "TIME_READY") /\ NetTypes' /\ seat[p] = "live" /\ room[p] \in Room
    BY <1>7, Received DEF TimeReadyLeave
  <2>2. Arg(p) \in Zone
    BY <2>1, Received, FrameKinds DEF Arg
  <2>3. SeatTypes' /\ ReadyTypes' /\ ClientTypes' /\ HistoryTypes' /\ HeardTypes' /\ trouble' \in Nat
    BY <1>0, <1>7 DEF TimeReadyLeave, NoSync, SeatTypes, ReadyTypes, ClientTypes, HistoryTypes,
                      HeardTypes
  <2>4. TaskTypes'
    BY <1>0, <1>7, <2>2, TasksMade DEF TimeReadyLeave, TaskTypes
  <2>5. TaskInv'
    <3>1. /\ task'[p] = Task("travel", None, None, Arg(p)) /\ late'[p] = late[p]
          /\ UNCHANGED <<seat, room>>
          /\ \A q \in Player \ {p} : UNCHANGED <<task[q], late[q]>>
      BY <1>0, <1>7 DEF TimeReadyLeave, TaskTypes
    <3> QED BY <1>0, <2>1, <2>2, <3>1, TaskInvOf, Known, TasksMade, TaskFields
  <2> QED BY <2>1, <2>3, <2>4, <2>5, BaseParts
<1>8. ASSUME TimeReadyArrive(p) PROVE Base'
  <2>1. task[p].zone \in Zone /\ Arrive(p, task[p].zone, TRUE) /\ Sync({room[p]})
    BY <1>8, Known DEF TimeReadyArrive, Shaped
  <2>2. ReadyTypes' /\ forgotten' \subseteq Player
    BY <1>0, <2>1, ArriveTypes
  <2>3. SeatTypes' /\ TaskTypes' /\ NetTypes' /\ ClientTypes' /\ trouble' \in Nat
    BY <1>0, <1>8, <2>1, TasksMade DEF TimeReadyArrive, Arrive, SeatTypes, TaskTypes, NetTypes,
                                       ClientTypes
  <2>4. HistoryTypes'
    BY <1>0, <1>8, <2>2 DEF TimeReadyArrive, HistoryTypes
  <2>5. TaskInv'
    <3>1. /\ task'[p] = Idle /\ late'[p] = late[p] /\ UNCHANGED <<seat, room>>
          /\ \A q \in Player \ {p} : UNCHANGED <<task[q], late[q]>>
      BY <1>0, <1>8, <2>1 DEF TimeReadyArrive, Arrive, TaskTypes
    <3> QED BY <1>0, <3>1, TaskInvOf, Known, TasksMade
  <2>6. HeardTypes'
    BY <1>0, <1>l, <2>1, <2>2, <2>3, <2>5, SyncTypes
  <2> QED BY <2>2, <2>3, <2>4, <2>5, <2>6, BaseParts
<1>9. ASSUME TimeUnready(p) PROVE Base'
  <2>1. NetTypes' /\ Sync({room[p]})
    BY <1>9, Received DEF TimeUnready
  <2>2. SeatTypes' /\ TaskTypes' /\ TaskInv'
    BY <1>0, <1>9 DEF TimeUnready, SeatTypes, TaskTypes, TaskInv
  <2>3. ReadyTypes' /\ ClientTypes' /\ HistoryTypes' /\ trouble' \in Nat
    BY <1>0, <1>9 DEF TimeUnready, ReadyTypes, ClientTypes, HistoryTypes
  <2>4. HeardTypes'
    BY <1>0, <1>l, <2>1, <2>2, <2>3, SyncTypes
  <2> QED BY <2>1, <2>2, <2>3, <2>4, BaseParts
<1>10. ASSUME TimeSpeed(p) PROVE Base'
  <2>1. NetTypes' /\ Sync({room[p]}) /\ Arg(p) \in {0, 1}
    BY <1>10, Received, FrameKinds DEF TimeSpeed, Arg
  <2>2. SeatTypes' /\ TaskTypes' /\ TaskInv'
    BY <1>0, <1>10 DEF TimeSpeed, SeatTypes, TaskTypes, TaskInv
  <2>3. ReadyTypes' /\ ClientTypes' /\ HistoryTypes' /\ trouble' \in Nat
    BY <1>0, <1>10, <2>1 DEF TimeSpeed, ReadyTypes, ClientTypes, HistoryTypes
  <2>4. HeardTypes'
    BY <1>0, <1>l, <2>1, <2>2, <2>3, SyncTypes
  <2> QED BY <2>1, <2>2, <2>3, <2>4, BaseParts
<1>11. ASSUME JoinRoom(p) PROVE Base'
  <2>1. /\ NetTypes' /\ Arg(p) \in Room /\ seat[p] = "live" /\ room[p] \in Room
    BY <1>11, Received, FrameKinds DEF JoinRoom, Arg
  <2>2. SeatTypes' /\ TaskTypes' /\ ReadyTypes'
    BY <1>0, <1>11, <2>1, TasksMade DEF JoinRoom, SeatTypes, TaskTypes, ReadyTypes
  <2>3. ClientTypes' /\ HistoryTypes' /\ HeardTypes' /\ trouble' \in Nat
    BY <1>0, <1>11 DEF JoinRoom, NoSync, ClientTypes, HistoryTypes, HeardTypes
  <2>4. TaskInv'
    <3>1. /\ task'[p] = Task("join", room[p], Arg(p), None) /\ late'[p] = late[p]
          /\ seat'[p] = seat[p] /\ room'[p] = Arg(p)
          /\ \A q \in Player \ {p} : UNCHANGED <<seat[q], room[q], task[q], late[q]>>
      BY <1>0, <1>11 DEF JoinRoom, SeatTypes, TaskTypes
    <3> QED BY <1>0, <2>1, <3>1, TaskInvOf, Known, TasksMade, TaskFields
  <2> QED BY <2>1, <2>2, <2>3, <2>4, BaseParts
<1>12. ASSUME JoinRoomFinish(p) PROVE Base'
  <2>1. SeatTypes' /\ TaskTypes' /\ ReadyTypes'
    BY <1>0, <1>12, TasksMade DEF JoinRoomFinish, ClearJoin, SeatTypes, TaskTypes, ReadyTypes
  <2>2. TaskInv'
    <3>1. /\ task'[p] = Idle /\ late'[p] = late[p] /\ UNCHANGED <<seat, room>>
          /\ \A q \in Player \ {p} : UNCHANGED <<task[q], late[q]>>
      BY <1>0, <1>12 DEF JoinRoomFinish, ClearJoin, TaskTypes
    <3> QED BY <1>0, <3>1, TaskInvOf, Known, TasksMade
  <2>3. ClientTypes' /\ HistoryTypes' /\ trouble' \in Nat /\ NetTypes'
    BY <1>0, <1>12 DEF JoinRoomFinish, ClientTypes, HistoryTypes, NetTypes
  <2>4. HeardTypes'
    <3>1. Announce({task[p].from, task[p].to})
      BY <1>12 DEF JoinRoomFinish, ClearJoin
    <3>2. heard' \in [Player -> Heard]
      BY <1>0, <1>l, <2>1, <2>2, <3>1, AnnounceTypes
    <3> QED BY <1>0, <1>12, <3>2 DEF JoinRoomFinish, HeardTypes
  <2> QED BY <2>1, <2>2, <2>3, <2>4, BaseParts
<1>13. ASSUME JoinRoomDies(p) PROVE Base'
  <2>1. /\ NetTypes' /\ Arg(p) \in Room /\ seat[p] = "live" /\ room[p] \in Room
    BY <1>13, Received, FrameKinds DEF JoinRoomDies, Arg
  <2>2. SeatTypes' /\ TaskTypes' /\ ReadyTypes'
    BY <1>0, <1>13, <2>1, TasksMade DEF JoinRoomDies, LosesReady, SeatTypes, TaskTypes, ReadyTypes
  <2>3. ClientTypes' /\ HistoryTypes' /\ HeardTypes' /\ trouble' \in Nat
    BY <1>0, <1>13, <2>1 DEF JoinRoomDies, ClientTypes, HistoryTypes, HeardTypes
  <2>4. TaskInv'
    <3>1. /\ task'[p] = Task("leave", None, Arg(p), None) /\ late'[p] = late[p]
          /\ seat'[p] = "ghost" /\ room'[p] = Arg(p)
          /\ \A q \in Player \ {p} : UNCHANGED <<seat[q], room[q], task[q], late[q]>>
      BY <1>0, <1>13 DEF JoinRoomDies, SeatTypes, TaskTypes
    <3> QED BY <1>0, <2>1, <3>1, TaskInvOf, Known, TasksMade, TaskFields
  <2> QED BY <2>1, <2>2, <2>3, <2>4, BaseParts
<1>14. ASSUME LateFinish(p) PROVE Base'
  <2> DEFINE t == late[p]
             told == {t.from, t.to} \ {None}
  <2>1. /\ t # Idle /\ seat[p] # "none" /\ room[p] \in Room /\ Shaped(t)
        /\ late' = [late EXCEPT ![p] = Idle] /\ UNCHANGED <<task, client, net, trouble>>
    BY <1>14, Known DEF LateFinish
  <2>2. /\ ReadyTypes' /\ HistoryTypes' /\ UNCHANGED <<seat, room>>
        /\ heard' = heard \/ \E R : Announce(R)
    <3>1. CASE t.kind = "hello" /\ ClearHello(p, t.to) /\ forgotten' = forgotten \cup {p}
               /\ UNCHANGED <<vouched, revived>>
      BY <1>0, <3>1 DEF ClearHello, ReadyTypes, HistoryTypes
    <3>2. CASE t.kind = "join" /\ ClearJoin(p, t.from, t.to) /\ forgotten' = forgotten \cup {p}
               /\ UNCHANGED <<vouched, revived>>
      BY <1>0, <3>2 DEF ClearJoin, ReadyTypes, HistoryTypes
    <3>3. CASE t.kind = "leave" /\ UNCHANGED <<session, history>> /\ Announce(told)
      BY <1>0, <3>3 DEF ReadyTypes, HistoryTypes
    <3>4. CASE t.kind = "travel" /\ Arrive(p, t.zone, TRUE) /\ revived' = revived \cup {p}
               /\ UNCHANGED <<heard, vouched>>
      <4>1. ReadyTypes' /\ forgotten' \subseteq Player
        BY <1>0, <2>1, <3>4, ArriveTypes DEF Shaped
      <4> QED BY <1>0, <3>4, <4>1 DEF Arrive, HistoryTypes
    <3> QED BY <1>14, <3>1, <3>2, <3>3, <3>4 DEF LateFinish
  <2>3. SeatTypes' /\ TaskTypes' /\ NetTypes' /\ ClientTypes' /\ trouble' \in Nat
    BY <1>0, <2>1, <2>2, TasksMade DEF SeatTypes, TaskTypes, NetTypes, ClientTypes
  <2>4. TaskInv'
    <3>1. /\ late'[p] = Idle /\ UNCHANGED <<seat, room, task>>
          /\ \A q \in Player \ {p} : UNCHANGED <<late[q]>>
      BY <1>0, <2>1, <2>2 DEF TaskTypes
    <3> QED BY <1>0, <3>1, TaskInvOf, Known, TasksMade
  <2>5. HeardTypes'
    <3>1. heard' \in [Player -> Heard]
      BY <1>0, <1>l, <2>2, <2>3, <2>4, AnnounceTypes DEF HeardTypes
    <3>2. skipped' \subseteq Room
      BY <1>0, <1>14, <2>1 DEF LateFinish, HeardTypes
    <3> QED BY <3>1, <3>2 DEF HeardTypes
  <2> QED BY <2>2, <2>3, <2>4, <2>5, BaseParts
<1> QED
  BY <1>1, <1>2, <1>3, <1>4, <1>5, <1>6, <1>7, <1>8, <1>9, <1>10, <1>11, <1>12, <1>13, <1>14
  DEF ServerNext

LEMMA BaseStep == Base /\ [Next]_vars => Base'
<1> SUFFICES ASSUME Base, [Next]_vars PROVE Base'
  OBVIOUS
<1>1. CASE Next
  BY <1>1, ClientBase, ServerBase DEF Next
<1>2. CASE UNCHANGED vars
  BY <1>2 DEF vars, session, client, net, history, Base, TypeOK, TaskInv
<1> QED BY <1>1, <1>2

\* Every variable keeps its type (TypeOK), for any players, rooms and zones.
THEOREM ClockTypeCorrect == Spec => []TypeOK
<1>1. Init => Base
  BY InitBase
<1>2. Base /\ [Next]_vars => Base'
  BY BaseStep
<1>3. Base => TypeOK
  BY DEF Base
<1> QED BY <1>1, <1>2, <1>3, PTL DEF Spec

-----------------------------------------------------------------------------
\* What the client's steps leave alone.
LEMMA ClientLeaves ==
  ASSUME NEW p \in Player, ClientNext(p)
  PROVE  UNCHANGED <<session, task, late, greeted, heard, skipped, forgotten, revived>>
         \/ Connect(p)
<1> USE DEF net, client, history
<1> QED
  BY DEF ClientNext, PlayZone, TickQuiet, TickAway, TickPlaying, TickSettled, MarkReady, TypeJoin,
         ChangeSpeed, Drop

LEMMA ClientLeavesServer ==
  ASSUME NEW p \in Player, ClientNext(p)
  PROVE  UNCHANGED <<session, task, late, heard, skipped, forgotten, revived>>
<1>1. CASE Connect(p)
  BY <1>1 DEF Connect, history
<1> QED BY <1>1, ClientLeaves

-----------------------------------------------------------------------------
\* Ghosts.  A seat becomes a ghost's with its readiness cleared, and what
\* marks a player ready later is its own connection or a late handler.

LEMMA GhostsInit == Init => GhostsNotReady
BY DEF Init, GhostsNotReady

\* A step that only touches the readiness of p.
LEMMA GhostsOf ==
  ASSUME Base, GhostsNotReady, NEW p \in Player,
         \A q \in Player \ {p} : seat'[q] = seat[q] /\ (ready'[q] => ready[q])
                                 /\ (q \in revived => q \in revived'),
         seat'[p] = "ghost" /\ ready'[p] => p \in revived'
  PROVE  GhostsNotReady'
BY DEF GhostsNotReady

LEMMA ArriveReady ==
  ASSUME Base, NEW p \in Player, NEW z, NEW flips, Arrive(p, z, flips)
  PROVE  /\ \A q \in Player \ {p} : ready'[q] => ready[q]
         /\ ready'[p]
         /\ UNCHANGED <<seat, room, desired>>
BY DEF Arrive

LEMMA GhostsServer ==
  ASSUME Base, GhostsNotReady, NEW p \in Player, ServerNext(p)
  PROVE  GhostsNotReady'
<1> USE DEF session, history, client, net
<1>0. /\ seat \in [Player -> {"none", "live", "ghost"}] /\ ready \in [Player -> BOOLEAN]
  BY DEF Base, TypeOK
<1>1. CASE Hello(p)
  BY <1>0, <1>1, GhostsOf DEF Hello
<1>2. CASE HelloFinish(p)
  BY <1>0, <1>2, GhostsOf DEF HelloFinish, ClearHello
<1>3. CASE Disconnect(p)
  BY <1>0, <1>3, GhostsOf DEF Disconnect, LosesReady
<1>4. CASE DisconnectFinish(p)
  BY <1>4 DEF DisconnectFinish, GhostsNotReady
<1>5. CASE EvictGhost(p)
  BY <1>0, <1>5, GhostsOf DEF EvictGhost, LosesReady
<1>6. CASE TimeReady(p)
  <2>1. seat[p] = "live" /\ UNCHANGED revived
    BY <1>6 DEF TimeReady, Receive
  <2>2. Arrive(p, Arg(p), Flips(p, Arg(p)))
    BY <1>6 DEF TimeReady
  <2> QED BY <2>1, <2>2, ArriveReady, GhostsOf
<1>7. CASE TimeReadyLeave(p)
  BY <1>7 DEF TimeReadyLeave, GhostsNotReady
<1>8. CASE TimeReadyArrive(p)
  <2>1. seat[p] = "live" /\ UNCHANGED revived
    BY <1>8, Known DEF TimeReadyArrive
  <2>2. Arrive(p, task[p].zone, TRUE)
    BY <1>8 DEF TimeReadyArrive
  <2> QED BY <2>1, <2>2, ArriveReady, GhostsOf
<1>9. CASE TimeUnready(p)
  BY <1>0, <1>9, GhostsOf DEF TimeUnready
<1>10. CASE TimeSpeed(p)
  BY <1>10 DEF TimeSpeed, GhostsNotReady
<1>11. CASE JoinRoom(p)
  BY <1>11 DEF JoinRoom, GhostsNotReady
<1>12. CASE JoinRoomFinish(p)
  BY <1>0, <1>12, GhostsOf DEF JoinRoomFinish, ClearJoin
<1>13. CASE JoinRoomDies(p)
  BY <1>0, <1>13, GhostsOf DEF JoinRoomDies, LosesReady
<1>14. CASE LateFinish(p)
  <2>1. CASE (ClearHello(p, late[p].to) \/ ClearJoin(p, late[p].from, late[p].to))
             /\ UNCHANGED revived
    BY <1>0, <2>1, GhostsOf DEF ClearHello, ClearJoin
  <2>2. CASE UNCHANGED <<session, history>>
    BY <2>2 DEF GhostsNotReady
  <2>3. CASE Arrive(p, late[p].zone, TRUE) /\ revived' = revived \cup {p}
    BY <2>3, ArriveReady, GhostsOf
  <2> QED BY <1>14, <2>1, <2>2, <2>3 DEF LateFinish
<1> QED
  BY <1>1, <1>2, <1>3, <1>4, <1>5, <1>6, <1>7, <1>8, <1>9, <1>10, <1>11, <1>12, <1>13, <1>14
  DEF ServerNext

\* A ghost never counts as ready, except on the word of a TIME_READY handler
\* that outlived its connection: GhostsNotReady in every reachable state.
THEOREM GhostsNeverReady == Spec => []GhostsNotReady
<1>1. Base /\ GhostsNotReady /\ [Next]_vars => GhostsNotReady'
  <2> SUFFICES ASSUME Base, GhostsNotReady, [Next]_vars PROVE GhostsNotReady'
    OBVIOUS
  <2>1. ASSUME NEW p \in Player, ClientNext(p) PROVE GhostsNotReady'
    BY <2>1, ClientLeavesServer DEF session, GhostsNotReady
  <2>2. CASE UNCHANGED vars
    BY <2>2 DEF vars, session, history, GhostsNotReady
  <2> QED BY <2>1, <2>2, GhostsServer DEF Next
<1>2. Init => Base /\ GhostsNotReady
  BY InitBase, GhostsInit
<1>3. Base /\ [Next]_vars => Base'
  BY BaseStep
<1> QED BY <1>1, <1>2, <1>3, PTL DEF Spec

-----------------------------------------------------------------------------
\* Announcements.  A step may change what a room's snapshot says only if it
\* announces the room, leaves a handler that will, or records it as skipped.

\* Room r has the players, the readiness and the speed it had.
Untouched(r) ==
  /\ \A q \in Player :
       \/ UNCHANGED <<seat[q], room[q], ready[q]>>
       \/ /\ seat[q] = "none" \/ room[q] # r
          /\ seat'[q] = "none" \/ room'[q] # r
  /\ desired'[r] = desired[r]

LEMMA SnapshotKept ==
  ASSUME NEW r, Untouched(r)
  PROVE  Snapshot(seat', room', ready', desired', r) = Snapshot(seat, room, ready, desired, r)
<1>1. Participants(seat', room', r) = Participants(seat, room, r)
  BY DEF Untouched, Participants
<1>2. Connected(seat', room', r) = Connected(seat, room, r)
  <2>1. \A q \in Participants(seat, room, r) : seat'[q] = seat[q]
    BY DEF Untouched, Participants
  <2> QED BY <1>1, <2>1 DEF Connected
<1>3. \A q \in Participants(seat, room, r) : ready'[q] = ready[q]
  BY DEF Untouched, Participants
<1>4. Opens(seat', room', ready', r) = Opens(seat, room, ready, r)
  <2>1. (\A q \in Participants(seat, room, r) : ready'[q])
          = (\A q \in Participants(seat, room, r) : ready[q])
    BY <1>3
  <2> QED BY <1>1, <1>2, <2>1 DEF Opens
<1> QED BY <1>4 DEF Snapshot, Untouched

\* The rooms a step leaves to others: nobody owed them an announcement
\* before, and they look the same.
Settled(r) == Untouched(r) /\ ~WillSync(r) /\ r \notin skipped

LEMMA AnnouncedOf ==
  ASSUME AnnouncedIsCurrent, TaskInv', NEW R,
         heard \in [Player -> Heard],
         Announce(R) \/ (heard' = heard /\ R = {}),
         \A r \in Room \ R : ~WillSync(r)' /\ r \notin skipped' => Settled(r)
  PROVE  AnnouncedIsCurrent'
<1> SUFFICES ASSUME NEW q \in Player, seat'[q] = "live", ~WillSync(room[q])',
                    room'[q] \notin skipped'
             PROVE  heard'[q] = Snapshot(seat', room', ready', desired', room'[q])
  BY DEF AnnouncedIsCurrent
<1> DEFINE r == room'[q]
<1>0. r \in Room
  BY DEF TaskInv
<1>1. CASE r \in R
  BY <1>1 DEF Announce
<1>2. CASE r \notin R
  <2>1. Settled(r)
    BY <1>0, <1>2 DEF WillSync
  <2>2. seat[q] = "live" /\ room[q] = r
    BY <2>1 DEF Settled, Untouched
  <2>3. heard[q] = Snapshot(seat, room, ready, desired, r)
    BY <2>1, <2>2 DEF AnnouncedIsCurrent, Settled
  <2>4. heard'[q] = heard[q]
    BY <1>2 DEF Announce
  <2> QED BY <2>1, <2>3, <2>4, SnapshotKept DEF Settled
<1> QED BY <1>1, <1>2

\* A handler that will announce r still does after a step of p.
LEMMA StillWillSync ==
  ASSUME NEW p \in Player, NEW r,
         \A q \in Player \ {p} : UNCHANGED <<task[q], late[q]>>,
         \A t \in {task[p], late[p]} :
           t.kind \in {"hello", "join", "leave"} /\ r \in {t.from, t.to}
             => t \in {task'[p], late'[p]},
         ~WillSync(r)'
  PROVE  ~WillSync(r)
<1> SUFFICES ASSUME WillSync(r) PROVE FALSE
  OBVIOUS
<1>1. PICK q \in Player : \E t \in {task[q], late[q]} :
        t.kind \in {"hello", "join", "leave"} /\ r \in {t.from, t.to}
  BY DEF WillSync
<1>2. \E t \in {task'[q], late'[q]} :
        t.kind \in {"hello", "join", "leave"} /\ r \in {t.from, t.to}
  <2>1. CASE q = p
    BY <1>1, <2>1
  <2>2. CASE q # p
    BY <1>1, <2>2
  <2> QED BY <2>1, <2>2
<1> QED BY <1>2 DEF WillSync

\* A handler that stands suspended at a broadcast will announce its rooms.
LEMMA WillSyncOf ==
  ASSUME NEW p \in Player, NEW r, ~WillSync(r)'
  PROVE  \A t \in {task'[p], late'[p]} :
           t.kind \in {"hello", "join", "leave"} => t.from # r /\ t.to # r
BY DEF WillSync

LEMMA AnnouncedInit == Init => AnnouncedIsCurrent
BY DEF Init, AnnouncedIsCurrent

LEMMA AnnouncedServer ==
  ASSUME Base, AnnouncedIsCurrent, Base', NEW p \in Player, ServerNext(p)
  PROVE  AnnouncedIsCurrent'
<1> USE DEF session, history, client, net
<1>0. /\ seat \in [Player -> {"none", "live", "ghost"}] /\ ready \in [Player -> BOOLEAN]
      /\ room \in [Player -> Room \cup {None}] /\ desired \in [Room -> {0, 1}]
      /\ task \in [Player -> Tasks] /\ late \in [Player -> Tasks]
      /\ heard \in [Player -> Heard] /\ TaskInv'
  BY DEF Base, TypeOK, Heard
<1>i. Idle.kind = "idle"
  BY TasksMade
<1>n. None \notin Room
  BY GateConstants
<1>1. CASE Hello(p)
  <2>1. ASSUME NEW r \in Room, ~WillSync(r)', r \notin skipped' PROVE Settled(r)
    <3>1. r # room'[p]
      <4>1. task'[p] = Task("hello", None, room'[p], None)
        BY <1>0, <1>1 DEF Hello
      <4> QED BY <2>1, <4>1, WillSyncOf, TaskFields
    <3>2. Untouched(r)
      BY <1>0, <1>1, <3>1 DEF Hello, Untouched
    <3>3. late'[p] = task[p] /\ late[p] = Idle
          /\ \A q \in Player \ {p} : UNCHANGED <<task[q], late[q]>>
      BY <1>0, <1>1 DEF Hello
    <3>4. ~WillSync(r)
      BY <1>i, <2>1, <3>3, StillWillSync
    <3> QED BY <1>1, <2>1, <3>2, <3>4 DEF Settled, Hello, NoSync
  <2> QED BY <1>0, <1>1, <2>1, AnnouncedOf DEF Hello, NoSync
<1>2. CASE HelloFinish(p)
  <2>0. task[p].to = room[p] /\ task[p].from = None
    BY <1>2, Known DEF HelloFinish, Shaped
  <2>1. ASSUME NEW r \in Room \ {task[p].to}, ~WillSync(r)', r \notin skipped' PROVE Settled(r)
    <3>1. Untouched(r)
      BY <1>0, <1>2, <2>0 DEF HelloFinish, ClearHello, Untouched
    <3>2. ~WillSync(r)
      <4>1. late'[p] = late[p] /\ \A q \in Player \ {p} : UNCHANGED <<task[q], late[q]>>
        BY <1>0, <1>2 DEF HelloFinish
      <4> QED BY <1>n, <2>0, <2>1, <4>1, StillWillSync
    <3> QED BY <1>2, <2>1, <3>1, <3>2 DEF Settled, HelloFinish
  <2> QED BY <1>0, <1>2, <2>1, AnnouncedOf DEF HelloFinish, ClearHello
<1>3. CASE Disconnect(p)
  <2>1. ASSUME NEW r \in Room, ~WillSync(r)', r \notin skipped' PROVE Settled(r)
    <3>1. r # room[p]
      <4>1. task'[p] = Task("leave", None, room[p], None)
        BY <1>0, <1>3 DEF Disconnect
      <4> QED BY <2>1, <4>1, WillSyncOf, TaskFields
    <3>2. Untouched(r)
      BY <1>0, <1>3, <3>1 DEF Disconnect, LosesReady, Untouched
    <3>3. task[p] = Idle /\ late'[p] = late[p]
          /\ \A q \in Player \ {p} : UNCHANGED <<task[q], late[q]>>
      BY <1>0, <1>3 DEF Disconnect, Busy
    <3>4. ~WillSync(r)
      BY <1>i, <2>1, <3>3, StillWillSync
    <3> QED BY <1>3, <2>1, <3>2, <3>4 DEF Settled, Disconnect, NoSync
  <2> QED BY <1>0, <1>3, <2>1, AnnouncedOf DEF Disconnect, NoSync
<1>4. CASE DisconnectFinish(p)
  <2>0. task[p].from = None
    BY <1>4, Known DEF DisconnectFinish, Shaped
  <2>1. ASSUME NEW r \in Room \ {task[p].to}, ~WillSync(r)', r \notin skipped' PROVE Settled(r)
    <3>1. Untouched(r)
      BY <1>4 DEF DisconnectFinish, Untouched
    <3>2. ~WillSync(r)
      <4>1. late'[p] = late[p] /\ \A q \in Player \ {p} : UNCHANGED <<task[q], late[q]>>
        BY <1>0, <1>4 DEF DisconnectFinish
      <4> QED BY <1>n, <2>0, <2>1, <4>1, StillWillSync
    <3> QED BY <1>4, <2>1, <3>1, <3>2 DEF Settled, DisconnectFinish, Sync
  <2> QED BY <1>0, <1>4, <2>1, AnnouncedOf DEF DisconnectFinish, Sync
<1>5. CASE EvictGhost(p)
  BY <1>0, <1>5, AnnouncedOf DEF EvictGhost, Sync
<1>6. ASSUME NEW z, NEW flips, Arrive(p, z, flips), NEW r, r # room[p] PROVE Untouched(r)
  <2> SUFFICES ASSUME NEW q \in Player, room[q] = r PROVE ready'[q] = ready[q]
    BY <1>6 DEF Arrive, Untouched
  <2>1. q # p /\ q \notin Others(p)
    BY <1>6 DEF Others
  <2>2. ready'[q] = (q = p \/ (ready[q] /\ ~(flips /\ q \in Others(p))))
    BY <1>6 DEF Arrive
  <2>3. ready[q] \in BOOLEAN
    BY <1>0
  <2> QED BY <2>1, <2>2, <2>3
\* Frames whose handler ends in the sync of the player's own room.
<1>7. ASSUME Sync({room[p]}), \A r \in Room : r # room[p] => Untouched(r),
             \A q \in Player \ {p} : UNCHANGED <<task[q], late[q]>>, UNCHANGED late[p],
             task[p].kind \notin {"hello", "join", "leave"}
      PROVE  AnnouncedIsCurrent'
  <2>1. ASSUME NEW r \in Room \ {room[p]}, ~WillSync(r)', r \notin skipped' PROVE Settled(r)
    <3>1. ~WillSync(r)
      BY <1>7, <2>1, StillWillSync
    <3> QED BY <1>7, <2>1, <3>1 DEF Settled, Sync
  <2> QED BY <1>0, <1>7, <2>1, AnnouncedOf DEF Sync
<1>8. CASE TimeReady(p)
  BY <1>6, <1>7, <1>8, <1>i DEF TimeReady, Receive, Busy
<1>9. CASE TimeReadyLeave(p)
  <2>1. ASSUME NEW r \in Room, ~WillSync(r)', r \notin skipped' PROVE Settled(r)
    <3>1. task[p] = Idle /\ late'[p] = late[p]
          /\ \A q \in Player \ {p} : UNCHANGED <<task[q], late[q]>>
      BY <1>0, <1>9 DEF TimeReadyLeave, Receive, Busy
    <3>2. ~WillSync(r)
      BY <1>i, <2>1, <3>1, StillWillSync
    <3> QED BY <1>9, <2>1, <3>2 DEF Settled, TimeReadyLeave, NoSync, Untouched
  <2> QED BY <1>0, <1>9, <2>1, AnnouncedOf DEF TimeReadyLeave, NoSync
<1>10. CASE TimeReadyArrive(p)
  <2>1. \A q \in Player \ {p} : UNCHANGED <<task[q], late[q]>>
    BY <1>0, <1>10 DEF TimeReadyArrive
  <2> QED BY <1>6, <1>7, <1>10, <2>1 DEF TimeReadyArrive
<1>11. CASE TimeUnready(p)
  <2>1. \A r \in Room : r # room[p] => Untouched(r)
    BY <1>0, <1>11 DEF TimeUnready, Untouched
  <2> QED BY <1>7, <1>11, <1>i, <2>1 DEF TimeUnready, Receive, Busy
<1>12. CASE TimeSpeed(p)
  <2>1. \A r \in Room : r # room[p] => Untouched(r)
    BY <1>0, <1>12 DEF TimeSpeed, Untouched
  <2> QED BY <1>7, <1>12, <1>i, <2>1 DEF TimeSpeed, Receive, Busy
<1>13. CASE JoinRoom(p)
  <2>1. ASSUME NEW r \in Room, ~WillSync(r)', r \notin skipped' PROVE Settled(r)
    <3>1. task'[p] = Task("join", room[p], Arg(p), None) /\ task[p] = Idle /\ late'[p] = late[p]
          /\ \A q \in Player \ {p} : UNCHANGED <<task[q], late[q]>>
      BY <1>0, <1>13 DEF JoinRoom, Receive, Busy
    <3>2. r # room[p] /\ r # Arg(p)
      BY <2>1, <3>1, WillSyncOf, TaskFields
    <3>3. Untouched(r)
      BY <1>0, <1>13, <3>2 DEF JoinRoom, Untouched
    <3>4. ~WillSync(r)
      BY <1>i, <2>1, <3>1, StillWillSync
    <3> QED BY <1>13, <2>1, <3>3, <3>4 DEF Settled, JoinRoom, NoSync
  <2> QED BY <1>0, <1>13, <2>1, AnnouncedOf DEF JoinRoom, NoSync
<1>14. CASE JoinRoomFinish(p)
  <2> DEFINE R == {task[p].from, task[p].to}
  <2>0. task[p].to = room[p]
    BY <1>14, Known DEF JoinRoomFinish
  <2>1. ASSUME NEW r \in Room \ R, ~WillSync(r)', r \notin skipped' PROVE Settled(r)
    <3>1. Untouched(r)
      BY <1>0, <1>14, <2>0 DEF JoinRoomFinish, ClearJoin, Untouched
    <3>2. ~WillSync(r)
      <4>1. late'[p] = late[p] /\ \A q \in Player \ {p} : UNCHANGED <<task[q], late[q]>>
        BY <1>0, <1>14 DEF JoinRoomFinish
      <4> QED BY <2>1, <4>1, StillWillSync
    <3> QED BY <1>14, <2>1, <3>1, <3>2 DEF Settled, JoinRoomFinish
  <2> QED BY <1>0, <1>14, <2>1, AnnouncedOf DEF JoinRoomFinish, ClearJoin
<1>15. CASE JoinRoomDies(p)
  <2>1. ASSUME NEW r \in Room, ~WillSync(r)', r \notin skipped' PROVE Settled(r)
    <3>1. task'[p] = Task("leave", None, Arg(p), None) /\ task[p] = Idle /\ late'[p] = late[p]
          /\ \A q \in Player \ {p} : UNCHANGED <<task[q], late[q]>>
      BY <1>0, <1>15 DEF JoinRoomDies, Receive, Busy
    <3>2. r # Arg(p)
      BY <2>1, <3>1, WillSyncOf, TaskFields
    <3>3. r # room[p]
      BY <1>15, <2>1, <3>2 DEF JoinRoomDies
    <3>4. Untouched(r)
      BY <1>0, <1>15, <3>2, <3>3 DEF JoinRoomDies, LosesReady, Untouched
    <3>5. ~WillSync(r)
      BY <1>i, <2>1, <3>1, StillWillSync
    <3> QED BY <1>15, <2>1, <3>4, <3>5 DEF Settled, JoinRoomDies
  <2> QED BY <1>0, <1>15, <2>1, AnnouncedOf DEF JoinRoomDies
<1>16. CASE LateFinish(p)
  <2> DEFINE t == late[p]
             told == {t.from, t.to} \ {None}
  <2>1. /\ late'[p] = Idle /\ UNCHANGED task /\ Shaped(t)
        /\ \A q \in Player \ {p} : UNCHANGED late[q]
    BY <1>0, <1>16, Known DEF LateFinish
  <2>2. ASSUME NEW r \in Room \ told, ~WillSync(r)' PROVE ~WillSync(r)
    <3>1. r # t.from /\ r # t.to
      BY <1>n, <2>2
    <3> QED BY <2>1, <2>2, <3>1, StillWillSync
  <2>3. CASE t.kind = "hello" /\ ClearHello(p, t.to)
             /\ skipped' = (skipped \ told) \cup ({room[p]} \ told)
    <3>1. told = {t.to}
      BY <1>n, <2>1, <2>3 DEF Shaped
    <3>2. ASSUME NEW r \in Room \ told, ~WillSync(r)', r \notin skipped' PROVE Settled(r)
      <4>1. Untouched(r)
        BY <1>0, <2>3, <3>2 DEF ClearHello, Untouched
      <4> QED BY <2>2, <2>3, <3>2, <4>1 DEF Settled
    <3> QED BY <1>0, <2>3, <3>1, <3>2, AnnouncedOf DEF ClearHello
  <2>4. CASE t.kind = "join" /\ ClearJoin(p, t.from, t.to)
             /\ skipped' = (skipped \ told) \cup ({room[p]} \ told)
    <3>1. told = {t.from, t.to}
      BY <1>n, <2>1, <2>4 DEF Shaped
    <3>2. ASSUME NEW r \in Room \ told, ~WillSync(r)', r \notin skipped' PROVE Settled(r)
      <4>1. Untouched(r)
        BY <1>0, <2>4, <3>2 DEF ClearJoin, Untouched
      <4> QED BY <2>2, <2>4, <3>2, <4>1 DEF Settled
    <3> QED BY <1>0, <2>4, <3>1, <3>2, AnnouncedOf DEF ClearJoin
  <2>5. CASE UNCHANGED session /\ Announce(told) /\ skipped' = (skipped \ told)
    <3>1. ASSUME NEW r \in Room \ told, ~WillSync(r)', r \notin skipped' PROVE Settled(r)
      BY <2>2, <2>5, <3>1 DEF Settled, Untouched
    <3> QED BY <1>0, <2>5, <3>1, AnnouncedOf
  <2>6. CASE t.kind = "travel" /\ Arrive(p, t.zone, TRUE) /\ UNCHANGED heard
             /\ skipped' = (skipped \ told) \cup ({room[p]} \ told)
    <3>1. told = {}
      BY <2>1, <2>6 DEF Shaped
    <3>2. ASSUME NEW r \in Room, ~WillSync(r)', r \notin skipped' PROVE Settled(r)
      BY <1>6, <2>2, <2>6, <3>1, <3>2 DEF Settled
    <3> QED BY <1>0, <2>6, <3>2, AnnouncedOf
  <2> QED
    <3>1. CASE t.kind \in {"hello", "join"}
               /\ IF t.kind = "hello" THEN ClearHello(p, t.to) ELSE ClearJoin(p, t.from, t.to)
      BY <1>16, <2>3, <2>4, <3>1 DEF LateFinish
    <3>2. CASE t.kind = "leave" /\ UNCHANGED <<session, history>> /\ Announce(told)
      <4>1. skipped' = skipped \ told
        BY <1>16, <3>2 DEF LateFinish
      <4> QED BY <2>5, <3>2, <4>1
    <3>3. CASE t.kind = "travel" /\ Arrive(p, t.zone, TRUE) /\ UNCHANGED heard
      BY <1>16, <2>6, <3>3 DEF LateFinish
    <3> QED BY <1>16, <3>1, <3>2, <3>3 DEF LateFinish
<1> QED
  BY <1>1, <1>2, <1>3, <1>4, <1>5, <1>8, <1>9, <1>10, <1>11, <1>12, <1>13, <1>14, <1>15, <1>16
  DEF ServerNext

\* In every reachable state the last TIME_SYNC sent to a connected player
\* tells its room's gate and speed as they are, unless a suspended handler is
\* about to announce the room or a handler died before it could.
THEOREM AnnouncementsCurrent == Spec => []AnnouncedIsCurrent
<1>1. Base /\ AnnouncedIsCurrent /\ [Next]_vars => AnnouncedIsCurrent'
  <2> SUFFICES ASSUME Base, AnnouncedIsCurrent, [Next]_vars PROVE AnnouncedIsCurrent'
    OBVIOUS
  <2>1. ASSUME NEW p \in Player, ClientNext(p) PROVE AnnouncedIsCurrent'
    BY <2>1, ClientLeavesServer DEF session, AnnouncedIsCurrent, WillSync
  <2>2. CASE UNCHANGED vars
    BY <2>2 DEF vars, session, AnnouncedIsCurrent, WillSync
  <2>3. ASSUME NEW p \in Player, ServerNext(p) PROVE AnnouncedIsCurrent'
    BY <2>3, ServerBase, AnnouncedServer
  <2> QED BY <2>1, <2>2, <2>3 DEF Next
<1>2. Init => Base /\ AnnouncedIsCurrent
  BY InitBase, AnnouncedInit
<1>3. Base /\ [Next]_vars => Base'
  BY BaseStep
<1> QED BY <1>1, <1>2, <1>3, PTL DEF Spec

-----------------------------------------------------------------------------
\* Frames in flight.

\* A frame of this type is in w, after place i.
Later(w, i, type) == \E j \in DOMAIN w : j > i /\ w[j].type = type

\* After every frame of the one type comes one of the other.
Followed(w, type, next) == \A i \in DOMAIN w : w[i].type = type => Later(w, i, next)

LEMMA SentLater ==
  ASSUME NEW w \in Seq(Frames), NEW f \in Frames, NEW a, NEW b
  PROVE  /\ Later(w, 0, a) => Later(Append(w, f), 0, a)
         /\ f.type = a => Later(Append(w, f), 0, a)
         /\ Followed(w, a, b) /\ f.type # a => Followed(Append(w, f), a, b)
         /\ f.type = b /\ a # b => Followed(Append(w, f), a, b)
<1> DEFINE v == Append(w, f)
<1>1. /\ v \in Seq(Frames) /\ Len(v) = Len(w) + 1 /\ Len(w) \in Nat
      /\ \A i \in 1..Len(w) : v[i] = w[i]
      /\ v[Len(w) + 1] = f
  OBVIOUS
<1>2. DOMAIN v = 1..(Len(w) + 1) /\ DOMAIN w = 1..Len(w)
  BY <1>1
<1> HIDE DEF v
<1>3. \A i \in 0..Len(w) : \A c : Later(w, i, c) => Later(v, i, c)
  BY <1>1, <1>2 DEF Later
<1>4. \A i \in 0..Len(w) : Later(v, i, f.type)
  BY <1>1, <1>2 DEF Later
<1>5. Followed(w, a, b) /\ f.type # a => Followed(v, a, b)
  <2> SUFFICES ASSUME Followed(w, a, b), f.type # a, NEW i \in DOMAIN v, v[i].type = a
               PROVE  Later(v, i, b)
    BY DEF Followed
  <2>1. i \in 1..Len(w)
    BY <1>1, <1>2
  <2> QED BY <1>1, <1>2, <1>3, <2>1 DEF Followed
<1>6. f.type = b /\ a # b => Followed(v, a, b)
  <2> SUFFICES ASSUME f.type = b, a # b, NEW i \in DOMAIN v, v[i].type = a
               PROVE  Later(v, i, b)
    BY DEF Followed
  <2>1. i \in 1..Len(w)
    BY <1>1, <1>2
  <2> QED BY <1>4, <2>1
<1> QED BY <1>1, <1>3, <1>4, <1>5, <1>6 DEF v

LEMMA ReadLater ==
  ASSUME NEW w \in Seq(Frames), w # <<>>, NEW a, NEW b
  PROVE  /\ Later(w, 0, a) /\ Head(w).type # a => Later(Tail(w), 0, a)
         /\ Followed(w, a, b) /\ Head(w).type = a => Later(Tail(w), 0, b)
         /\ Followed(w, a, b) => Followed(Tail(w), a, b)
<1> DEFINE v == Tail(w)
<1>1. /\ Len(w) \in Nat \ {0} /\ DOMAIN w = 1..Len(w) /\ DOMAIN v = 1..(Len(w) - 1)
      /\ \A i \in 1..(Len(w) - 1) : v[i] = w[i + 1]
      /\ Head(w) = w[1]
  OBVIOUS
<1> HIDE DEF v
<1>2. \A i \in 1..Len(w) : \A c : Later(w, i, c) => Later(v, i - 1, c)
  <2> SUFFICES ASSUME NEW i \in 1..Len(w), NEW c, Later(w, i, c) PROVE Later(v, i - 1, c)
    OBVIOUS
  <2>1. PICK j \in DOMAIN w : j > i /\ w[j].type = c
    BY DEF Later
  <2>2. j - 1 \in DOMAIN v /\ j - 1 > i - 1 /\ v[j - 1] = w[j]
    BY <1>1, <2>1
  <2> QED BY <2>1, <2>2 DEF Later
<1>3. ASSUME Later(w, 0, a), Head(w).type # a PROVE Later(v, 0, a)
  <2>1. PICK j \in DOMAIN w : j > 0 /\ w[j].type = a
    BY <1>3 DEF Later
  <2>2. j # 1
    BY <1>1, <1>3, <2>1
  <2>3. j - 1 \in DOMAIN v /\ j - 1 > 0 /\ v[j - 1] = w[j]
    BY <1>1, <2>1, <2>2
  <2> QED BY <2>1, <2>3 DEF Later
<1>4. Followed(w, a, b) /\ Head(w).type = a => Later(v, 0, b)
  <2> SUFFICES ASSUME Followed(w, a, b), Head(w).type = a PROVE Later(v, 0, b)
    OBVIOUS
  <2>1. Later(w, 1, b)
    BY <1>1 DEF Followed
  <2>2. Later(v, 1 - 1, b)
    BY <1>1, <1>2, <2>1
  <2> QED BY <2>2
<1>5. Followed(w, a, b) => Followed(v, a, b)
  <2> SUFFICES ASSUME Followed(w, a, b), NEW i \in DOMAIN v, v[i].type = a PROVE Later(v, i, b)
    BY DEF Followed
  <2>1. i + 1 \in 1..Len(w) /\ w[i + 1] = v[i]
    BY <1>1
  <2>2. Later(w, i + 1, b)
    BY <1>1, <2>1 DEF Followed
  <2>3. Later(v, (i + 1) - 1, b) /\ (i + 1) - 1 = i
    BY <1>1, <1>2, <2>1, <2>2
  <2> QED BY <2>3
<1> QED BY <1>3, <1>4, <1>5 DEF v

\* A frame sent and a frame read, for the wires of all.
LEMMA WireSent ==
  ASSUME Base, NEW p \in Player, NEW type, NEW arg, Frame(type, arg) \in Frames,
         SendFrame(p, type, arg), NEW a, NEW b
  PROVE  /\ \A q \in Player \ {p} : wire'[q] = wire[q]
         /\ Later(wire[p], 0, a) => Later(wire'[p], 0, a)
         /\ type = a => Later(wire'[p], 0, a)
         /\ Followed(wire[p], a, b) /\ type # a => Followed(wire'[p], a, b)
         /\ type = b /\ a # b => Followed(wire'[p], a, b)
<1>1. wire \in [Player -> Seq(Frames)]
  BY DEF Base, TypeOK
<1>2. wire'[p] = Append(wire[p], Frame(type, arg)) /\ \A q \in Player \ {p} : wire'[q] = wire[q]
  BY <1>1 DEF SendFrame
<1> DEFINE w == wire[p]
           f == Frame(type, arg)
<1>3. w \in Seq(Frames) /\ f \in Frames /\ f.type = type /\ wire'[p] = Append(w, f)
  BY <1>1, <1>2, FrameFields
<1> HIDE DEF f
<1>4. /\ Later(w, 0, a) => Later(Append(w, f), 0, a)
      /\ f.type = a => Later(Append(w, f), 0, a)
      /\ Followed(w, a, b) /\ f.type # a => Followed(Append(w, f), a, b)
      /\ f.type = b /\ a # b => Followed(Append(w, f), a, b)
  BY <1>3, SentLater
<1> QED BY <1>2, <1>3, <1>4

LEMMA WireRead ==
  ASSUME Base, NEW p \in Player, NEW type, Receive(p, type), NEW a, NEW b
  PROVE  /\ \A q \in Player \ {p} : wire'[q] = wire[q]
         /\ Later(wire[p], 0, a) /\ type # a => Later(wire'[p], 0, a)
         /\ Followed(wire[p], a, b) /\ type = a => Later(wire'[p], 0, b)
         /\ Followed(wire[p], a, b) => Followed(wire'[p], a, b)
<1>1. wire \in [Player -> Seq(Frames)]
  BY DEF Base, TypeOK
<1>2. wire[p] # <<>> /\ Head(wire[p]).type = type
      /\ wire'[p] = Tail(wire[p]) /\ \A q \in Player \ {p} : wire'[q] = wire[q]
  BY <1>1 DEF Receive
<1> QED BY <1>1, <1>2, ReadLater

-----------------------------------------------------------------------------
\* Readiness that outlives the zone.  A client that is counted ready, or will
\* be by a TIME_READY under way, still owes the server a TIME_UNREADY or has
\* sent it after.

Owing(q) == sent[q] /\ ~unsent[q]

TakesBack(q) == Owing(q) \/ Later(wire[q], 0, "TIME_UNREADY")

HonestOf(q) ==
  link[q] = "up" /\ q \notin vouched =>
    /\ Owing(q) \/ Followed(wire[q], "TIME_READY", "TIME_UNREADY")
    /\ greeted[q] /\ task[q].kind = "travel" => TakesBack(q)
    /\ /\ greeted[q] /\ seat[q] = "live" /\ task[q].kind # "hello"
       /\ ready[q] /\ q \notin revived
       => TakesBack(q)

Honest == \A q \in Player : HonestOf(q)

LEMMA HonestAhead == Honest => NobodyPlaysAhead
BY DEF Honest, HonestOf, TakesBack, Owing, Later, NobodyPlaysAhead

LEMMA HonestInit == Init => Honest
BY DEF Init, Honest, HonestOf

\* What concerns player q in Honest.
HonestSame(q) ==
  /\ UNCHANGED <<link[q], greeted[q], wire[q], sent[q], unsent[q], task[q], seat[q]>>
  /\ ready'[q] => ready[q]
  /\ q \in vouched => q \in vouched'
  /\ q \in revived => q \in revived'

LEMMA HonestKept ==
  ASSUME NEW q \in Player, HonestOf(q), HonestSame(q)
  PROVE  HonestOf(q)'
BY DEF HonestOf, HonestSame, TakesBack, Owing

LEMMA HonestOthers ==
  ASSUME Honest, NEW p \in Player, \A q \in Player \ {p} : HonestSame(q), HonestOf(p)'
  PROVE  Honest'
<1>1. \A q \in Player \ {p} : HonestOf(q)'
  BY HonestKept DEF Honest
<1> QED BY <1>1 DEF Honest

LEMMA HonestClient ==
  ASSUME Base, Honest, NEW p \in Player, ClientNext(p)
  PROVE  Honest'
<1> USE DEF session, client, net, history
<1>0. /\ link \in [Player -> {"down", "up"}] /\ greeted \in [Player -> BOOLEAN]
      /\ wire \in [Player -> Seq(Frames)] /\ sent \in [Player -> BOOLEAN]
      /\ unsent \in [Player -> BOOLEAN] /\ game \in [Player -> Zone \cup {None}]
  BY DEF Base, TypeOK
<1>h. HonestOf(p)
  BY DEF Honest
<1>1. ASSUME NEW z \in Zone \cup {None}, PlayZone(p, z) PROVE Honest'
  BY <1>1, <1>h, HonestKept, HonestOthers DEF PlayZone, HonestSame
<1>2. CASE TickQuiet(p)
  <2>1. \A q \in Player \ {p} : HonestSame(q)
    BY <1>0, <1>2 DEF TickQuiet, HonestSame
  <2>2. HonestOf(p)'
    <3>1. CASE link[p] = "down"
      BY <1>2, <3>1 DEF TickQuiet, HonestOf
    <3>2. CASE sent[p] /\ link[p] = "up"
      BY <1>2, <3>2 DEF TickQuiet, HonestOf
    <3>3. CASE ~sent[p] /\ link[p] = "up"
      <4>1. HonestSame(p)
        BY <1>0, <1>2, <3>3 DEF TickQuiet, HonestSame
      <4> QED BY <4>1, <1>h, HonestKept
    <3> QED BY <1>0, <3>1, <3>2, <3>3
  <2> QED BY <2>1, <2>2, HonestOthers
<1>3. CASE TickAway(p)
  <2>1. SendFrame(p, "TIME_UNREADY", 0)
    BY <1>3 DEF TickAway
  <2>2. /\ \A q \in Player \ {p} : wire'[q] = wire[q]
        /\ Later(wire'[p], 0, "TIME_UNREADY")
        /\ Followed(wire'[p], "TIME_READY", "TIME_UNREADY")
    BY <2>1, WireSent, FramesMade
  <2>3. \A q \in Player \ {p} : HonestSame(q)
    BY <1>0, <1>3, <2>2 DEF TickAway, HonestSame
  <2>4. HonestOf(p)'
    BY <2>2 DEF HonestOf, TakesBack
  <2> QED BY <2>3, <2>4, HonestOthers
<1>4. CASE TickPlaying(p)
  <2>1. game[p] \in Zone /\ SendFrame(p, "TIME_READY", game[p])
    BY <1>0, <1>4 DEF TickPlaying
  <2>2. \A q \in Player \ {p} : wire'[q] = wire[q]
    BY <2>1, WireSent, FramesMade
  <2>3. \A q \in Player \ {p} : HonestSame(q)
    BY <1>0, <1>4, <2>2 DEF TickPlaying, HonestSame
  <2>4. Owing(p)'
    BY <1>0, <1>4 DEF TickPlaying, Owing
  <2> QED BY <2>3, <2>4, HonestOthers DEF HonestOf, TakesBack
<1>5. CASE TickSettled(p)
  <2>1. \A q \in Player \ {p} : HonestSame(q)
    BY <1>0, <1>5 DEF TickSettled, HonestSame
  <2>2. Owing(p)'
    BY <1>0, <1>5 DEF TickSettled, StillSent, Owing
  <2> QED BY <2>1, <2>2, HonestOthers DEF HonestOf, TakesBack
<1>6. ASSUME NEW z \in Zone, MarkReady(p, z) PROVE Honest'
  <2>1. SendFrame(p, "TIME_READY", z)
    BY <1>6 DEF MarkReady
  <2>2. \A q \in Player \ {p} : wire'[q] = wire[q]
    BY <2>1, WireSent, FramesMade
  <2>3. \A q \in Player \ {p} : HonestSame(q)
    BY <1>0, <1>6, <2>2 DEF MarkReady, HonestSame
  <2>4. p \in vouched' \/ Owing(p)'
    BY <1>0, <1>6 DEF MarkReady, Owing
  <2> QED BY <2>3, <2>4, HonestOthers DEF HonestOf, TakesBack
\* Frames that say nothing about readiness.
<1>7. ASSUME NEW type \in {"JOIN_ROOM", "TIME_SPEED"}, NEW arg, Frame(type, arg) \in Frames,
             SendFrame(p, type, arg),
             UNCHANGED <<link, greeted, sent, unsent, task, seat, ready, vouched, revived>>
      PROVE  Honest'
  <2>1. /\ \A q \in Player \ {p} : wire'[q] = wire[q]
        /\ Later(wire[p], 0, "TIME_UNREADY") => Later(wire'[p], 0, "TIME_UNREADY")
        /\ Followed(wire[p], "TIME_READY", "TIME_UNREADY")
             => Followed(wire'[p], "TIME_READY", "TIME_UNREADY")
    BY <1>7, WireSent
  <2>2. \A q \in Player \ {p} : HonestSame(q)
    BY <1>7, <2>1 DEF HonestSame
  <2>3. HonestOf(p)'
    BY <1>7, <1>h, <2>1 DEF HonestOf, TakesBack, Owing
  <2> QED BY <2>2, <2>3, HonestOthers
<1>8. ASSUME NEW r \in Room, TypeJoin(p, r) PROVE Honest'
  BY <1>7, <1>8, FramesMade DEF TypeJoin
<1>9. ASSUME NEW s \in {0, 1}, ChangeSpeed(p, s) PROVE Honest'
  BY <1>7, <1>9, FramesMade DEF ChangeSpeed
<1>10. CASE Connect(p)
  <2>1. \A q \in Player \ {p} : HonestSame(q)
    BY <1>0, <1>10 DEF Connect, HonestSame
  <2>2. ~greeted'[p] /\ wire'[p] = <<>>
    BY <1>0, <1>10 DEF Connect
  <2>3. HonestOf(p)'
    BY <2>2 DEF HonestOf, Followed
  <2> QED BY <2>1, <2>3, HonestOthers
<1>11. CASE Drop(p)
  <2>1. \A q \in Player \ {p} : HonestSame(q)
    BY <1>0, <1>11 DEF Drop, HonestSame
  <2>2. link'[p] = "down"
    BY <1>0, <1>11 DEF Drop
  <2> QED BY <2>1, <2>2, HonestOthers DEF HonestOf
<1> QED
  BY <1>1, <1>2, <1>3, <1>4, <1>5, <1>6, <1>8, <1>9, <1>10, <1>11 DEF ClientNext

\* After a TIME_READY by p for a zone of its own or another.
LEMMA ArriveOthers ==
  ASSUME Base, NEW p \in Player, NEW z, NEW flips, Arrive(p, z, flips)
  PROVE  \A q \in Player \ {p} :
           /\ ready'[q] => ready[q]
           /\ ready[q] /\ ~ready'[q] => q \in forgotten'
           /\ q \in forgotten => q \in forgotten'
<1> SUFFICES ASSUME NEW q \in Player \ {p}
             PROVE  /\ ready'[q] => ready[q]
                    /\ ready[q] /\ ~ready'[q] => q \in forgotten'
                    /\ q \in forgotten => q \in forgotten'
  OBVIOUS
<1>1. ready'[q] <=> ready[q] /\ ~(flips /\ q \in Others(p))
  <2>1. ready[q] \in BOOLEAN
    BY DEF Base, TypeOK
  <2>2. ready'[q] = (q = p \/ (ready[q] /\ ~(flips /\ q \in Others(p))))
    BY DEF Arrive
  <2> QED BY <2>1, <2>2
<1>2. forgotten' = (forgotten \ {p}) \cup (IF flips THEN {x \in Others(p) : ready[x]} ELSE {})
  BY DEF Arrive
<1> QED BY <1>1, <1>2

LEMMA HonestServer ==
  ASSUME Base, Honest, NEW p \in Player, ServerNext(p)
  PROVE  Honest'
<1> USE DEF session, client, net, history
<1>0. /\ link \in [Player -> {"down", "up"}] /\ greeted \in [Player -> BOOLEAN]
      /\ wire \in [Player -> Seq(Frames)] /\ ready \in [Player -> BOOLEAN]
      /\ seat \in [Player -> {"none", "live", "ghost"}]
      /\ task \in [Player -> Tasks] /\ late \in [Player -> Tasks]
  BY DEF Base, TypeOK
<1>h. HonestOf(p)
  BY DEF Honest
<1>i. Idle.kind = "idle"
  BY TasksMade
\* The handlers that leave p not ready, its wire alone and no TIME_READY suspended.
<1>1. ASSUME UNCHANGED <<link, wire, sent, unsent, vouched>>,
             ~ready'[p] \/ seat'[p] # "live" \/ task'[p].kind = "hello",
             task'[p].kind # "travel",
             \A q \in Player \ {p} : HonestSame(q)
      PROVE  Honest'
  <2>1. HonestOf(p)'
    BY <1>1, <1>h DEF HonestOf, TakesBack, Owing
  <2> QED BY <1>1, <2>1, HonestOthers
<1>2. CASE Hello(p)
  <2>1. \A q \in Player \ {p} : HonestSame(q)
    BY <1>0, <1>2 DEF Hello, HonestSame
  <2>2. task'[p].kind = "hello"
    BY <1>0, <1>2, TaskFields DEF Hello
  <2> QED BY <1>1, <1>2, <2>1, <2>2 DEF Hello
<1>3. CASE HelloFinish(p)
  <2>1. \A q \in Player \ {p} : HonestSame(q)
    BY <1>0, <1>3 DEF HelloFinish, ClearHello, HonestSame
  <2>2. task'[p].kind = "idle" /\ ~ready'[p]
    BY <1>0, <1>3, <1>i DEF HelloFinish, ClearHello
  <2> QED BY <1>1, <1>3, <2>1, <2>2 DEF HelloFinish
<1>4. CASE Disconnect(p)
  <2>1. \A q \in Player \ {p} : HonestSame(q)
    BY <1>0, <1>4 DEF Disconnect, LosesReady, HonestSame
  <2>2. task'[p].kind = "leave" /\ seat'[p] = "ghost"
    BY <1>0, <1>4, TaskFields DEF Disconnect
  <2> QED BY <1>1, <1>4, <2>1, <2>2 DEF Disconnect
<1>5. CASE DisconnectFinish(p)
  <2>1. \A q \in Player \ {p} : HonestSame(q)
    BY <1>0, <1>5 DEF DisconnectFinish, HonestSame
  <2>2. task'[p].kind = "idle" /\ seat'[p] = "ghost"
    BY <1>0, <1>5, <1>i, Known DEF DisconnectFinish
  <2> QED BY <1>1, <1>5, <2>1, <2>2 DEF DisconnectFinish
<1>6. CASE EvictGhost(p)
  <2>1. \A q \in Player \ {p} : HonestSame(q)
    BY <1>0, <1>6 DEF EvictGhost, LosesReady, HonestSame
  <2>2. task'[p].kind = "idle" /\ seat'[p] = "none"
    BY <1>0, <1>6, <1>i DEF EvictGhost, Busy
  <2> QED BY <1>1, <1>6, <2>1, <2>2 DEF EvictGhost
\* What reading a frame does to the wire of p.
<1>7. ASSUME NEW type, Receive(p, type)
      PROVE  /\ \A q \in Player \ {p} : wire'[q] = wire[q]
             /\ Followed(wire[p], "TIME_READY", "TIME_UNREADY")
                  => Followed(wire'[p], "TIME_READY", "TIME_UNREADY")
             /\ Followed(wire[p], "TIME_READY", "TIME_UNREADY") /\ type = "TIME_READY"
                  => Later(wire'[p], 0, "TIME_UNREADY")
             /\ Later(wire[p], 0, "TIME_UNREADY") /\ type # "TIME_UNREADY"
                  => Later(wire'[p], 0, "TIME_UNREADY")
             /\ task[p].kind = "idle" /\ seat[p] = "live" /\ greeted[p]
             /\ UNCHANGED <<link, greeted>>
  BY <1>7, <1>i, WireRead DEF Receive, Busy
<1>8. CASE TimeReady(p)
  <2>1. Receive(p, "TIME_READY") /\ Arrive(p, Arg(p), Flips(p, Arg(p)))
    BY <1>8 DEF TimeReady
  <2>2. \A q \in Player \ {p} : HonestSame(q)
    BY <1>7, <1>8, <2>1, ArriveOthers, ArriveReady DEF TimeReady, HonestSame
  <2>3. HonestOf(p)'
    BY <1>7, <1>8, <1>h, <2>1 DEF TimeReady, HonestOf, TakesBack, Owing
  <2> QED BY <2>2, <2>3, HonestOthers
<1>9. CASE TimeReadyLeave(p)
  <2>1. Receive(p, "TIME_READY")
    BY <1>9 DEF TimeReadyLeave
  <2>2. \A q \in Player \ {p} : HonestSame(q)
    BY <1>0, <1>7, <1>9, <2>1 DEF TimeReadyLeave, HonestSame
  <2>3. HonestOf(p)'
    BY <1>7, <1>9, <1>h, <2>1 DEF TimeReadyLeave, HonestOf, TakesBack, Owing
  <2> QED BY <2>2, <2>3, HonestOthers
<1>10. CASE TimeReadyArrive(p)
  <2>1. Arrive(p, task[p].zone, TRUE) /\ task' = [task EXCEPT ![p] = Idle]
        /\ UNCHANGED <<late, client, net, trouble, vouched, revived>>
    BY <1>10 DEF TimeReadyArrive
  <2>2. \A q \in Player \ {p} : HonestSame(q)
    BY <1>0, <2>1, ArriveOthers, ArriveReady DEF HonestSame
  <2>3. task'[p].kind = "idle" /\ task[p].kind = "travel"
    BY <1>0, <1>10, <2>1, <1>i DEF TimeReadyArrive
  <2>4. HonestOf(p)'
    BY <1>h, <2>1, <2>3 DEF HonestOf, TakesBack, Owing
  <2> QED BY <2>2, <2>4, HonestOthers
<1>11. CASE TimeUnready(p)
  <2>1. Receive(p, "TIME_UNREADY")
    BY <1>11 DEF TimeUnready
  <2>2. \A q \in Player \ {p} : HonestSame(q)
    BY <1>0, <1>7, <1>11, <2>1 DEF TimeUnready, HonestSame
  <2>3. ~ready'[p]
    BY <1>0, <1>11 DEF TimeUnready
  <2>4. HonestOf(p)'
    BY <1>7, <1>11, <1>h, <2>1, <2>3 DEF TimeUnready, HonestOf, TakesBack, Owing
  <2> QED BY <2>2, <2>4, HonestOthers
<1>12. CASE TimeSpeed(p)
  <2>1. Receive(p, "TIME_SPEED")
    BY <1>12 DEF TimeSpeed
  <2>2. \A q \in Player \ {p} : HonestSame(q)
    BY <1>7, <1>12, <2>1 DEF TimeSpeed, HonestSame
  <2>3. HonestOf(p)'
    BY <1>7, <1>12, <1>h, <2>1 DEF TimeSpeed, HonestOf, TakesBack, Owing
  <2> QED BY <2>2, <2>3, HonestOthers
<1>13. CASE JoinRoom(p)
  <2>1. Receive(p, "JOIN_ROOM")
    BY <1>13 DEF JoinRoom
  <2>2. \A q \in Player \ {p} : HonestSame(q)
    BY <1>0, <1>7, <1>13, <2>1 DEF JoinRoom, HonestSame
  <2>3. task'[p].kind = "join"
    BY <1>0, <1>13, TaskFields DEF JoinRoom
  <2>4. HonestOf(p)'
    BY <1>7, <1>13, <1>h, <2>1, <2>3 DEF JoinRoom, HonestOf, TakesBack, Owing
  <2> QED BY <2>2, <2>4, HonestOthers
<1>14. CASE JoinRoomFinish(p)
  <2>1. \A q \in Player \ {p} : HonestSame(q)
    BY <1>0, <1>14 DEF JoinRoomFinish, ClearJoin, HonestSame
  <2>2. task'[p].kind = "idle" /\ ~ready'[p]
    BY <1>0, <1>14, <1>i DEF JoinRoomFinish, ClearJoin
  <2> QED BY <1>1, <1>14, <2>1, <2>2 DEF JoinRoomFinish
<1>15. CASE JoinRoomDies(p)
  <2>1. Receive(p, "JOIN_ROOM") /\ link[p] = "down"
    BY <1>15 DEF JoinRoomDies
  <2>2. \A q \in Player \ {p} : HonestSame(q)
    BY <1>0, <1>7, <1>15, <2>1 DEF JoinRoomDies, LosesReady, HonestSame
  <2>3. link'[p] = "down"
    BY <2>1 DEF Receive
  <2> QED BY <2>2, <2>3, HonestOthers DEF HonestOf
<1>16. CASE LateFinish(p)
  <2>0. /\ UNCHANGED <<task, client, net, vouched>>
        /\ seat' = seat
    BY <1>16 DEF LateFinish, ClearHello, ClearJoin, Arrive
  <2>1. CASE (ClearHello(p, late[p].to) \/ ClearJoin(p, late[p].from, late[p].to))
             /\ UNCHANGED revived
    <3>1. \A q \in Player : HonestSame(q)
      BY <1>0, <2>0, <2>1 DEF ClearHello, ClearJoin, HonestSame
    <3> QED BY <1>h, <3>1, HonestKept, HonestOthers
  <2>2. CASE UNCHANGED <<session, history>>
    <3>1. \A q \in Player : HonestSame(q)
      BY <2>0, <2>2 DEF HonestSame
    <3> QED BY <1>h, <3>1, HonestKept, HonestOthers
  <2>3. CASE Arrive(p, late[p].zone, TRUE) /\ revived' = revived \cup {p}
    <3>1. \A q \in Player \ {p} : HonestSame(q)
      BY <2>0, <2>3, ArriveOthers DEF HonestSame
    <3>2. HonestOf(p)'
      BY <1>h, <2>0, <2>3 DEF HonestOf, TakesBack, Owing
    <3> QED BY <3>1, <3>2, HonestOthers
  <2> QED BY <1>16, <2>1, <2>2, <2>3 DEF LateFinish
<1> QED
  BY <1>2, <1>3, <1>4, <1>5, <1>6, <1>8, <1>9, <1>10, <1>11, <1>12, <1>13, <1>14, <1>15, <1>16
  DEF ServerNext

\* In every reachable state a connected player that counts as ready plays in
\* a running zone, or its client will send, or has sent, TIME_UNREADY; the
\* exceptions are the readiness typed by hand (or whose WELCOME came late)
\* and the one written by a handler that outlived its connection.
THEOREM NobodyRunsAhead == Spec => []NobodyPlaysAhead
<1>1. Base /\ Honest /\ [Next]_vars => Honest'
  <2> SUFFICES ASSUME Base, Honest, [Next]_vars PROVE Honest'
    OBVIOUS
  <2>1. CASE UNCHANGED vars
    <3>1. \A q \in Player : HonestSame(q)
      BY <2>1 DEF vars, session, client, net, history, HonestSame
    <3> QED BY <3>1, HonestKept DEF Honest
  <2> QED BY <2>1, HonestClient, HonestServer DEF Next
<1>2. Init => Base /\ Honest
  BY InitBase, HonestInit
<1>3. Base /\ [Next]_vars => Base'
  BY BaseStep
<1>4. Honest => NobodyPlaysAhead
  BY HonestAhead
<1> QED BY <1>1, <1>2, <1>3, <1>4, PTL DEF Spec

-----------------------------------------------------------------------------
\* Readiness that gets lost.  A client that believes it is counted ready is,
\* or a TIME_READY of it is under way, or its readiness was cleared unknown to it.

Counts(q) == ready[q] \/ Later(wire[q], 0, "TIME_READY")

HeldOf(q) ==
  link[q] = "up" /\ sent[q] =>
    /\ Followed(wire[q], "TIME_UNREADY", "TIME_READY")
    /\ greeted[q] /\ ~welcome[q] /\ task[q].kind = "hello" => Later(wire[q], 0, "TIME_READY")
    /\ /\ greeted[q] /\ ~welcome[q] /\ seat[q] = "live" /\ q \notin forgotten
       /\ task[q].kind \notin {"hello", "join", "travel"}
       => Counts(q)

Held == \A q \in Player : HeldOf(q)

LEMMA HeldCounts ==
  ASSUME Base, Held
  PROVE  ReportsCount
<1> SUFFICES ASSUME NEW q \in Player,
                    greeted[q] /\ link[q] = "up" /\ ~welcome[q] /\ wire[q] = <<>>,
                    seat[q] = "live" /\ task[q] = Idle,
                    sent[q] /\ q \notin forgotten
             PROVE  ready[q]
  BY DEF ReportsCount
<1>1. Counts(q)
  BY TasksMade DEF Held, HeldOf
<1>2. ~Later(wire[q], 0, "TIME_READY")
  BY DEF Later
<1> QED BY <1>1, <1>2 DEF Counts

LEMMA HeldInit == Init => Held
BY DEF Init, Held, HeldOf

\* What concerns player q in Held.
HeldSame(q) ==
  /\ UNCHANGED <<link[q], greeted[q], wire[q], sent[q], welcome[q], task[q], seat[q]>>
  /\ ready[q] => ready'[q] \/ q \in forgotten'
  /\ q \in forgotten => q \in forgotten'

LEMMA HeldKept ==
  ASSUME NEW q \in Player, HeldOf(q), HeldSame(q)
  PROVE  HeldOf(q)'
BY DEF HeldOf, HeldSame, Counts

LEMMA HeldOthers ==
  ASSUME Held, NEW p \in Player, \A q \in Player \ {p} : HeldSame(q), HeldOf(p)'
  PROVE  Held'
<1>1. \A q \in Player \ {p} : HeldOf(q)'
  BY HeldKept DEF Held
<1> QED BY <1>1 DEF Held

LEMMA HeldClient ==
  ASSUME Base, Held, NEW p \in Player, ClientNext(p)
  PROVE  Held'
<1> USE DEF session, client, net, history
<1>0. /\ link \in [Player -> {"down", "up"}] /\ greeted \in [Player -> BOOLEAN]
      /\ wire \in [Player -> Seq(Frames)] /\ sent \in [Player -> BOOLEAN]
      /\ welcome \in [Player -> BOOLEAN] /\ game \in [Player -> Zone \cup {None}]
  BY DEF Base, TypeOK
<1>h. HeldOf(p)
  BY DEF Held
<1>1. ASSUME NEW z \in Zone \cup {None}, PlayZone(p, z) PROVE Held'
  BY <1>1, <1>h, HeldKept, HeldOthers DEF PlayZone, HeldSame
<1>2. CASE TickQuiet(p)
  <2>1. \A q \in Player \ {p} : HeldSame(q)
    BY <1>0, <1>2 DEF TickQuiet, Drain, HeldSame
  <2>2. ~sent'[p]
    BY <1>0, <1>2 DEF TickQuiet
  <2> QED BY <2>1, <2>2, HeldOthers DEF HeldOf
<1>3. CASE TickAway(p)
  <2>1. \A q \in Player \ {p} : wire'[q] = wire[q]
    BY <1>3, WireSent, FramesMade DEF TickAway
  <2>2. \A q \in Player \ {p} : HeldSame(q)
    BY <1>0, <1>3, <2>1 DEF TickAway, HeldSame
  <2>3. ~sent'[p]
    BY <1>0, <1>3 DEF TickAway
  <2> QED BY <2>2, <2>3, HeldOthers DEF HeldOf
\* A TIME_READY on its way.
<1>4. ASSUME NEW z \in Zone, SendFrame(p, "TIME_READY", z), UNCHANGED task,
             \A q \in Player \ {p} : UNCHANGED <<sent[q], welcome[q]>>,
             UNCHANGED <<link, greeted, seat, ready, forgotten>>
      PROVE  Held'
  <2>1. /\ \A q \in Player \ {p} : wire'[q] = wire[q]
        /\ Later(wire'[p], 0, "TIME_READY")
        /\ Followed(wire'[p], "TIME_UNREADY", "TIME_READY")
    BY <1>4, WireSent, FramesMade
  <2>2. \A q \in Player \ {p} : HeldSame(q)
    BY <1>4, <2>1 DEF HeldSame
  <2>3. HeldOf(p)'
    BY <2>1 DEF HeldOf, Counts
  <2> QED BY <2>2, <2>3, HeldOthers
<1>5. CASE TickPlaying(p)
  <2>1. game[p] \in Zone
    BY <1>0, <1>5 DEF TickPlaying
  <2>2. \A q \in Player \ {p} : UNCHANGED <<sent[q], welcome[q]>>
    BY <1>0, <1>5 DEF TickPlaying, Drain
  <2> QED BY <1>4, <1>5, <2>1, <2>2 DEF TickPlaying
<1>6. ASSUME NEW z \in Zone, MarkReady(p, z) PROVE Held'
  <2>1. \A q \in Player \ {p} : UNCHANGED <<sent[q], welcome[q]>>
    BY <1>0, <1>6 DEF MarkReady
  <2> QED BY <1>4, <1>6, <2>1 DEF MarkReady
<1>7. CASE TickSettled(p)
  <2>1. \A q \in Player : HeldSame(q)
    BY <1>7 DEF TickSettled, HeldSame
  <2> QED BY <1>h, <2>1, HeldKept, HeldOthers
\* Frames that say nothing about readiness.
<1>8. ASSUME NEW type \in {"JOIN_ROOM", "TIME_SPEED"}, NEW arg, Frame(type, arg) \in Frames,
             SendFrame(p, type, arg),
             UNCHANGED <<link, greeted, sent, welcome, task, seat, ready, forgotten>>
      PROVE  Held'
  <2>1. /\ \A q \in Player \ {p} : wire'[q] = wire[q]
        /\ Later(wire[p], 0, "TIME_READY") => Later(wire'[p], 0, "TIME_READY")
        /\ Followed(wire[p], "TIME_UNREADY", "TIME_READY")
             => Followed(wire'[p], "TIME_UNREADY", "TIME_READY")
    BY <1>8, WireSent
  <2>2. \A q \in Player \ {p} : HeldSame(q)
    BY <1>8, <2>1 DEF HeldSame
  <2>3. HeldOf(p)'
    BY <1>8, <1>h, <2>1 DEF HeldOf, Counts
  <2> QED BY <2>2, <2>3, HeldOthers
<1>9. ASSUME NEW r \in Room, TypeJoin(p, r) PROVE Held'
  BY <1>8, <1>9, FramesMade DEF TypeJoin
<1>10. ASSUME NEW s \in {0, 1}, ChangeSpeed(p, s) PROVE Held'
  BY <1>8, <1>10, FramesMade DEF ChangeSpeed
<1>11. CASE Connect(p)
  <2>1. \A q \in Player \ {p} : HeldSame(q)
    BY <1>0, <1>11 DEF Connect, HeldSame
  <2>2. ~greeted'[p] /\ wire'[p] = <<>>
    BY <1>0, <1>11 DEF Connect
  <2>3. HeldOf(p)'
    BY <2>2 DEF HeldOf, Followed
  <2> QED BY <2>1, <2>3, HeldOthers
<1>12. CASE Drop(p)
  <2>1. \A q \in Player \ {p} : HeldSame(q)
    BY <1>0, <1>12 DEF Drop, HeldSame
  <2>2. link'[p] = "down"
    BY <1>0, <1>12 DEF Drop
  <2> QED BY <2>1, <2>2, HeldOthers DEF HeldOf
<1> QED
  BY <1>1, <1>2, <1>3, <1>5, <1>6, <1>7, <1>9, <1>10, <1>11, <1>12 DEF ClientNext

LEMMA HeldServer ==
  ASSUME Base, Held, NEW p \in Player, ServerNext(p)
  PROVE  Held'
<1> USE DEF session, client, net, history
<1>0. /\ link \in [Player -> {"down", "up"}] /\ greeted \in [Player -> BOOLEAN]
      /\ wire \in [Player -> Seq(Frames)] /\ ready \in [Player -> BOOLEAN]
      /\ welcome \in [Player -> BOOLEAN]
      /\ seat \in [Player -> {"none", "live", "ghost"}]
      /\ task \in [Player -> Tasks] /\ late \in [Player -> Tasks]
  BY DEF Base, TypeOK
<1>h. HeldOf(p)
  BY DEF Held
<1>i. Idle.kind = "idle"
  BY TasksMade
\* The steps after which nothing is claimed of p.
<1>1. ASSUME UNCHANGED <<link, wire, sent>>,
             \A q \in Player \ {p} : HeldSame(q),
             welcome'[p] \/ (seat'[p] # "live" /\ task'[p].kind # "hello")
               \/ (p \in forgotten' /\ task'[p].kind # "hello")
      PROVE  Held'
  <2>1. HeldOf(p)'
    BY <1>1, <1>h DEF HeldOf
  <2> QED BY <1>1, <2>1, HeldOthers
<1>2. CASE Hello(p)
  <2>1. \A q \in Player \ {p} : HeldSame(q)
    BY <1>0, <1>2 DEF Hello, HeldSame
  <2>2. welcome'[p]
    BY <1>0, <1>2 DEF Hello
  <2> QED BY <1>1, <1>2, <2>1, <2>2 DEF Hello
<1>3. CASE HelloFinish(p)
  <2>1. \A q \in Player \ {p} : HeldSame(q)
    BY <1>0, <1>3 DEF HelloFinish, ClearHello, HeldSame
  <2>2. task[p].kind = "hello" /\ task'[p].kind = "idle" /\ UNCHANGED <<client, net>>
    BY <1>0, <1>3, <1>i DEF HelloFinish
  <2>3. HeldOf(p)'
    BY <1>h, <2>2 DEF HeldOf, Counts
  <2> QED BY <2>1, <2>3, HeldOthers
<1>4. CASE Disconnect(p)
  <2>1. \A q \in Player \ {p} : HeldSame(q)
    BY <1>0, <1>4 DEF Disconnect, LosesReady, HeldSame
  <2>2. task'[p].kind = "leave" /\ seat'[p] = "ghost"
    BY <1>0, <1>4, TaskFields DEF Disconnect
  <2> QED BY <1>1, <1>4, <2>1, <2>2 DEF Disconnect
<1>5. CASE DisconnectFinish(p)
  <2>1. \A q \in Player \ {p} : HeldSame(q)
    BY <1>0, <1>5 DEF DisconnectFinish, HeldSame
  <2>2. task'[p].kind = "idle" /\ seat'[p] = "ghost"
    BY <1>0, <1>5, <1>i, Known DEF DisconnectFinish
  <2> QED BY <1>1, <1>5, <2>1, <2>2 DEF DisconnectFinish
<1>6. CASE EvictGhost(p)
  <2>1. \A q \in Player \ {p} : HeldSame(q)
    BY <1>0, <1>6 DEF EvictGhost, LosesReady, HeldSame
  <2>2. task'[p].kind = "idle" /\ seat'[p] = "none"
    BY <1>0, <1>6, <1>i DEF EvictGhost, Busy
  <2> QED BY <1>1, <1>6, <2>1, <2>2 DEF EvictGhost
\* What reading a frame does to the wire of p.
<1>7. ASSUME NEW type, Receive(p, type)
      PROVE  /\ \A q \in Player \ {p} : wire'[q] = wire[q]
             /\ Followed(wire[p], "TIME_UNREADY", "TIME_READY")
                  => Followed(wire'[p], "TIME_UNREADY", "TIME_READY")
             /\ Followed(wire[p], "TIME_UNREADY", "TIME_READY") /\ type = "TIME_UNREADY"
                  => Later(wire'[p], 0, "TIME_READY")
             /\ Later(wire[p], 0, "TIME_READY") /\ type # "TIME_READY"
                  => Later(wire'[p], 0, "TIME_READY")
             /\ task[p].kind = "idle" /\ seat[p] = "live" /\ greeted[p]
             /\ UNCHANGED <<link, greeted, welcome>>
  BY <1>7, <1>i, WireRead DEF Receive, Busy
<1>8. CASE TimeReady(p)
  <2>1. Receive(p, "TIME_READY") /\ Arrive(p, Arg(p), Flips(p, Arg(p)))
    BY <1>8 DEF TimeReady
  <2>2. \A q \in Player \ {p} : HeldSame(q)
    BY <1>7, <1>8, <2>1, ArriveOthers, ArriveReady DEF TimeReady, HeldSame
  <2>3. ready'[p] /\ UNCHANGED task
    BY <1>8, <2>1, ArriveReady DEF TimeReady
  <2>4. HeldOf(p)'
    BY <1>7, <1>8, <1>h, <2>1, <2>3 DEF TimeReady, HeldOf, Counts
  <2> QED BY <2>2, <2>4, HeldOthers
<1>9. CASE TimeReadyLeave(p)
  <2>1. Receive(p, "TIME_READY")
    BY <1>9 DEF TimeReadyLeave
  <2>2. \A q \in Player \ {p} : HeldSame(q)
    BY <1>0, <1>7, <1>9, <2>1 DEF TimeReadyLeave, HeldSame
  <2>3. task'[p].kind = "travel"
    BY <1>0, <1>9, TaskFields DEF TimeReadyLeave
  <2>4. HeldOf(p)'
    BY <1>7, <1>9, <1>h, <2>1, <2>3 DEF TimeReadyLeave, HeldOf
  <2> QED BY <2>2, <2>4, HeldOthers
<1>10. CASE TimeReadyArrive(p)
  <2>1. Arrive(p, task[p].zone, TRUE) /\ task' = [task EXCEPT ![p] = Idle]
        /\ UNCHANGED <<late, client, net, trouble, vouched, revived>>
    BY <1>10 DEF TimeReadyArrive
  <2>2. \A q \in Player \ {p} : HeldSame(q)
    BY <1>0, <2>1, ArriveOthers, ArriveReady DEF HeldSame
  <2>3. task'[p].kind = "idle" /\ ready'[p]
    BY <1>0, <2>1, <1>i, ArriveReady
  <2>4. HeldOf(p)'
    BY <1>h, <2>1, <2>3 DEF HeldOf, Counts
  <2> QED BY <2>2, <2>4, HeldOthers
<1>11. CASE TimeUnready(p)
  <2>1. Receive(p, "TIME_UNREADY")
    BY <1>11 DEF TimeUnready
  <2>2. \A q \in Player \ {p} : HeldSame(q)
    BY <1>0, <1>7, <1>11, <2>1 DEF TimeUnready, HeldSame
  <2>3. HeldOf(p)'
    BY <1>7, <1>11, <1>h, <2>1 DEF TimeUnready, HeldOf, Counts
  <2> QED BY <2>2, <2>3, HeldOthers
<1>12. CASE TimeSpeed(p)
  <2>1. Receive(p, "TIME_SPEED")
    BY <1>12 DEF TimeSpeed
  <2>2. \A q \in Player \ {p} : HeldSame(q)
    BY <1>7, <1>12, <2>1 DEF TimeSpeed, HeldSame
  <2>3. HeldOf(p)'
    BY <1>7, <1>12, <1>h, <2>1 DEF TimeSpeed, HeldOf, Counts
  <2> QED BY <2>2, <2>3, HeldOthers
<1>13. CASE JoinRoom(p)
  <2>1. Receive(p, "JOIN_ROOM")
    BY <1>13 DEF JoinRoom
  <2>2. \A q \in Player \ {p} : HeldSame(q)
    BY <1>0, <1>7, <1>13, <2>1 DEF JoinRoom, HeldSame
  <2>3. task'[p].kind = "join"
    BY <1>0, <1>13, TaskFields DEF JoinRoom
  <2>4. HeldOf(p)'
    BY <1>7, <1>13, <1>h, <2>1, <2>3 DEF JoinRoom, HeldOf
  <2> QED BY <2>2, <2>4, HeldOthers
<1>14. CASE JoinRoomFinish(p)
  <2>1. \A q \in Player \ {p} : HeldSame(q)
    BY <1>0, <1>14 DEF JoinRoomFinish, ClearJoin, HeldSame
  <2>2. task'[p].kind = "idle" /\ p \in forgotten'
    BY <1>0, <1>14, <1>i DEF JoinRoomFinish
  <2> QED BY <1>1, <1>14, <2>1, <2>2 DEF JoinRoomFinish
<1>15. CASE JoinRoomDies(p)
  <2>1. Receive(p, "JOIN_ROOM") /\ link[p] = "down"
    BY <1>15 DEF JoinRoomDies
  <2>2. \A q \in Player \ {p} : HeldSame(q)
    BY <1>0, <1>7, <1>15, <2>1 DEF JoinRoomDies, LosesReady, HeldSame
  <2>3. link'[p] = "down"
    BY <2>1 DEF Receive
  <2> QED BY <2>2, <2>3, HeldOthers DEF HeldOf
<1>16. CASE LateFinish(p)
  <2>0. UNCHANGED <<seat, task, client, net>>
    BY <1>16 DEF LateFinish, ClearHello, ClearJoin, Arrive
  <2>1. CASE (ClearHello(p, late[p].to) \/ ClearJoin(p, late[p].from, late[p].to))
             /\ forgotten' = forgotten \cup {p}
    <3>1. \A q \in Player : HeldSame(q)
      BY <1>0, <2>0, <2>1 DEF ClearHello, ClearJoin, HeldSame
    <3> QED BY <1>h, <3>1, HeldKept, HeldOthers
  <2>2. CASE UNCHANGED <<session, history>>
    <3>1. \A q \in Player : HeldSame(q)
      BY <2>0, <2>2 DEF HeldSame
    <3> QED BY <1>h, <3>1, HeldKept, HeldOthers
  <2>3. CASE Arrive(p, late[p].zone, TRUE)
    <3>1. \A q \in Player \ {p} : HeldSame(q)
      BY <2>0, <2>3, ArriveOthers DEF HeldSame
    <3>2. HeldOf(p)'
      BY <1>h, <2>0, <2>3, ArriveReady DEF HeldOf, Counts
    <3> QED BY <3>1, <3>2, HeldOthers
  <2> QED BY <1>16, <2>1, <2>2, <2>3 DEF LateFinish
<1> QED
  BY <1>2, <1>3, <1>4, <1>5, <1>6, <1>8, <1>9, <1>10, <1>11, <1>12, <1>13, <1>14, <1>15, <1>16
  DEF ServerNext

\* In every reachable state a connected client that reported ready, has heard
\* its WELCOME and has nothing under way counts as ready, unless the server
\* cleared its readiness without telling it.
THEOREM ReadyReportsCount == Spec => []ReportsCount
<1>1. Base /\ Held /\ [Next]_vars => Held'
  <2> SUFFICES ASSUME Base, Held, [Next]_vars PROVE Held'
    OBVIOUS
  <2>1. CASE UNCHANGED vars
    <3>1. \A q \in Player : HeldSame(q)
      BY <2>1 DEF vars, session, client, net, history, HeldSame
    <3> QED BY <3>1, HeldKept DEF Held
  <2> QED BY <2>1, HeldClient, HeldServer DEF Next
<1>2. Init => Base /\ Held
  BY InitBase, HeldInit
<1>3. Base /\ [Next]_vars => Base'
  BY BaseStep
<1>4. Base /\ Held => ReportsCount
  BY HeldCounts
<1> QED BY <1>1, <1>2, <1>3, <1>4, PTL DEF Spec
=============================================================================
