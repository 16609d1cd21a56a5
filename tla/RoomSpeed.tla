----------------------------- MODULE RoomSpeed ------------------------------
(***************************************************************************)
(* The speed of a room's clock.  Every player's game has a speed of its    *)
(* own; a tick of the client pauses it while the room is not ready to play *)
(* and otherwise takes a speed that differs from the room's for a change   *)
(* its user made, and publishes it.  The server keeps the last speed it    *)
(* was told and sends it to everybody.  A joiner's game also relays its    *)
(* changes to the host's game.                                             *)
(*                                                                         *)
(* ClockGate has the gate, zones and rooms in full; here the games are in  *)
(* a zone of one room all the time.  Time windows are flags that go down   *)
(* at any moment.                                                          *)
(***************************************************************************)
EXTENDS Integers, Sequences, FiniteSets

CONSTANTS Member,        \* the players
          Host,          \* the one whose game runs the simulation
          Speed,         \* 0, paused, is one of them, 1, normal, another
          MinMembers,    \* min_players of the server and of every client
          MaxActs        \* bound: speeds the users pick and connections that break

ASSUME SpeedConstants ==
  /\ IsFiniteSet(Member) /\ Host \in Member
  /\ {0, 1} \subseteq Speed
  /\ MinMembers \in 0..Cardinality(Member)   \* all of them can play
  /\ MaxActs \in Nat

VARIABLES
  \* the server
  online,     \* players with a connection
  primed,     \* Player.clock_ready
  pace,       \* Room.clock["desired"]
  handler,    \* where the handler of a player's connection is suspended
  \* the network
  outgoing, incoming,
  \* the clients
  connected,  \* engine.connected
  gate,       \* time_gate
  known,      \* connected players of room_players
  reported,   \* time_ready_sent
  speed,      \* time_speed
  local,      \* the speed the game runs at
  opened,     \* the gate opened within the echo window
  echo,       \* a change was published within the echo window
  acts,       \* speeds picked and connections broken so far
  \* history
  chosen,     \* speeds somebody picked
  hasty       \* players that published before they read their WELCOME

speedServer == <<online, primed, pace, handler>>
speedClient == <<connected, gate, known, reported, speed, local, opened, echo>>
speedVars == <<speedServer, outgoing, incoming, speedClient, acts, chosen, hasty>>

\* Everybody has come, and the room plays.
SpeedInit ==
  /\ online = Member /\ primed = Member /\ pace = 1
  /\ handler = [p \in Member |-> "idle"]
  /\ outgoing = [p \in Member |-> <<>>]
  /\ incoming = [p \in Member |-> <<>>]
  /\ connected = Member /\ reported = Member /\ opened = {} /\ echo = {}
  /\ gate = [p \in Member |-> FALSE]
  /\ known = [p \in Member |-> Member]
  /\ speed = [p \in Member |-> 1]
  /\ local = [p \in Member |-> 1]
  /\ acts = 0
  /\ chosen = {1} /\ hasty = {}

SpeedFrame(type, arg) == [type |-> type, arg |-> arg]

-----------------------------------------------------------------------------
\* The server.

Handle(p, type) ==
  /\ handler[p] = "idle"
  /\ outgoing[p] # <<>> /\ Head(outgoing[p]).type = type
  /\ outgoing' = [outgoing EXCEPT ![p] = Tail(@)]
  /\ UNCHANGED <<speedClient, acts, chosen, hasty>>

\* clock_gate_open.  A player that was here once and left still has to be ready.
GateOpen == Cardinality(online') >= MinMembers /\ primed' = Member

\* sync_clock
TimeSync == SpeedFrame("TIME_SYNC", [gate |-> ~GateOpen, speed |-> IF GateOpen THEN pace' ELSE 0])

SyncClock ==
  incoming' = [q \in Member |-> IF q \in online' THEN Append(incoming[q], TimeSync) ELSE incoming[q]]

\* _handle_hello up to its broadcast: WELCOME and ROOM_STATE, PLAYER_JOINED to the others.
HandleHello(p) ==
  /\ Handle(p, "HELLO")
  /\ online' = online \cup {p}
  /\ handler' = [handler EXCEPT ![p] = "hello"]
  /\ incoming' = [q \in Member |->
       IF q = p THEN <<SpeedFrame("WELCOME", 0), SpeedFrame("ROOM_STATE", online')>>
       ELSE IF q \in online THEN Append(incoming[q], SpeedFrame("PLAYER_JOINED", {p})) ELSE incoming[q]]
  /\ UNCHANGED <<primed, pace>>

\* Its end, and that of _on_disconnect.
Finish(p) ==
  /\ handler[p] \in {"hello", "leave"}
  /\ handler' = [handler EXCEPT ![p] = "idle"]
  /\ primed' = primed \ {p}
  /\ UNCHANGED <<online, pace>>
  /\ SyncClock
  /\ UNCHANGED <<outgoing, speedClient, acts, chosen, hasty>>

\* _on_disconnect up to its broadcast.
Leave(p) ==
  /\ p \in online \ connected
  /\ handler[p] = "idle" /\ outgoing[p] = <<>>
  /\ online' = online \ {p}
  /\ primed' = primed \ {p}
  /\ handler' = [handler EXCEPT ![p] = "leave"]
  /\ incoming' = [q \in Member |->
       IF q \in online \ {p} THEN Append(incoming[q], SpeedFrame("PLAYER_LEFT", {p})) ELSE incoming[q]]
  /\ UNCHANGED <<pace, outgoing, speedClient, acts, chosen, hasty>>

HandleReady(p) ==
  /\ Handle(p, "TIME_READY")
  /\ primed' = primed \cup {p}
  /\ UNCHANGED <<online, pace, handler>>
  /\ SyncClock

HandleSpeed(p) ==
  /\ Handle(p, "TIME_SPEED")
  /\ pace' = Head(outgoing[p]).arg
  /\ UNCHANGED <<online, primed, handler>>
  /\ SyncClock

\* DEEP_RELAY, route "host".
DeepRelay(p) ==
  /\ Handle(p, "DEEP_RELAY")
  /\ incoming' = [q \in Member |->
       IF q \in {Host} \cap online THEN Append(incoming[q], Head(outgoing[p])) ELSE incoming[q]]
  /\ UNCHANGED speedServer

-----------------------------------------------------------------------------
\* The client reads: _handle_message.

\* Mutant of Short: a room of exactly min_players is still waiting.
ShortAlso(p, in) == Cardinality(in) <= MinMembers

Short(p, in) == Cardinality(in) < MinMembers

Read(p, types) ==
  /\ p \in connected
  /\ incoming[p] # <<>> /\ Head(incoming[p]).type \in types
  /\ incoming' = [incoming EXCEPT ![p] = Tail(@)]
  /\ UNCHANGED <<speedServer, outgoing, connected, echo, acts, chosen, hasty>>

\* Mutant of WelcomeGate: the gate stays as it was before the break.
WelcomeGateKept(p) == gate[p]

WelcomeGate(p) == TRUE

ReadWelcome(p) ==
  /\ Read(p, {"WELCOME"})
  /\ gate' = [gate EXCEPT ![p] = WelcomeGate(p)]
  /\ reported' = reported \ {p}
  /\ UNCHANGED <<known, speed, local, opened>>

ReadRoster(p) ==
  LET f == Head(incoming[p])
  IN  /\ Read(p, {"ROOM_STATE", "PLAYER_JOINED", "PLAYER_LEFT"})
      /\ known' = [known EXCEPT ![p] =
           CASE f.type = "ROOM_STATE" -> f.arg
             [] f.type = "PLAYER_JOINED" -> @ \cup f.arg
             [] f.type = "PLAYER_LEFT" -> @ \ f.arg]
      /\ UNCHANGED <<gate, reported, speed, local, opened>>

\* Mutant of Obeyed: inside its echo window a client keeps its own speed.
ObeyedOutsideEcho(p, s) == IF p \in echo THEN speed[p] ELSE s

Obeyed(p, s) == s

\* The game follows through apply_clock_speed_local, which relays nothing; it
\* is held while players are missing, whatever the room's speed.
ReadTimeSync(p) ==
  LET f == Head(incoming[p]).arg
      hold == f.gate \/ Short(p, known[p])
  IN  /\ Read(p, {"TIME_SYNC"})
      /\ speed' = [speed EXCEPT ![p] = Obeyed(p, f.speed)]
      /\ gate' = [gate EXCEPT ![p] = f.gate]
      /\ local' = [local EXCEPT ![p] = IF hold THEN 0 ELSE speed'[p]]
      /\ opened' = IF ~hold /\ gate[p] THEN opened \cup {p} ELSE opened
      /\ UNCHANGED <<known, reported>>

\* _host_set_clock_speed
ReadRelay(p) ==
  /\ Read(p, {"DEEP_RELAY"})
  /\ local' = [local EXCEPT ![p] = Head(incoming[p]).arg]
  /\ UNCHANGED <<gate, known, reported, speed, opened>>

-----------------------------------------------------------------------------
\* _maybe_sync_clock.

Held(p) == p \notin connected \/ gate[p] \/ Short(p, known[p])

\* Every tick pauses a game that is held.
TickHolds(p) ==
  /\ Held(p)
  /\ local[p] # 0 \/ p \in connected \ reported
  /\ local' = [local EXCEPT ![p] = 0]
  /\ reported' = reported \cup ({p} \cap connected)
  /\ outgoing' = IF p \in connected \ reported
                  THEN [outgoing EXCEPT ![p] = Append(@, SpeedFrame("TIME_READY", 0))] ELSE outgoing
  /\ UNCHANGED <<speedServer, incoming, connected, gate, known, speed, opened, echo, acts,
                 chosen, hasty>>

Welcomed(p) == p \in online /\ \A i \in DOMAIN incoming[p] : incoming[p][i].type # "WELCOME"

Publish(p, s) == [outgoing EXCEPT ![p] = Append(@, SpeedFrame("TIME_SPEED", s))]

\* A tick that finds the game at another speed than the room's.  It puts it
\* back just after the gate opened, and publishes it later on.
TickPlays(p) ==
  /\ ~Held(p)
  /\ p \in reported
  /\ local[p] # speed[p]
  /\ \/ /\ p \in opened
        /\ local' = [local EXCEPT ![p] = speed[p]]
        /\ UNCHANGED <<outgoing, speed, echo, hasty>>
     \/ /\ p \notin opened \cup echo
        /\ outgoing' = Publish(p, local[p])
        /\ speed' = [speed EXCEPT ![p] = local[p]]
        /\ echo' = echo \cup {p}
        /\ hasty' = IF Welcomed(p) THEN hasty ELSE hasty \cup {p}
        /\ UNCHANGED local
  /\ UNCHANGED <<speedServer, incoming, connected, gate, known, reported, opened, acts, chosen>>

\* TIME_READY of a tick that is not held: a TIME_SYNC after the WELCOME opened the gate.
TickReports(p) ==
  /\ ~Held(p)
  /\ p \notin reported
  /\ reported' = reported \cup {p}
  /\ outgoing' = [outgoing EXCEPT ![p] = Append(@, SpeedFrame("TIME_READY", 0))]
  /\ UNCHANGED <<speedServer, incoming, connected, gate, known, speed, local, opened, echo, acts,
                 chosen, hasty>>

OpenedEnds(p) ==
  /\ p \in opened
  /\ opened' = opened \ {p}
  /\ UNCHANGED <<speedServer, outgoing, incoming, connected, gate, known, reported, speed, local,
                 echo, acts, chosen, hasty>>

EchoEnds(p) ==
  /\ p \in echo
  /\ echo' = echo \ {p}
  /\ UNCHANGED <<speedServer, outgoing, incoming, connected, gate, known, reported, speed, local,
                 opened, acts, chosen, hasty>>

-----------------------------------------------------------------------------
\* Users and connections.

Act ==
  /\ acts < MaxActs
  /\ acts' = acts + 1

Pick(s) ==
  /\ Act
  /\ chosen' = chosen \cup {s}

\* In the game.  A joiner's overrides relay it as well.
PickInGame(p, s) ==
  /\ Pick(s)
  /\ local' = [local EXCEPT ![p] = s]
  /\ outgoing' = IF p \in connected \ {Host}
                  THEN [outgoing EXCEPT ![p] = Append(@, SpeedFrame("DEEP_RELAY", s))] ELSE outgoing
  /\ UNCHANGED <<speedServer, incoming, connected, gate, known, reported, speed, opened, echo, hasty>>

\* As a command: change_clock_speed.
PickByCommand(p, s) ==
  /\ p \in connected
  /\ Pick(s)
  /\ IF gate[p] THEN UNCHANGED <<local, echo>>
     ELSE /\ local' = [local EXCEPT ![p] = s]
          /\ echo' = echo \cup {p}
  /\ outgoing' = Publish(p, s)
  /\ speed' = [speed EXCEPT ![p] = s]
  /\ UNCHANGED <<speedServer, incoming, connected, gate, known, reported, opened, hasty>>

\* HELLO is the first frame.
Dial(p) ==
  /\ p \notin connected \cup online /\ outgoing[p] = <<>>
  /\ connected' = connected \cup {p}
  /\ outgoing' = [outgoing EXCEPT ![p] = <<SpeedFrame("HELLO", 0)>>]
  /\ incoming' = [incoming EXCEPT ![p] = <<>>]
  /\ UNCHANGED <<speedServer, gate, known, reported, speed, local, opened, echo, acts, chosen, hasty>>

\* A connection breaks; the server may still read some of what was sent.
Break(p) ==
  /\ p \in connected
  /\ Act
  /\ connected' = connected \ {p}
  /\ \E n \in 0..Len(outgoing[p]) : outgoing' = [outgoing EXCEPT ![p] = SubSeq(@, 1, n)]
  /\ incoming' = [incoming EXCEPT ![p] = <<>>]
  /\ UNCHANGED <<speedServer, gate, known, reported, speed, local, opened, echo, chosen, hasty>>

-----------------------------------------------------------------------------
Serve(p) ==
  HandleHello(p) \/ Finish(p) \/ Leave(p) \/ HandleReady(p) \/ HandleSpeed(p) \/ DeepRelay(p)

Reads(p) == ReadWelcome(p) \/ ReadRoster(p) \/ ReadTimeSync(p) \/ ReadRelay(p)

Ticks(p) == TickHolds(p) \/ TickPlays(p) \/ TickReports(p)

\* What happens without a user, or a connection that breaks.
SpeedRuns(p) ==
  Serve(p) \/ Reads(p) \/ Ticks(p) \/ OpenedEnds(p) \/ EchoEnds(p) \/ Dial(p)

SpeedNext ==
  \E p \in Member :
    \/ SpeedRuns(p)
    \/ \E s \in Speed : PickInGame(p, s) \/ PickByCommand(p, s)
    \/ Break(p)

SpeedSpec == SpeedInit /\ [][SpeedNext]_speedVars

\* The loop runs its tasks, ticks recur, time passes, and an engine that lost
\* its connection is told to connect again: all that is needed of them is that
\* they do not stop together.
SpeedFairSpec == SpeedSpec /\ WF_speedVars(\E p \in Member : SpeedRuns(p))

-----------------------------------------------------------------------------
\* Types.  Only a player the server knows to be online has frames to read.
SpeedTypeOK ==
  /\ online \subseteq Member /\ primed \subseteq Member /\ pace \in Speed
  /\ handler \in [Member -> {"idle", "hello", "leave"}]
  /\ \A p \in Member :
       /\ \A i \in DOMAIN outgoing[p] :
            outgoing[p][i].type \in {"HELLO", "TIME_READY", "TIME_SPEED", "DEEP_RELAY"}
       /\ incoming[p] # <<>> /\ p \in connected => p \in online
  /\ connected \subseteq Member /\ gate \in [Member -> BOOLEAN]
  /\ known \in [Member -> SUBSET Member] /\ reported \subseteq Member
  /\ speed \in [Member -> Speed] /\ local \in [Member -> Speed]
  /\ opened \subseteq Member /\ echo \subseteq Member
  /\ acts \in 0..MaxActs /\ chosen \subseteq Speed /\ hasty \subseteq Member

\* Everybody is here, nothing is on its way and no tick has anything to do.
SpeedQuiet ==
  /\ connected = Member /\ online = Member /\ reported = Member
  /\ \A p \in Member :
       /\ outgoing[p] = <<>> /\ incoming[p] = <<>> /\ handler[p] = "idle"
       /\ local[p] = IF Held(p) THEN 0 ELSE speed[p]

\* Then the room is open, and every game runs at the speed the server has on
\* record, in whatever order the users' changes, their relays, the room's
\* answers and the reports of readiness crossed.
SpeedsAgree ==
  SpeedQuiet => \A p \in Member : ~Held(p) /\ speed[p] = pace /\ local[p] = pace

\* The room's speed is one somebody picked.
SpeedIsChosen == pace \in chosen

\* But for a client that published before it read its WELCOME.
SpeedExplained == pace \in chosen \/ hasty # {}

\* Once the users are done the games come to run at one speed, the room's.
SpeedSettles == <>[](\A p \in Member : speed[p] = pace /\ local[p] = pace)
=============================================================================
