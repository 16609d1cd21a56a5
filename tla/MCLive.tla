------------------------------- MODULE MCLive -------------------------------
(***************************************************************************)
(* ReliableEvents, DeepSession, HouseholdFunds and InteractionMirror for   *)
(* TLC, and ClockGate, ServerSession and RoomSpeed for their liveness.     *)
(* They share no state: each behaviour is one of one of them, and their    *)
(* state spaces add up instead of multiplying.                             *)
(***************************************************************************)
EXTENDS ReliableEvents, DeepSession, HouseholdFunds, InteractionMirror

CONSTANTS GateRoom, Zone, MinPlayers, MaxFrames, MaxTrouble

VARIABLES gateSeat, room, ready, zone, desired, task, late, clockLink, greeted, clockWire, welcome,
          game, gateSent, unsent, readyZone, heard, trouble, skipped, forgotten, vouched, revived

CONSTANTS Identity, Conn, Client, SessionZone, SessionKey, SerialHello

VARIABLES issued, registered, identity, connection, roomOf, clockReady, clockZone, members, owner,
          holder, cooling, sessionPc, who, connRoom, closed, target

CONSTANTS SpeedHost, Speed, MaxActs

VARIABLES online, primed, lastSpeed, handler, uplink, downlink, linked, gate, known, reported, speed,
          local, opened, echo, acts, chosen, hasty

VARIABLE focus   \* the component of this behaviour

Clock == INSTANCE ClockGate WITH
  Room <- GateRoom, DefaultRoom <- Lobby, seat <- gateSeat, sent <- gateSent, link <- clockLink,
  wire <- clockWire

Session == INSTANCE ServerSession WITH
  Player <- Identity, Room <- GateRoom, DefaultRoom <- Lobby, Zone <- SessionZone,
  Stamp <- SessionZone, Key <- SessionKey, pc <- sessionPc

Pace == INSTANCE RoomSpeed WITH
  Member <- Player, MinMembers <- MinPlayers, Host <- SpeedHost, pace <- lastSpeed,
  outgoing <- uplink, incoming <- downlink, connected <- linked

clockVariables ==
  <<gateSeat, room, ready, zone, desired, task, late, clockLink, greeted, clockWire, welcome, game,
    gateSent, unsent, readyZone, heard, trouble, skipped, forgotten, vouched, revived>>

sessionVariables ==
  <<issued, registered, identity, connection, roomOf, clockReady, clockZone, members, owner, holder,
    cooling, sessionPc, who, connRoom, closed, target>>

paceVariables ==
  <<online, primed, lastSpeed, handler, uplink, downlink, linked, gate, known, reported, speed, local,
    opened, echo, acts, chosen, hasty>>

allVars ==
  <<vars, clockVariables, sessionVariables, paceVariables, deepVars, fundsVars, mirrorVars, focus>>

LiveInit ==
  /\ focus \in {"events", "deep", "funds", "mirror", "clock", "session", "pace"}
  /\ Init /\ Clock!Init /\ Session!Init /\ Pace!SpeedInit
  /\ DeepInit /\ FundsInit /\ MirrorInit
  /\ focus # "funds" => \A p \in Player : purse[p] = CHOOSE b \in Balance : TRUE
  /\ focus # "deep" => wantsHost = {}

\* The components that are not the behaviour's are left alone.
Rests(component, its) == IF focus = component THEN TRUE ELSE UNCHANGED its

Step(component, A) ==
  /\ focus = component
  /\ A
  /\ Rests("events", vars) /\ Rests("clock", clockVariables) /\ Rests("session", sessionVariables)
  /\ Rests("pace", paceVariables) /\ Rests("deep", deepVars) /\ Rests("funds", fundsVars)
  /\ Rests("mirror", mirrorVars)
  /\ UNCHANGED focus

LiveNext ==
  \/ Step("events", EventsNext)
  \/ Step("deep", DeepNext)
  \/ Step("funds", FundsNext)
  \/ Step("mirror", MirrorNext)
  \/ Step("clock", Clock!Next)
  \/ Step("session", Session!Next)
  \/ Step("pace", Pace!SpeedNext)

\* The fairness of the components' FairSpec.
LiveSpec ==
  /\ LiveInit /\ [][LiveNext]_allVars
  /\ WF_vars(focus = "events" /\ EventsRun)
  /\ WF_clockVariables(focus = "clock" /\ \E p \in Player : Clock!Tick(p) \/ Clock!ServerNext(p))
  /\ WF_sessionVariables(focus = "session" /\ Session!SessionRuns)
  /\ WF_paceVariables(focus = "pace" /\ \E p \in Player : Pace!SpeedRuns(p))

\* What the components' modules state.
LiveTypeOK == TypeOK /\ DeepTypeOK /\ FundsTypeOK /\ MirrorTypeOK

GateOpens == Clock!GateOpens

GoneOwnersLetGo == Session!GoneOwnersLetGo

SpeedSettles == Pace!SpeedSettles
=============================================================================
