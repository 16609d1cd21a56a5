-------------------------- MODULE TravelCoordinator --------------------------
(***************************************************************************)
(* Group travel (server/travel/coordinator.py): requests, invitations,     *)
(* answers and arrivals of several players, the watchdogs, and what a      *)
(* disconnect or a move to another room does to a travel under way.        *)
(*                                                                         *)
(* Every broadcast suspends the handler that makes it, so a handler that   *)
(* closes or begins a travel leaves its slot or its timer for later; pc    *)
(* and job say what a player's handler still has to do.  A player's frames *)
(* are handled one after the other.                                        *)
(*                                                                         *)
(* Senders that wait for one socket are served in the order they came: a   *)
(* handler's broadcast to a room waits for an invitation that is already   *)
(* waiting for the socket of somebody in the room.  No other order between *)
(* suspended handlers is kept, and none for the tasks that abort.          *)
(*                                                                         *)
(* Left out: zones (an arrival is in the right zone or not), the texts of  *)
(* the messages, the clock reference shared on completion, and a takeover  *)
(* of a player whose handler is suspended.                                 *)
(***************************************************************************)
EXTENDS FiniteSets

CONSTANTS
  Player,
  Room,
  Lobby,    \* the room every player starts in
  Travel,   \* the travel sessions there can be, by request_id
  None

ASSUME LobbyIsRoom == Lobby \in Room
ASSUME NoneIsNew == None \notin Player \cup Room \cup Travel \cup {"invite", "ready"}

VARIABLES
  connected,  \* players with a live connection
  roomOf,     \* Player.room_id
  active,     \* TravelCoordinator._active
  status,     \* TravelSession.state, "new" before the session exists
  roomFor,    \* TravelSession.room_id
  requester,  \* TravelSession.requester_id, as a set
  members,    \* TravelSession.members
  accepted,
  ready,
  timer,      \* the phase of TravelSession.timeout_task
  toInvite,   \* invitees the TRAVEL_INVITE of a session still has to reach
  doomed,     \* sessions with a scheduled abort task
  unwinding,  \* sessions an abort outside a handler still has to unslot
  pc,
  job,        \* the session a suspended handler works on
  stalledOn,  \* the invitee on whose socket a request's invitation waits
  queuedBehind \* requesters whose waiting invitation a broadcast waits for

travelVars == <<status, roomFor, requester, members, accepted, ready, toInvite>>
playerVars == <<connected, roomOf>>
taskVars == <<pc, job>>
socketVars == <<stalledOn, queuedBehind>>
vars == <<travelVars, playerVars, taskVars, active, timer, doomed, unwinding, socketVars>>

Status == {"new", "pending", "traveling", "complete", "aborted"}

CoordinatorTypeOK ==
  /\ connected \subseteq Player
  /\ roomOf \in [Player -> Room]
  /\ active \in [Room -> Travel \cup {None}]
  /\ status \in [Travel -> Status]
  /\ roomFor \in [Travel -> Room \cup {None}]
  /\ requester \in [Travel -> SUBSET Player]
  /\ members \in [Travel -> SUBSET Player]
  /\ accepted \in [Travel -> SUBSET Player]
  /\ ready \in [Travel -> SUBSET Player]
  /\ timer \in [Travel -> {"invite", "ready", None}]
  /\ toInvite \in [Travel -> SUBSET Player]
  /\ doomed \subseteq Travel
  /\ unwinding \subseteq Travel
  /\ pc \in [Player -> {"idle", "superseding", "inviting", "beginning", "closing"}]
  /\ job \in [Player -> Travel \cup {None}]

SocketTypeOK ==
  /\ stalledOn \in [Player -> Player \cup {None}]
  /\ queuedBehind \in [Player -> SUBSET Player]

TypeOK == CoordinatorTypeOK /\ SocketTypeOK

Init ==
  /\ connected = {}
  /\ roomOf = [p \in Player |-> Lobby]
  /\ active = [r \in Room |-> None]
  /\ status = [t \in Travel |-> "new"]
  /\ roomFor = [t \in Travel |-> None]
  /\ requester = [t \in Travel |-> {}]
  /\ members = [t \in Travel |-> {}]
  /\ accepted = [t \in Travel |-> {}]
  /\ ready = [t \in Travel |-> {}]
  /\ timer = [t \in Travel |-> None]
  /\ toInvite = [t \in Travel |-> {}]
  /\ doomed = {}
  /\ unwinding = {}
  /\ pc = [p \in Player |-> "idle"]
  /\ job = [p \in Player |-> None]
  /\ stalledOn = [p \in Player |-> None]
  /\ queuedBehind = [p \in Player |-> {}]

Active(t) == status[t] \in {"pending", "traveling"}
Invited(t) == members[t] \ requester[t]

Idle(p) == p \in connected /\ pc[p] = "idle"
Suspend(p, where, t) ==
  pc' = [pc EXCEPT ![p] = where] /\ job' = [job EXCEPT ![p] = t]
Finish(p) == Suspend(p, "idle", None)

Present(r) == {p \in connected : roomOf[p] = r}

\* The handler of p sends a message to everybody in room r.
Broadcast(p, r) ==
  /\ queuedBehind' =
       [queuedBehind EXCEPT ![p] = {x \in Player : stalledOn[x] \in Present(r)}]
  /\ UNCHANGED stalledOn

\* The broadcast of p's handler is no longer behind an invitation.
BroadcastMoves(p) == queuedBehind[p] = {}

\* The request of p goes on, and then waits for the socket of q (or for none).
Stall(p, q) ==
  /\ stalledOn' = [stalledOn EXCEPT ![p] = q]
  /\ queuedBehind' = [x \in Player |-> queuedBehind[x] \ {p}]

\* A timer is armed on top of any older one; a session that closes has none.
SetTimeout(t, phase) == timer' = [timer EXCEPT ![t] = phase]
CancelTimeout(t) == SetTimeout(t, None)

\* Mutant of Unslot: the slot is cleared whatever session is in it.
UnslotAny(t) == active' = [active EXCEPT ![roomFor[t]] = None]

\* Mutant of Unslot: the slot of a finished session is left to the next one.
UnslotNever(t) == UNCHANGED active

\* Clear the room's slot, unless a newer session has taken it.
Unslot(t) ==
  active' = [active EXCEPT ![roomFor[t]] = IF @ = t THEN None ELSE @]

Close(t, outcome) ==
  /\ status' = [status EXCEPT ![t] = outcome]
  /\ CancelTimeout(t)

-----------------------------------------------------------------------------
\* TRAVEL_REQUEST

\* A new session for everybody present.  With nobody to invite it begins.
Create(p, t) ==
  LET M == Present(roomOf[p]) \cup {p}
      alone == M = {p}
  IN /\ active' = [active EXCEPT ![roomOf[p]] = t]
     /\ status' = [status EXCEPT ![t] = IF alone THEN "traveling" ELSE "pending"]
     /\ roomFor' = [roomFor EXCEPT ![t] = roomOf[p]]
     /\ requester' = [requester EXCEPT ![t] = {p}]
     /\ members' = [members EXCEPT ![t] = M]
     /\ toInvite' = [toInvite EXCEPT ![t] = M \ {p}]
     /\ Suspend(p, IF alone THEN "beginning" ELSE "inviting", t)
     /\ Broadcast(p, IF alone THEN roomOf[p] ELSE None)
     /\ UNCHANGED <<accepted, ready, timer>>

Superseded(r) == active[r] # None /\ Active(active[r])

Unused == {t \in Travel : status[t] = "new" /\ \A p \in Player : job[p] # t}

\* A request brings a request_id of its own; which one does not matter.
NewId(t) == Unused # {} /\ t = CHOOSE u \in Unused : TRUE

Request(p, t) ==
  /\ Idle(p)
  /\ NewId(t)
  /\ ~Superseded(roomOf[p])
  /\ Create(p, t)
  /\ UNCHANGED <<playerVars, doomed, unwinding>>

\* An active session is aborted first, and the handler waits for the
\* broadcast of the abort.
RequestSupersede(p, t) ==
  /\ Idle(p)
  /\ NewId(t)
  /\ Superseded(roomOf[p])
  /\ Close(active[roomOf[p]], "aborted")
  /\ Suspend(p, "superseding", t)
  /\ Broadcast(p, roomOf[p])
  /\ UNCHANGED <<playerVars, active, roomFor, requester, members, accepted, ready,
                 toInvite, doomed, unwinding>>

\* The slot is not looked at again.
RequestResume(p) ==
  /\ pc[p] = "superseding"
  /\ BroadcastMoves(p)
  /\ Create(p, job[p])
  /\ UNCHANGED <<playerVars, doomed, unwinding>>

\* Invitations go out one by one, each may wait for a slow socket.
Invite(p, q) ==
  /\ pc[p] = "inviting"
  /\ q \in toInvite[job[p]]
  /\ toInvite' = [toInvite EXCEPT ![job[p]] = @ \ {q}]
  /\ Stall(p, IF q \in connected THEN q ELSE None)
  /\ UNCHANGED <<playerVars, active, status, roomFor, requester, members, accepted,
                 ready, timer, doomed, unwinding, taskVars>>

InvitesSent(p) ==
  /\ pc[p] = "inviting"
  /\ toInvite[job[p]] = {}
  /\ SetTimeout(job[p], "invite")
  /\ Stall(p, None)
  /\ Finish(p)
  /\ UNCHANGED <<travelVars, playerVars, active, doomed, unwinding>>

-----------------------------------------------------------------------------
\* TRAVEL_RESPONSE and TRAVEL_READY, of the session in the slot of the room the
\* player is in now.

\* Mutant of EverybodyAccepted: one answer is enough.
SomebodyAccepted(t, yes) == yes # {}

EverybodyAccepted(t, yes) == yes = Invited(t)

Answers(p, t) ==
  /\ Idle(p)
  /\ active[roomOf[p]] = t
  /\ status[t] = "pending"
  /\ p \in Invited(t) \ toInvite[t]

Accept(p, t) ==
  LET yes == accepted[t] \cup {p}
  IN /\ Answers(p, t)
     /\ accepted' = [accepted EXCEPT ![t] = yes]
     /\ IF EverybodyAccepted(t, yes)
        THEN /\ status' = [status EXCEPT ![t] = "traveling"]
             /\ Suspend(p, "beginning", t)
             /\ Broadcast(p, roomFor[t])
        ELSE UNCHANGED <<status, taskVars, socketVars>>
     /\ UNCHANGED <<playerVars, active, roomFor, requester, members, ready, timer,
                    toInvite, doomed, unwinding>>

\* Mutant of ReadyPhase: the deadline for arrivals is not set.
NoPhase == None

ReadyPhase == "ready"

\* TRAVEL_BEGIN is out: arrivals have a deadline from now on.
Begun(p) ==
  /\ pc[p] = "beginning"
  /\ BroadcastMoves(p)
  /\ SetTimeout(job[p], ReadyPhase)
  /\ Finish(p)
  /\ UNCHANGED <<travelVars, playerVars, socketVars, active, doomed, unwinding>>

Decline(p, t) ==
  /\ Answers(p, t)
  /\ Close(t, "aborted")
  /\ Suspend(p, "closing", t)
  /\ Broadcast(p, roomFor[t])
  /\ UNCHANGED <<playerVars, active, roomFor, requester, members, accepted, ready,
                 toInvite, doomed, unwinding>>

Arrives(p, t) ==
  /\ Idle(p)
  /\ active[roomOf[p]] = t
  /\ status[t] = "traveling"
  /\ p \in members[t]

\* Mutant of EverybodyHere: the requester is not waited for.
InvitedHere(t, here) == Invited(t) \subseteq here

EverybodyHere(t, here) == here = members[t]

Ready(p, t) ==
  LET here == ready[t] \cup {p}
  IN /\ Arrives(p, t)
     /\ ready' = [ready EXCEPT ![t] = here]
     /\ IF EverybodyHere(t, here)
        THEN Close(t, "complete") /\ Suspend(p, "closing", t) /\ Broadcast(p, roomFor[t])
        ELSE UNCHANGED <<status, timer, taskVars, socketVars>>
     /\ UNCHANGED <<playerVars, active, roomFor, requester, members, accepted,
                    toInvite, doomed, unwinding>>

ReadyElsewhere(p, t) ==
  /\ Arrives(p, t)
  /\ Close(t, "aborted")
  /\ Suspend(p, "closing", t)
  /\ Broadcast(p, roomFor[t])
  /\ UNCHANGED <<playerVars, active, roomFor, requester, members, accepted, ready,
                 toInvite, doomed, unwinding>>

\* The outcome is out: the handler clears the slot.
Closed(p) ==
  /\ pc[p] = "closing"
  /\ BroadcastMoves(p)
  /\ Unslot(job[p])
  /\ Finish(p)
  /\ UNCHANGED <<travelVars, playerVars, socketVars, timer, doomed, unwinding>>

-----------------------------------------------------------------------------
\* Tasks of their own: watchdogs and the aborts of disconnects.

\* Aborting is idempotent.
AbortTask(t) ==
  IF Active(t)
  THEN Close(t, "aborted") /\ unwinding' = unwinding \cup {t}
  ELSE UNCHANGED <<status, unwinding>> /\ CancelTimeout(t)

Watchdog(t) ==
  /\ timer[t] # None
  /\ AbortTask(t)
  /\ UNCHANGED <<playerVars, taskVars, socketVars, active, roomFor, requester, members,
                 accepted, ready, toInvite, doomed>>

AbortDoomed(t) ==
  /\ t \in doomed
  /\ doomed' = doomed \ {t}
  /\ IF Active(t) THEN AbortTask(t) ELSE UNCHANGED <<status, timer, unwinding>>
  /\ UNCHANGED <<playerVars, taskVars, socketVars, active, roomFor, requester, members,
                 accepted, ready, toInvite>>

Unwind(t) ==
  /\ t \in unwinding
  /\ unwinding' = unwinding \ {t}
  /\ Unslot(t)
  /\ UNCHANGED <<travelVars, playerVars, taskVars, socketVars, timer, doomed>>

-----------------------------------------------------------------------------
\* The players around it.

\* Mutant of Bereaved: only the requester's travels are cancelled.
BereavedOfRequester(p) == {t \in Travel : Active(t) /\ p \in requester[t] /\ active[roomFor[t]] = t}

\* Mutant of Bereaved: empty slots are not skipped.
BereavedOrEmpty(p) ==
  {active[r] : r \in {x \in Room : active[x] = None \/ p \in members[active[x]]}}

\* The sessions cancel_on_disconnect finds in the slots.
Bereaved(p) == {t \in Travel : Active(t) /\ p \in members[t] /\ active[roomFor[t]] = t}

Connect(p) ==
  /\ p \notin connected
  /\ connected' = connected \cup {p}
  /\ UNCHANGED <<travelVars, taskVars, socketVars, roomOf, active, timer, doomed, unwinding>>

\* Whoever waits for the player's socket goes on.
Disconnect(p) ==
  /\ Idle(p)
  /\ connected' = connected \ {p}
  /\ doomed' = doomed \cup Bereaved(p)
  /\ stalledOn' = [x \in Player |-> IF stalledOn[x] = p THEN None ELSE stalledOn[x]]
  /\ UNCHANGED <<travelVars, taskVars, queuedBehind, roomOf, active, timer, unwinding>>

\* JOIN_ROOM does not touch the travels the player is in.
JoinRoom(p, r) ==
  /\ Idle(p)
  /\ roomOf[p] # r
  /\ roomOf' = [roomOf EXCEPT ![p] = r]
  /\ UNCHANGED <<travelVars, taskVars, socketVars, connected, active, timer, doomed, unwinding>>

Resume(p) ==
  \/ RequestResume(p)
  \/ \E q \in Player : Invite(p, q)
  \/ InvitesSent(p)
  \/ Begun(p)
  \/ Closed(p)

Next ==
  \/ \E p \in Player :
       \/ \E t \in Travel : \/ Request(p, t)
                            \/ RequestSupersede(p, t)
                            \/ Accept(p, t)
                            \/ Decline(p, t)
                            \/ Ready(p, t)
                            \/ ReadyElsewhere(p, t)
       \/ Resume(p)
       \/ Connect(p)
       \/ Disconnect(p)
       \/ \E r \in Room : JoinRoom(p, r)
  \/ \E t \in Travel : Watchdog(t) \/ AbortDoomed(t) \/ Unwind(t)

Spec == Init /\ [][Next]_vars

\* Handlers are resumed (a stalled socket is closed by the reaper), a travel's
\* tasks run and its timers fire.  No player has to do anything.
Fairness ==
  /\ \A p \in Player : WF_vars(Resume(p))
  /\ \A t \in Travel : WF_vars(Watchdog(t) \/ AbortDoomed(t) \/ Unwind(t))

FairSpec == Spec /\ Fairness

-----------------------------------------------------------------------------
\* Properties that hold.

Promise == INSTANCE GroupTravel WITH
  phase <- status, party <- members, leader <- requester,
  agreed <- accepted, arrived <- ready

\* All or nothing, whatever is superseded, timed out or cancelled meanwhile.
KeepsPromise == Promise!Spec

\* An active session always has a timer running, or a handler on its way to
\* arm one: no answer that never comes can keep a travel going.
EveryTravelHasDeadline ==
  \A t \in Travel : Active(t) =>
    timer[t] # None \/ \E p \in Player : pc[p] \in {"inviting", "beginning"} /\ job[p] = t

\* A room's slot that holds a finished session is about to be cleared or
\* reused by whoever finished it.
FinishedLeavesSlot ==
  \A r \in Room : active[r] # None /\ ~Active(active[r]) =>
    \/ active[r] \in unwinding
    \/ \E p \in Player : \/ pc[p] = "closing" /\ job[p] = active[r]
                         \/ pc[p] = "superseding" /\ roomOf[p] = r

\* A late clean-up never takes the slot from a newer session that is active.
ActiveKeepsSlot ==
  [][\A r \in Room, t \in Travel :
       active[r] = t /\ active'[r] = None => ~Active(t)']_vars

\* "the coordinator tears the session down when a member drops"
\* (coordinator.py): the session in a slot has lost a member only while its
\* abort is scheduled.
DropAborts ==
  \A r \in Room : active[r] # None /\ Active(active[r]) =>
    members[active[r]] \subseteq connected \/ active[r] \in doomed

\* Every travel ends, whatever its members do or leave undone.
EveryTravelEnds == \A t \in Travel : Active(t) ~> ~Active(t)

-----------------------------------------------------------------------------
\* Properties the repository states and the code does not have.

\* "One TravelSession is active per room at a time; a new TRAVEL_REQUEST
\* supersedes (aborts) the previous one" (docs/protocol.md).
OneTravelPerRoom ==
  \A t, u \in Travel : Active(t) /\ Active(u) /\ roomFor[t] = roomFor[u] => t = u

\* An invite timeout ends PENDING sessions, a ready timeout TRAVELING ones
\* (the state machine of docs/protocol.md): once TRAVEL_BEGIN is out, the
\* deadline of a traveling session is the one for arrivals.  (A session that
\* lost a member is about to be aborted and not asked about.)
TravelingHasReadyDeadline ==
  \A t \in Travel \ doomed :
    (status[t] = "traveling" /\ \A p \in Player : ~(pc[p] = "beginning" /\ job[p] = t)) =>
      timer[t] # "invite"
=============================================================================
