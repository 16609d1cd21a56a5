---------------------- MODULE TravelCoordinator_proofs ----------------------
(***************************************************************************)
(* The invariants of TravelCoordinator for any players, rooms and travels, *)
(* and the refinement of GroupTravel.                                      *)
(***************************************************************************)
EXTENDS TravelCoordinator, TLAPS

Finished(t) == status[t] \in {"complete", "aborted"}

\* What a suspended handler knows: its player is connected, the session of a
\* superseding request does not exist yet and is nobody else's, and a session
\* that is being closed is over.
TaskInv ==
  \A p \in Player :
    /\ pc[p] # "idle" => p \in connected /\ job[p] \in Travel
    /\ pc[p] = "superseding" =>
         /\ status[job[p]] = "new"
         /\ \A q \in Player : pc[q] # "idle" /\ job[q] = job[p] => q = p
    /\ pc[p] = "closing" => Finished(job[p])

\* A slot holds a session that exists, of its own room.
SlotInv ==
  \A r \in Room : active[r] # None =>
    status[active[r]] # "new" /\ roomFor[active[r]] = r

UnwindInv == \A t \in unwinding : Finished(t)

Base == CoordinatorTypeOK /\ TaskInv /\ SlotInv /\ UnwindInv

IInv == Base /\ EveryTravelHasDeadline /\ FinishedLeavesSlot /\ DropAborts

-----------------------------------------------------------------------------
\* The facts every step needs.

\* The id of a request names no session, and no handler works on it.
LEMMA NewIdIsNew ==
  ASSUME NEW t \in Travel, NewId(t)
  PROVE  status[t] = "new" /\ \A q \in Player : job[q] # t
<1>1. t \in Unused
  BY Zenon DEF NewId
<1> QED BY <1>1 DEF Unused

\* The initial state satisfies everything at once.
LEMMA InitBase == Init => IInv
  BY LobbyIsRoom DEF Init, IInv, Base, CoordinatorTypeOK, Status, TaskInv, SlotInv, UnwindInv,
                     EveryTravelHasDeadline, FinishedLeavesSlot, DropAborts, Active

\* A session comes into being.
LEMMA CreateBase ==
  ASSUME Base, NEW p \in Player, NEW t \in Travel, Create(p, t), p \in connected,
         status[t] = "new", \A q \in Player : pc[q] # "idle" /\ job[q] = t => q = p,
         UNCHANGED <<playerVars, doomed, unwinding>>
  PROVE  Base'
<1> DEFINE M == Present(roomOf[p]) \cup {p}
           phase == IF M = {p} THEN "traveling" ELSE "pending"
           where == IF M = {p} THEN "beginning" ELSE "inviting"
<1>1. /\ active' = [active EXCEPT ![roomOf[p]] = t]
      /\ status' = [status EXCEPT ![t] = phase]
      /\ roomFor' = [roomFor EXCEPT ![t] = roomOf[p]]
      /\ requester' = [requester EXCEPT ![t] = {p}]
      /\ members' = [members EXCEPT ![t] = M]
      /\ toInvite' = [toInvite EXCEPT ![t] = M \ {p}]
      /\ pc' = [pc EXCEPT ![p] = where]
      /\ job' = [job EXCEPT ![p] = t]
      /\ UNCHANGED <<accepted, ready, timer, connected, roomOf, doomed, unwinding>>
  BY DEF Create, Suspend, playerVars
<1>2. M \subseteq Player /\ phase \in {"pending", "traveling"} /\ where \in {"inviting", "beginning"}
  BY DEF Present, Base, CoordinatorTypeOK
<1> HIDE DEF M, phase, where
<1>3. CoordinatorTypeOK'
  BY <1>1, <1>2 DEF Base, CoordinatorTypeOK, Status
<1>4. TaskInv'
  BY <1>1, <1>2 DEF Base, CoordinatorTypeOK, TaskInv, Finished
<1>5. SlotInv'
  BY <1>1, <1>2, NoneIsNew DEF Base, CoordinatorTypeOK, SlotInv
<1>6. UnwindInv'
  BY <1>1, <1>2 DEF Base, CoordinatorTypeOK, UnwindInv, Finished
<1> QED BY <1>3, <1>4, <1>5, <1>6 DEF Base

\* TRAVEL_REQUEST keeps the basic facts, before and after it supersedes.
LEMMA RequestBase ==
  ASSUME Base, NEW p \in Player,
         (\E t \in Travel : Request(p, t) \/ RequestSupersede(p, t)) \/ RequestResume(p)
  PROVE  Base'
<1>1. ASSUME NEW t \in Travel, Request(p, t) PROVE Base'
  BY <1>1, CreateBase, NewIdIsNew DEF Request, Idle
<1>2. ASSUME NEW t \in Travel, RequestSupersede(p, t) PROVE Base'
  <2> DEFINE old == active[roomOf[p]]
  <2>1. old \in Travel /\ Active(old) /\ roomOf[p] \in Room
    BY <1>2 DEF RequestSupersede, Superseded, Base, CoordinatorTypeOK
  <2>2. /\ status' = [status EXCEPT ![old] = "aborted"]
        /\ timer' = [timer EXCEPT ![old] = None]
        /\ pc' = [pc EXCEPT ![p] = "superseding"]
        /\ job' = [job EXCEPT ![p] = t]
        /\ UNCHANGED <<connected, roomOf, active, roomFor, requester, members, accepted,
                       ready, toInvite, doomed, unwinding>>
    BY <1>2 DEF RequestSupersede, Close, CancelTimeout, SetTimeout, Suspend, playerVars
  <2>3. status[t] = "new" /\ (\A q \in Player : job[q] # t) /\ p \in connected
    BY <1>2, NewIdIsNew DEF RequestSupersede, Idle
  <2>4. status[old] # "new"
    BY <2>1 DEF Active
  <2> HIDE DEF old
  <2>5. CoordinatorTypeOK'
    BY <2>1, <2>2 DEF Base, CoordinatorTypeOK, Status
  <2>6. TaskInv'
    BY <2>1, <2>2, <2>3, <2>4 DEF Base, CoordinatorTypeOK, TaskInv, Finished
  <2>7. SlotInv' /\ UnwindInv'
    BY <2>1, <2>2 DEF Base, CoordinatorTypeOK, SlotInv, UnwindInv, Finished
  <2> QED BY <2>5, <2>6, <2>7 DEF Base
<1>3. CASE RequestResume(p)
  <2>1. /\ job[p] \in Travel /\ p \in connected /\ status[job[p]] = "new"
        /\ \A q \in Player : pc[q] # "idle" /\ job[q] = job[p] => q = p
    BY <1>3 DEF RequestResume, Base, TaskInv
  <2> QED BY <1>3, <2>1, CreateBase DEF RequestResume
<1> QED BY <1>1, <1>2, <1>3

\* So do the invitations and the ends of suspended handlers.
LEMMA HandlerEndsBase ==
  ASSUME Base, NEW p \in Player,
         (\E q \in Player : Invite(p, q)) \/ InvitesSent(p) \/ Begun(p) \/ Closed(p)
  PROVE  Base'
<1>1. ASSUME NEW q \in Player, Invite(p, q) PROVE Base'
  BY <1>1 DEF Invite, Base, CoordinatorTypeOK, TaskInv, SlotInv, UnwindInv, Finished, playerVars, taskVars
<1>2. CASE InvitesSent(p)
  <2>1. /\ timer' = [timer EXCEPT ![job[p]] = "invite"]
        /\ pc' = [pc EXCEPT ![p] = "idle"]
        /\ job' = [job EXCEPT ![p] = None]
        /\ UNCHANGED <<connected, roomOf, active, status, roomFor, requester, members, accepted,
                       ready, toInvite, doomed, unwinding>>
    BY <1>2 DEF InvitesSent, SetTimeout, Finish, Suspend, playerVars, travelVars
  <2>2. CoordinatorTypeOK'
    BY <2>1 DEF Base, CoordinatorTypeOK
  <2>3. TaskInv'
    BY <2>1 DEF Base, CoordinatorTypeOK, TaskInv, Finished
  <2>4. SlotInv' /\ UnwindInv'
    BY <2>1 DEF Base, CoordinatorTypeOK, SlotInv, UnwindInv, Finished
  <2> QED BY <2>2, <2>3, <2>4 DEF Base
<1>3. CASE Begun(p)
  <2>1. /\ timer' = [timer EXCEPT ![job[p]] = "ready"]
        /\ pc' = [pc EXCEPT ![p] = "idle"]
        /\ job' = [job EXCEPT ![p] = None]
        /\ UNCHANGED <<connected, roomOf, active, status, roomFor, requester, members, accepted,
                       ready, toInvite, doomed, unwinding>>
    BY <1>3 DEF Begun, ReadyPhase, SetTimeout, Finish, Suspend, playerVars, travelVars
  <2>2. CoordinatorTypeOK'
    BY <2>1 DEF Base, CoordinatorTypeOK
  <2>3. TaskInv'
    BY <2>1 DEF Base, CoordinatorTypeOK, TaskInv, Finished
  <2>4. SlotInv' /\ UnwindInv'
    BY <2>1 DEF Base, CoordinatorTypeOK, SlotInv, UnwindInv, Finished
  <2> QED BY <2>2, <2>3, <2>4 DEF Base
<1>4. CASE Closed(p)
  <2>1. /\ active' = [active EXCEPT ![roomFor[job[p]]] = IF @ = job[p] THEN None ELSE @]
        /\ pc' = [pc EXCEPT ![p] = "idle"]
        /\ job' = [job EXCEPT ![p] = None]
        /\ UNCHANGED <<connected, roomOf, status, roomFor, requester, members, accepted, ready,
                       toInvite, timer, doomed, unwinding>>
    BY <1>4 DEF Closed, Unslot, Finish, Suspend, playerVars, travelVars
  <2>2. CoordinatorTypeOK'
    BY <2>1 DEF Base, CoordinatorTypeOK
  <2>3. TaskInv'
    BY <2>1 DEF Base, CoordinatorTypeOK, TaskInv, Finished
  <2>4. SlotInv' /\ UnwindInv'
    BY <2>1 DEF Base, CoordinatorTypeOK, SlotInv, UnwindInv, Finished
  <2> QED BY <2>2, <2>3, <2>4 DEF Base
<1> QED BY <1>1, <1>2, <1>3, <1>4

\* A handler that ends session t, and waits for the outcome to be broadcast.
LEMMA CloseBase ==
  ASSUME Base, NEW p \in Player, NEW t \in Travel, Idle(p), Active(t),
         NEW outcome \in {"complete", "aborted"}, Close(t, outcome), Suspend(p, "closing", t),
         ready' \in [Travel -> SUBSET Player],
         UNCHANGED <<playerVars, active, roomFor, requester, members, accepted,
                     toInvite, doomed, unwinding>>
  PROVE  Base'
<1>1. /\ status' = [status EXCEPT ![t] = outcome]
      /\ timer' = [timer EXCEPT ![t] = None]
      /\ pc' = [pc EXCEPT ![p] = "closing"]
      /\ job' = [job EXCEPT ![p] = t]
      /\ UNCHANGED <<connected, roomOf>>
  BY DEF Close, CancelTimeout, SetTimeout, Suspend, playerVars
<1>2. CoordinatorTypeOK'
  BY <1>1 DEF Base, CoordinatorTypeOK, Status
<1>3. TaskInv'
  BY <1>1 DEF Base, CoordinatorTypeOK, TaskInv, Finished, Idle, Active
<1>4. SlotInv' /\ UnwindInv'
  BY <1>1 DEF Base, CoordinatorTypeOK, SlotInv, UnwindInv, Finished
<1> QED BY <1>2, <1>3, <1>4 DEF Base

\* TRAVEL_RESPONSE and TRAVEL_READY.
LEMMA AnswerBase ==
  ASSUME Base, NEW p \in Player, NEW t \in Travel,
         Accept(p, t) \/ Decline(p, t) \/ Ready(p, t) \/ ReadyElsewhere(p, t)
  PROVE  Base'
<1>1. CASE Accept(p, t)
  <2>1. Idle(p) /\ status[t] = "pending"
    BY <1>1 DEF Accept, Answers
  <2>2. /\ accepted' = [accepted EXCEPT ![t] = @ \cup {p}]
        /\ \/ /\ status' = [status EXCEPT ![t] = "traveling"]
              /\ pc' = [pc EXCEPT ![p] = "beginning"]
              /\ job' = [job EXCEPT ![p] = t]
           \/ UNCHANGED <<status, pc, job>>
        /\ UNCHANGED <<connected, roomOf, active, roomFor, requester, members, ready, timer,
                       toInvite, doomed, unwinding>>
    BY <1>1 DEF Accept, Suspend, taskVars, playerVars, Base, CoordinatorTypeOK
  <2>3. CoordinatorTypeOK'
    BY <2>2 DEF Base, CoordinatorTypeOK, Status
  <2>4. TaskInv'
    BY <2>1, <2>2 DEF Base, CoordinatorTypeOK, TaskInv, Finished, Idle
  <2>5. SlotInv' /\ UnwindInv'
    BY <2>1, <2>2 DEF Base, CoordinatorTypeOK, SlotInv, UnwindInv, Finished
  <2> QED BY <2>3, <2>4, <2>5 DEF Base
<1>2. CASE Decline(p, t)
  <2>1. Idle(p) /\ Active(t) /\ ready' \in [Travel -> SUBSET Player]
    BY <1>2 DEF Decline, Answers, Active, Base, CoordinatorTypeOK
  <2> QED BY <1>2, <2>1, CloseBase DEF Decline
<1>3. CASE Ready(p, t)
  <2>1. Idle(p) /\ Active(t) /\ ready' \in [Travel -> SUBSET Player]
    BY <1>3 DEF Ready, Arrives, Active, Base, CoordinatorTypeOK
  <2>2. UNCHANGED <<playerVars, active, roomFor, requester, members, accepted,
                    toInvite, doomed, unwinding>>
    BY <1>3 DEF Ready
  <2>3. CASE EverybodyHere(t, ready[t] \cup {p})
    BY <1>3, <2>1, <2>2, <2>3, CloseBase DEF Ready
  <2>4. CASE ~EverybodyHere(t, ready[t] \cup {p})
    <3>1. UNCHANGED <<status, timer, pc, job>>
      BY <1>3, <2>4 DEF Ready, taskVars
    <3> QED BY <2>1, <2>2, <3>1
          DEF Base, CoordinatorTypeOK, TaskInv, SlotInv, UnwindInv, Finished, playerVars
  <2> QED BY <2>3, <2>4
<1>4. CASE ReadyElsewhere(p, t)
  <2>1. Idle(p) /\ Active(t) /\ ready' \in [Travel -> SUBSET Player]
    BY <1>4 DEF ReadyElsewhere, Arrives, Active, Base, CoordinatorTypeOK
  <2> QED BY <1>4, <2>1, CloseBase DEF ReadyElsewhere
<1> QED BY <1>1, <1>2, <1>3, <1>4

\* Watchdogs, scheduled aborts and their clean-ups.
LEMMA TaskBase ==
  ASSUME Base, NEW t \in Travel, Watchdog(t) \/ AbortDoomed(t) \/ Unwind(t)
  PROVE  Base'
<1>1. CASE Watchdog(t) \/ AbortDoomed(t)
  <2>1. /\ UNCHANGED <<connected, roomOf, pc, job, active, roomFor, requester, members,
                       accepted, ready, toInvite>>
        /\ doomed' \subseteq doomed
        /\ timer' \in {timer, [timer EXCEPT ![t] = None]}
        /\ \/ /\ Active(t)
              /\ status' = [status EXCEPT ![t] = "aborted"]
              /\ unwinding' = unwinding \cup {t}
           \/ UNCHANGED <<status, unwinding>>
    BY <1>1 DEF Watchdog, AbortDoomed, AbortTask, Close, CancelTimeout, SetTimeout,
                playerVars, taskVars
  <2>2. CoordinatorTypeOK'
    BY <2>1 DEF Base, CoordinatorTypeOK, Status
  <2>3. TaskInv'
    BY <2>1 DEF Base, CoordinatorTypeOK, TaskInv, Finished, Active
  <2>4. SlotInv' /\ UnwindInv'
    BY <2>1 DEF Base, CoordinatorTypeOK, SlotInv, UnwindInv, Finished
  <2> QED BY <2>2, <2>3, <2>4 DEF Base
<1>2. CASE Unwind(t)
  <2>1. /\ active' = [active EXCEPT ![roomFor[t]] = IF @ = t THEN None ELSE @]
        /\ unwinding' = unwinding \ {t}
        /\ UNCHANGED <<connected, roomOf, status, roomFor, requester, members, accepted, ready,
                       toInvite, timer, doomed, pc, job>>
    BY <1>2 DEF Unwind, Unslot, playerVars, travelVars, taskVars
  <2>2. CoordinatorTypeOK'
    BY <2>1 DEF Base, CoordinatorTypeOK
  <2>3. TaskInv'
    BY <2>1 DEF Base, CoordinatorTypeOK, TaskInv, Finished
  <2>4. SlotInv' /\ UnwindInv'
    BY <2>1 DEF Base, CoordinatorTypeOK, SlotInv, UnwindInv, Finished
  <2> QED BY <2>2, <2>3, <2>4 DEF Base
<1> QED BY <1>1, <1>2

\* Players that connect, drop and move.
LEMMA PlayerBase ==
  ASSUME Base, NEW p \in Player,
         Connect(p) \/ Disconnect(p) \/ \E r \in Room : JoinRoom(p, r)
  PROVE  Base'
<1>1. CASE Connect(p)
  BY <1>1 DEF Connect, Base, CoordinatorTypeOK, TaskInv, SlotInv, UnwindInv, Finished, travelVars, taskVars
<1>2. CASE Disconnect(p)
  <2>1. /\ pc[p] = "idle" /\ connected' = connected \ {p}
        /\ doomed' = doomed \cup Bereaved(p) /\ Bereaved(p) \subseteq Travel
        /\ UNCHANGED <<roomOf, active, status, roomFor, requester, members, accepted, ready,
                       toInvite, timer, unwinding, pc, job>>
    BY <1>2 DEF Disconnect, Idle, Bereaved, travelVars, taskVars
  <2> QED BY <2>1 DEF Base, CoordinatorTypeOK, TaskInv, SlotInv, UnwindInv, Finished
<1>3. ASSUME NEW r \in Room, JoinRoom(p, r) PROVE Base'
  BY <1>3 DEF JoinRoom, Base, CoordinatorTypeOK, TaskInv, SlotInv, UnwindInv, Finished, travelVars, taskVars
<1> QED BY <1>1, <1>2, <1>3

\* Steps of other components.
LEMMA StutterBase == ASSUME Base, UNCHANGED vars PROVE Base'
  BY DEF Base, CoordinatorTypeOK, TaskInv, SlotInv, UnwindInv, Finished, vars, travelVars, playerVars, taskVars

\* Base is inductive.
LEMMA NextBase == ASSUME Base, [Next]_vars PROVE Base'
<1>1. CASE Next
  BY <1>1, RequestBase, HandlerEndsBase, AnswerBase, TaskBase, PlayerBase DEF Next, Resume
<1> QED BY <1>1, StutterBase

\* The basic facts about handlers, slots and clean-ups always hold.
THEOREM BaseCorrect == Spec => []Base
<1>1. Init => Base
  BY InitBase DEF IInv
<1>2. Base /\ [Next]_vars => Base'
  BY NextBase
<1> QED BY <1>1, <1>2, PTL DEF Spec

\* Where handlers wait keeps its types.
LEMMA SocketStep ==
  ASSUME SocketTypeOK, [Next]_vars
  PROVE  SocketTypeOK'
<1>1. ASSUME NEW p \in Player, NEW r, Broadcast(p, r) PROVE SocketTypeOK'
  BY <1>1 DEF Broadcast, SocketTypeOK
<1>2. ASSUME NEW p \in Player, NEW q \in Player \cup {None}, Stall(p, q) PROVE SocketTypeOK'
  BY <1>2 DEF Stall, SocketTypeOK
<1>3. ASSUME UNCHANGED socketVars PROVE SocketTypeOK'
  BY <1>3 DEF socketVars, SocketTypeOK
<1>4. ASSUME NEW p \in Player, NEW t \in Travel, Request(p, t) \/ RequestSupersede(p, t)
      PROVE  SocketTypeOK'
  BY <1>1, <1>4 DEF Request, RequestSupersede, Create
<1>5. ASSUME NEW p \in Player, NEW t \in Travel,
             Accept(p, t) \/ Decline(p, t) \/ Ready(p, t) \/ ReadyElsewhere(p, t)
      PROVE  SocketTypeOK'
  BY <1>1, <1>3, <1>5 DEF Accept, Decline, Ready, ReadyElsewhere
<1>6. ASSUME NEW p \in Player, Resume(p) PROVE SocketTypeOK'
  <2>1. CASE RequestResume(p)
    BY <1>1, <2>1 DEF RequestResume, Create
  <2>2. ASSUME NEW q \in Player, Invite(p, q) PROVE SocketTypeOK'
    BY <1>2, <2>2 DEF Invite
  <2>3. CASE InvitesSent(p)
    BY <1>2, <2>3 DEF InvitesSent
  <2>4. CASE Begun(p) \/ Closed(p)
    BY <1>3, <2>4 DEF Begun, Closed, socketVars
  <2> QED BY <1>6, <2>1, <2>2, <2>3, <2>4 DEF Resume
<1>7. ASSUME NEW p \in Player, Connect(p) \/ \E r \in Room : JoinRoom(p, r) PROVE SocketTypeOK'
  BY <1>3, <1>7 DEF Connect, JoinRoom, socketVars
<1>8. ASSUME NEW p \in Player, Disconnect(p) PROVE SocketTypeOK'
  BY <1>8 DEF Disconnect, SocketTypeOK
<1>9. ASSUME NEW t \in Travel, Watchdog(t) \/ AbortDoomed(t) \/ Unwind(t) PROVE SocketTypeOK'
  BY <1>3, <1>9 DEF Watchdog, AbortDoomed, Unwind, socketVars
<1>10. CASE UNCHANGED vars
  BY <1>3, <1>10 DEF vars, socketVars
<1> QED BY <1>4, <1>5, <1>6, <1>7, <1>8, <1>9, <1>10 DEF Next

\* The state keeps its types.
THEOREM TravelTypeCorrect == Spec => []TypeOK
<1>1. Init => SocketTypeOK
  BY DEF Init, SocketTypeOK
<1>2. SocketTypeOK /\ [Next]_vars => SocketTypeOK'
  BY SocketStep
<1>3. Base /\ SocketTypeOK => TypeOK
  BY DEF Base, TypeOK
<1> QED BY <1>1, <1>2, <1>3, BaseCorrect, PTL DEF Spec

-----------------------------------------------------------------------------
\* Deadlines.

\* A handler is on its way to set a timer of t.
WillArm(t) == \E p \in Player : pc[p] \in {"inviting", "beginning"} /\ job[p] = t

\* A step that takes away a timer or a handler leaves the other, or ends the
\* session.
LEMMA DeadlineStep ==
  ASSUME Base, EveryTravelHasDeadline, [Next]_vars
  PROVE  EveryTravelHasDeadline'
<1> USE DEF WillArm
<1> SUFFICES ASSUME NEW u \in Travel, Active(u)' PROVE timer'[u] # None \/ WillArm(u)'
  BY DEF EveryTravelHasDeadline
<1>1. Active(u) => timer[u] # None \/ WillArm(u)
  BY DEF EveryTravelHasDeadline
<1>2. ASSUME NEW p \in Player, NEW t \in Travel, Create(p, t), pc[p] \in {"idle", "superseding"}
      PROVE  timer'[u] # None \/ WillArm(u)'
  <2>1. /\ pc'[p] \in {"inviting", "beginning"} /\ job'[p] = t
        /\ \A q \in Player \ {p} : pc'[q] = pc[q] /\ job'[q] = job[q]
        /\ u # t => status'[u] = status[u]
        /\ timer' = timer
    BY <1>2 DEF Create, Suspend, Base, CoordinatorTypeOK
  <2>2. CASE u = t
    BY <2>1, <2>2
  <2>3. CASE u # t
    BY <1>1, <1>2, <2>1, <2>3 DEF Active
  <2> QED BY <2>2, <2>3
<1>3. ASSUME NEW p \in Player, NEW t \in Travel, Request(p, t) \/ RequestSupersede(p, t)
      PROVE  timer'[u] # None \/ WillArm(u)'
  <2>1. CASE Request(p, t)
    BY <1>2, <2>1 DEF Request, Idle
  <2>2. CASE RequestSupersede(p, t)
    <3> DEFINE old == active[roomOf[p]]
    <3>1. old \in Travel /\ pc[p] = "idle"
      BY <2>2 DEF RequestSupersede, Superseded, Idle, Base, CoordinatorTypeOK
    <3>2. /\ status' = [status EXCEPT ![old] = "aborted"]
          /\ timer' = [timer EXCEPT ![old] = None]
          /\ pc' = [pc EXCEPT ![p] = "superseding"]
          /\ job' = [job EXCEPT ![p] = t]
      BY <2>2 DEF RequestSupersede, Close, CancelTimeout, SetTimeout, Suspend
    <3> HIDE DEF old
    <3> QED BY <1>1, <3>1, <3>2 DEF Active, Base, CoordinatorTypeOK
  <2> QED BY <1>3, <2>1, <2>2
<1>4. ASSUME NEW p \in Player, Resume(p)
      PROVE  timer'[u] # None \/ WillArm(u)'
  <2>1. CASE RequestResume(p)
    BY <1>2, <2>1 DEF RequestResume, Base, TaskInv
  <2>2. ASSUME NEW q \in Player, Invite(p, q) PROVE timer'[u] # None \/ WillArm(u)'
    BY <1>1, <2>2 DEF Invite, Active, taskVars
  <2>3. CASE InvitesSent(p) \/ Begun(p)
    <3>1. PICK phase \in {"invite", "ready"} :
            /\ timer' = [timer EXCEPT ![job[p]] = phase]
            /\ pc' = [pc EXCEPT ![p] = "idle"]
            /\ job' = [job EXCEPT ![p] = None]
            /\ status' = status
      BY <2>3 DEF InvitesSent, Begun, ReadyPhase, SetTimeout, Finish, Suspend, travelVars
    <3>2. phase # None
      BY NoneIsNew
    <3> QED BY <1>1, <3>1, <3>2 DEF Active, Base, CoordinatorTypeOK
  <2>4. CASE Closed(p)
    BY <1>1, <2>4 DEF Closed, Finish, Suspend, Active, Base, CoordinatorTypeOK, travelVars
  <2> QED BY <1>4, <2>1, <2>2, <2>3, <2>4 DEF Resume
<1>5. ASSUME NEW p \in Player, NEW t \in Travel, Accept(p, t)
      PROVE  timer'[u] # None \/ WillArm(u)'
  <2>1. /\ timer' = timer /\ pc[p] = "idle" /\ Active(t)
        /\ \/ /\ status' = [status EXCEPT ![t] = "traveling"]
              /\ pc' = [pc EXCEPT ![p] = "beginning"]
              /\ job' = [job EXCEPT ![p] = t]
           \/ UNCHANGED <<status, pc, job>>
    BY <1>5 DEF Accept, Answers, Idle, Active, Suspend, taskVars
  <2> QED BY <1>1, <2>1 DEF Active, Base, CoordinatorTypeOK
<1>6. ASSUME NEW p \in Player, NEW t \in Travel, Decline(p, t) \/ Ready(p, t) \/ ReadyElsewhere(p, t)
      PROVE  timer'[u] # None \/ WillArm(u)'
  <2>1. /\ pc[p] = "idle"
        /\ \/ /\ status' \in {[status EXCEPT ![t] = outcome] : outcome \in {"complete", "aborted"}}
              /\ timer' = [timer EXCEPT ![t] = None]
              /\ pc' = [pc EXCEPT ![p] = "closing"]
              /\ job' = [job EXCEPT ![p] = t]
           \/ UNCHANGED <<status, timer, pc, job>>
    BY <1>6 DEF Decline, Answers, Ready, ReadyElsewhere, Arrives, Idle, Close, CancelTimeout,
                SetTimeout, Suspend, taskVars
  <2> QED BY <1>1, <2>1 DEF Active, Base, CoordinatorTypeOK
<1>7. ASSUME NEW t \in Travel, Watchdog(t) \/ AbortDoomed(t) \/ Unwind(t)
      PROVE  timer'[u] # None \/ WillArm(u)'
  <2>1. /\ UNCHANGED <<pc, job>>
        /\ \/ /\ status' = [status EXCEPT ![t] = "aborted"]
              /\ timer' = [timer EXCEPT ![t] = None]
           \/ ~Active(t) /\ status' = status /\ timer' = [timer EXCEPT ![t] = None]
           \/ UNCHANGED <<status, timer>>
    BY <1>7 DEF Watchdog, AbortDoomed, Unwind, AbortTask, Close, CancelTimeout, SetTimeout,
                taskVars, travelVars
  <2> QED BY <1>1, <2>1 DEF Active, Base, CoordinatorTypeOK
<1>8. ASSUME NEW p \in Player, Connect(p) \/ Disconnect(p) \/ \E r \in Room : JoinRoom(p, r)
      PROVE  timer'[u] # None \/ WillArm(u)'
  BY <1>1, <1>8 DEF Connect, Disconnect, JoinRoom, Active, travelVars, taskVars
<1>9. CASE UNCHANGED vars
  BY <1>1, <1>9 DEF vars, travelVars, taskVars, Active
<1> QED BY <1>3, <1>4, <1>5, <1>6, <1>7, <1>8, <1>9 DEF Next

\* No travel can hang: whatever players do, an active session has a timer, or
\* a handler that will set one.
THEOREM EveryTravelHasDeadlineCorrect == Spec => []EveryTravelHasDeadline
<1>1. Init => EveryTravelHasDeadline
  BY InitBase DEF IInv
<1>2. Base /\ EveryTravelHasDeadline /\ [Next]_vars => EveryTravelHasDeadline'
  BY DeadlineStep
<1> QED BY <1>1, <1>2, BaseCorrect, PTL DEF Spec

-----------------------------------------------------------------------------
\* Slots.

\* Somebody will still clear or reuse the slot of room r.
Leaving(r) ==
  \/ active[r] \in unwinding
  \/ \E p \in Player : \/ pc[p] = "closing" /\ job[p] = active[r]
                       \/ pc[p] = "superseding" /\ roomOf[p] = r

\* A step that ends a session in a slot leaves somebody to clear the slot.
LEMMA SlotStep ==
  ASSUME Base, FinishedLeavesSlot, [Next]_vars
  PROVE  FinishedLeavesSlot'
<1> USE DEF Leaving
<1> SUFFICES ASSUME NEW r \in Room, active'[r] # None, ~Active(active[r])'
             PROVE  Leaving(r)'
  BY DEF FinishedLeavesSlot
<1>1. active[r] # None /\ ~Active(active[r]) => Leaving(r)
  BY DEF FinishedLeavesSlot
<1>2. /\ active[r] # None => active[r] \in Travel /\ status[active[r]] # "new"
      /\ \A s \in Room : active[s] = active[r] /\ active[r] # None => s = r
  BY DEF Base, SlotInv, CoordinatorTypeOK
<1>3. ASSUME NEW p \in Player, NEW t \in Travel, Create(p, t), status[t] = "new",
             pc[p] \in {"idle", "superseding"}, UNCHANGED <<playerVars, doomed, unwinding>>
      PROVE  Leaving(r)'
  <2>1. /\ active' = [active EXCEPT ![roomOf[p]] = t]
        /\ status'[t] \in {"pending", "traveling"}
        /\ \A v \in Travel \ {t} : status'[v] = status[v]
        /\ \A q \in Player \ {p} : pc'[q] = pc[q] /\ job'[q] = job[q]
        /\ roomOf' = roomOf /\ unwinding' = unwinding
    BY <1>3 DEF Create, Suspend, playerVars, Base, CoordinatorTypeOK
  <2>2. roomOf[p] # r
    BY <2>1 DEF Active, Base, CoordinatorTypeOK
  <2>3. active'[r] = active[r] /\ active[r] # t
    BY <1>2, <1>3, <2>1, <2>2 DEF Base, CoordinatorTypeOK
  <2> QED BY <1>1, <1>2, <1>3, <2>1, <2>2, <2>3 DEF Active
<1>4. ASSUME NEW p \in Player, NEW t \in Travel, Request(p, t) \/ RequestSupersede(p, t)
      PROVE  Leaving(r)'
  <2>1. CASE Request(p, t)
    BY <1>3, <2>1, NewIdIsNew DEF Request, Idle
  <2>2. CASE RequestSupersede(p, t)
    <3> DEFINE old == active[roomOf[p]]
    <3>1. old \in Travel /\ old # None /\ pc[p] = "idle" /\ roomOf[p] \in Room
      BY <2>2 DEF RequestSupersede, Superseded, Idle, Base, CoordinatorTypeOK
    <3>2. /\ status' = [status EXCEPT ![old] = "aborted"]
          /\ pc' = [pc EXCEPT ![p] = "superseding"]
          /\ job' = [job EXCEPT ![p] = t]
          /\ UNCHANGED <<active, roomOf, unwinding>>
      BY <2>2 DEF RequestSupersede, Close, Suspend, playerVars
    <3>3. CASE r = roomOf[p]
      BY <3>1, <3>2, <3>3 DEF Base, CoordinatorTypeOK
    <3>4. CASE r # roomOf[p]
      <4>1. active[r] # old
        BY <1>2, <3>1, <3>2, <3>4
      <4> HIDE DEF old
      <4> QED BY <1>1, <1>2, <3>1, <3>2, <4>1 DEF Active, Base, CoordinatorTypeOK
    <3> QED BY <3>3, <3>4
  <2> QED BY <1>4, <2>1, <2>2
<1>5. ASSUME NEW t \in Travel, Unslot(t), status' = status, roomOf' = roomOf,
             \/ /\ unwinding' = unwinding \ {t}
                /\ UNCHANGED <<pc, job>>
             \/ /\ unwinding' = unwinding
                /\ \E p \in Player : /\ pc[p] = "closing" /\ job[p] = t
                                     /\ \A q \in Player \ {p} : pc'[q] = pc[q] /\ job'[q] = job[q]
      PROVE  Leaving(r)'
  <2>1. active'[r] = active[r]
    BY <1>5 DEF Unslot, Base, CoordinatorTypeOK
  <2>2. active[r] # t
    BY <1>5, <2>1 DEF Unslot, Base, CoordinatorTypeOK, SlotInv
  <2> QED BY <1>1, <1>5, <2>1, <2>2 DEF Active
<1>6. ASSUME NEW p \in Player, Resume(p) PROVE Leaving(r)'
  <2>1. CASE RequestResume(p)
    BY <1>3, <2>1 DEF RequestResume, Base, TaskInv
  <2>2. ASSUME NEW q \in Player, Invite(p, q) PROVE Leaving(r)'
    BY <1>1, <2>2 DEF Invite, Active, taskVars, playerVars
  <2>3. CASE InvitesSent(p) \/ Begun(p)
    <3>1. /\ pc[p] \in {"inviting", "beginning"}
          /\ pc' = [pc EXCEPT ![p] = "idle"]
          /\ job' = [job EXCEPT ![p] = None]
          /\ UNCHANGED <<status, active, roomOf, unwinding>>
      BY <2>3 DEF InvitesSent, Begun, Finish, Suspend, travelVars, playerVars
    <3> QED BY <1>1, <3>1 DEF Active, Base, CoordinatorTypeOK
  <2>4. CASE Closed(p)
    <3>1. job[p] \in Travel
      BY <2>4 DEF Closed, Base, TaskInv, CoordinatorTypeOK
    <3>2. /\ Unslot(job[p]) /\ pc[p] = "closing"
          /\ UNCHANGED <<status, roomOf, unwinding>>
          /\ \A q \in Player \ {p} : pc'[q] = pc[q] /\ job'[q] = job[q]
      BY <2>4 DEF Closed, Finish, Suspend, travelVars, playerVars, Base, CoordinatorTypeOK
    <3> QED BY <1>5, <3>1, <3>2
  <2> QED BY <1>6, <2>1, <2>2, <2>3, <2>4 DEF Resume
<1>7. ASSUME NEW p \in Player, NEW t \in Travel, Accept(p, t) PROVE Leaving(r)'
  <2>1. /\ pc[p] = "idle" /\ Active(t) /\ UNCHANGED <<active, roomOf, unwinding>>
        /\ \/ /\ status' = [status EXCEPT ![t] = "traveling"]
              /\ pc' = [pc EXCEPT ![p] = "beginning"]
              /\ job' = [job EXCEPT ![p] = t]
           \/ UNCHANGED <<status, pc, job>>
    BY <1>7 DEF Accept, Answers, Idle, Active, Suspend, taskVars, playerVars
  <2> QED BY <1>1, <1>2, <2>1 DEF Active, Base, CoordinatorTypeOK
<1>8. ASSUME NEW p \in Player, NEW t \in Travel, Decline(p, t) \/ Ready(p, t) \/ ReadyElsewhere(p, t)
      PROVE  Leaving(r)'
  <2>1. /\ pc[p] = "idle" /\ Active(t) /\ UNCHANGED <<active, roomOf, unwinding>>
        /\ \/ /\ \A v \in Travel \ {t} : status'[v] = status[v]
              /\ pc' = [pc EXCEPT ![p] = "closing"]
              /\ job' = [job EXCEPT ![p] = t]
           \/ UNCHANGED <<status, pc, job>>
    BY <1>8 DEF Decline, Answers, Ready, ReadyElsewhere, Arrives, Idle, Active, Close,
                Suspend, taskVars, playerVars, Base, CoordinatorTypeOK
  <2> QED BY <1>1, <1>2, <2>1 DEF Active, Base, CoordinatorTypeOK
<1>9. ASSUME NEW t \in Travel, Watchdog(t) \/ AbortDoomed(t) PROVE Leaving(r)'
  <2>1. /\ UNCHANGED <<active, roomOf, pc, job>>
        /\ \/ /\ status' = [status EXCEPT ![t] = "aborted"]
              /\ unwinding' = unwinding \cup {t}
           \/ UNCHANGED <<status, unwinding>>
    BY <1>9 DEF Watchdog, AbortDoomed, AbortTask, Close, playerVars, taskVars
  <2> QED BY <1>1, <1>2, <2>1 DEF Active, Base, CoordinatorTypeOK
<1>10. ASSUME NEW t \in Travel, Unwind(t) PROVE Leaving(r)'
  <2>1. /\ Unslot(t) /\ unwinding' = unwinding \ {t}
        /\ UNCHANGED <<status, roomOf, pc, job>>
    BY <1>10 DEF Unwind, travelVars, playerVars, taskVars, Base, CoordinatorTypeOK
  <2> QED BY <1>5, <2>1
<1>11. ASSUME NEW p \in Player, Connect(p) \/ Disconnect(p) \/ \E s \in Room : JoinRoom(p, s)
       PROVE  Leaving(r)'
  <2>1. /\ UNCHANGED <<active, status, unwinding, pc, job>>
        /\ \A q \in Player : pc[q] # "idle" => roomOf'[q] = roomOf[q]
    BY <1>11 DEF Connect, Disconnect, JoinRoom, Idle, travelVars, taskVars, Base, CoordinatorTypeOK
  <2> QED BY <1>1, <2>1 DEF Active
<1>12. CASE UNCHANGED vars
  BY <1>1, <1>12 DEF vars, travelVars, playerVars, taskVars, Active
<1> QED BY <1>4, <1>6, <1>7, <1>8, <1>9, <1>10, <1>11, <1>12 DEF Next

\* A finished session leaves its slot: whoever finished it is about to do so.
THEOREM FinishedLeavesSlotCorrect == Spec => []FinishedLeavesSlot
<1>1. Init => FinishedLeavesSlot
  BY InitBase DEF IInv
<1>2. Base /\ FinishedLeavesSlot /\ [Next]_vars => FinishedLeavesSlot'
  BY SlotStep
<1> QED BY <1>1, <1>2, BaseCorrect, PTL DEF Spec

-----------------------------------------------------------------------------
\* Members that drop.

\* A drop dooms the session in a slot; a new session has connected members only.
LEMMA DropStep ==
  ASSUME Base, DropAborts, [Next]_vars
  PROVE  DropAborts'
<1> SUFFICES ASSUME NEW r \in Room, active'[r] # None, Active(active[r])'
             PROVE  members'[active'[r]] \subseteq connected' \/ active'[r] \in doomed'
  BY DEF DropAborts
<1>1. active[r] # None /\ Active(active[r]) =>
        members[active[r]] \subseteq connected \/ active[r] \in doomed
  BY DEF DropAborts
<1>2. active[r] # None => active[r] \in Travel /\ status[active[r]] # "new" /\ roomFor[active[r]] = r
  BY DEF Base, SlotInv, CoordinatorTypeOK
<1> DEFINE Kept == members'[active'[r]] \subseteq connected' \/ active'[r] \in doomed'
<1>3. ASSUME NEW p \in Player, NEW t \in Travel, Create(p, t), p \in connected,
             status[t] = "new", UNCHANGED <<playerVars, doomed, unwinding>>
      PROVE  Kept
  <2> DEFINE M == Present(roomOf[p]) \cup {p}
  <2>1. /\ active' = [active EXCEPT ![roomOf[p]] = t]
        /\ members' = [members EXCEPT ![t] = M]
        /\ \A v \in Travel \ {t} : status'[v] = status[v]
        /\ connected' = connected /\ doomed' = doomed
    BY <1>3 DEF Create, playerVars, Base, CoordinatorTypeOK
  <2>2. M \subseteq connected
    BY <1>3 DEF Present
  <2> HIDE DEF M
  <2>3. CASE r = roomOf[p]
    BY <2>1, <2>2, <2>3 DEF Base, CoordinatorTypeOK
  <2>4. CASE r # roomOf[p]
    BY <1>1, <1>2, <1>3, <2>1, <2>4 DEF Active, Base, CoordinatorTypeOK
  <2> QED BY <2>3, <2>4
\* Steps that start no session and lose no member, and abort what they undoom.
<1>4. ASSUME UNCHANGED members, connected \subseteq connected',
             active'[r] = active[r],
             \A v \in Travel : Active(v)' => status[v] = "new" \/ Active(v),
             \A v \in doomed : v \in doomed' \/ ~Active(v)'
      PROVE  Kept
  BY <1>1, <1>2, <1>4 DEF Active
<1>5. ASSUME NEW p \in Player, NEW t \in Travel, Request(p, t) \/ RequestSupersede(p, t)
      PROVE  Kept
  <2>1. CASE Request(p, t)
    BY <1>3, <2>1, NewIdIsNew DEF Request, Idle
  <2>2. CASE RequestSupersede(p, t)
    BY <1>4, <2>2 DEF RequestSupersede, Superseded, Close, Active, playerVars, Base, CoordinatorTypeOK
  <2> QED BY <1>5, <2>1, <2>2
<1>6. ASSUME NEW t \in Travel, Unslot(t), UNCHANGED <<members, connected, doomed, status>>
      PROVE  Kept
  <2>1. active'[r] = active[r]
    BY <1>6 DEF Unslot, Base, CoordinatorTypeOK
  <2> QED BY <1>4, <1>6, <2>1 DEF Active
<1>7. ASSUME NEW p \in Player, Resume(p) PROVE Kept
  <2>1. CASE RequestResume(p)
    BY <1>3, <2>1 DEF RequestResume, Base, TaskInv
  <2>2. ASSUME (\E q \in Player : Invite(p, q)) \/ InvitesSent(p) \/ Begun(p) PROVE Kept
    BY <1>4, <2>2 DEF Invite, InvitesSent, Begun, Active, travelVars, playerVars
  <2>3. CASE Closed(p)
    <3>1. job[p] \in Travel
      BY <2>3 DEF Closed, Base, TaskInv
    <3> QED BY <1>6, <2>3, <3>1 DEF Closed, travelVars, playerVars
  <2> QED BY <1>7, <2>1, <2>2, <2>3 DEF Resume
<1>8. ASSUME NEW p \in Player, NEW t \in Travel,
             Accept(p, t) \/ Decline(p, t) \/ Ready(p, t) \/ ReadyElsewhere(p, t)
      PROVE  Kept
  <2>1. UNCHANGED <<members, connected, active, doomed>> /\ Active(t)
    BY <1>8 DEF Accept, Decline, Ready, ReadyElsewhere, Answers, Arrives, Active, playerVars
  <2>2. \A v \in Travel \ {t} : status'[v] = status[v]
    BY <1>8 DEF Accept, Decline, Ready, ReadyElsewhere, Close, Base, CoordinatorTypeOK
  <2> QED BY <1>4, <2>1, <2>2 DEF Active
<1>9. ASSUME NEW t \in Travel, Watchdog(t) \/ AbortDoomed(t) PROVE Kept
  <2>1. /\ UNCHANGED <<members, connected, active>>
        /\ \/ doomed' = doomed
           \/ doomed' = doomed \ {t} /\ (~Active(t) \/ status' = [status EXCEPT ![t] = "aborted"])
        /\ \/ status' = [status EXCEPT ![t] = "aborted"]
           \/ UNCHANGED status
    BY <1>9 DEF Watchdog, AbortDoomed, AbortTask, Close, playerVars
  <2> QED BY <1>4, <2>1 DEF Active, Base, CoordinatorTypeOK
<1>10. ASSUME NEW t \in Travel, Unwind(t) PROVE Kept
  BY <1>6, <1>10 DEF Unwind, travelVars, playerVars
<1>11. ASSUME NEW p \in Player, Connect(p) \/ \E s \in Room : JoinRoom(p, s) PROVE Kept
  BY <1>4, <1>11 DEF Connect, JoinRoom, Active, travelVars
<1>12. ASSUME NEW p \in Player, Disconnect(p) PROVE Kept
  <2>1. /\ UNCHANGED <<members, status, active, roomFor>>
        /\ connected' = connected \ {p} /\ doomed' = doomed \cup Bereaved(p)
    BY <1>12 DEF Disconnect, travelVars
  <2>2. CASE p \in members[active[r]]
    BY <1>2, <2>1, <2>2 DEF Bereaved, Active
  <2>3. CASE p \notin members[active[r]]
    BY <1>1, <2>1, <2>3 DEF Active
  <2> QED BY <2>2, <2>3
<1>13. CASE UNCHANGED vars
  BY <1>4, <1>13 DEF vars, travelVars, playerVars, Active
<1> QED BY <1>5, <1>7, <1>8, <1>9, <1>10, <1>11, <1>12, <1>13 DEF Next

\* A member's drop always reaches its travel: the session in a slot that lost
\* a member is about to be aborted.
THEOREM DropAbortsCorrect == Spec => []DropAborts
<1>1. Init => DropAborts
  BY InitBase DEF IInv
<1>2. Base /\ DropAborts /\ [Next]_vars => DropAborts'
  BY DropStep
<1> QED BY <1>1, <1>2, BaseCorrect, PTL DEF Spec

-----------------------------------------------------------------------------
\* Late clean-ups.

\* Clearing the slot of a finished session takes it from no other.
LEMMA UnslotFinished ==
  ASSUME Base, NEW t \in Travel, Finished(t), Unslot(t), status' = status,
         NEW r \in Room, NEW u \in Travel, active[r] = u, active'[r] = None
  PROVE  ~Active(u)'
<1>1. u # None
  BY NoneIsNew
<1>2. u = t
  BY <1>1 DEF Unslot, Base, CoordinatorTypeOK
<1> QED BY <1>2 DEF Finished, Active

\* The clean-up of a session, however late, never empties a slot under a
\* session that is active.
THEOREM ActiveKeepsSlotCorrect == Spec => ActiveKeepsSlot
<1>1. ASSUME Base, [Next]_vars, NEW r \in Room, NEW u \in Travel, active[r] = u, active'[r] = None
      PROVE  ~Active(u)'
  <2>1. u # None
    BY NoneIsNew
  <2>2. ASSUME active' = active PROVE FALSE
    BY <1>1, <2>1, <2>2
  <2>3. ASSUME NEW p \in Player, NEW t \in Travel, Create(p, t) PROVE FALSE
    BY <1>1, <2>1, <2>3, NoneIsNew DEF Create, Base, CoordinatorTypeOK
  <2>4. ASSUME NEW p \in Player, Closed(p) PROVE ~Active(u)'
    BY <1>1, <2>4, UnslotFinished DEF Closed, Base, TaskInv, travelVars
  <2>5. ASSUME NEW t \in Travel, Unwind(t) PROVE ~Active(u)'
    BY <1>1, <2>5, UnslotFinished DEF Unwind, Base, UnwindInv, travelVars
  <2>6. ASSUME NEW p \in Player, NEW t \in Travel,
               \/ Request(p, t) \/ RequestSupersede(p, t) \/ Accept(p, t) \/ Decline(p, t)
               \/ Ready(p, t) \/ ReadyElsewhere(p, t)
        PROVE  FALSE
    BY <2>2, <2>3, <2>6 DEF Request, RequestSupersede, Accept, Decline, Ready, ReadyElsewhere
  <2>7. ASSUME NEW p \in Player, Resume(p) PROVE ~Active(u)'
    <3>1. CASE RequestResume(p)
      BY <1>1, <2>3, <3>1 DEF RequestResume, Base, TaskInv
    <3>2. ASSUME (\E q \in Player : Invite(p, q)) \/ InvitesSent(p) \/ Begun(p) PROVE FALSE
      BY <2>2, <3>2 DEF Invite, InvitesSent, Begun
    <3> QED BY <2>4, <2>7, <3>1, <3>2 DEF Resume
  <2>8. ASSUME NEW p \in Player, Connect(p) \/ Disconnect(p) \/ \E s \in Room : JoinRoom(p, s)
        PROVE  FALSE
    BY <2>2, <2>8 DEF Connect, Disconnect, JoinRoom
  <2>9. ASSUME NEW t \in Travel, Watchdog(t) \/ AbortDoomed(t) PROVE FALSE
    BY <2>2, <2>9 DEF Watchdog, AbortDoomed
  <2>10. ASSUME UNCHANGED vars PROVE FALSE
    BY <2>2, <2>10 DEF vars
  <2> QED BY <1>1, <2>5, <2>6, <2>7, <2>8, <2>9, <2>10 DEF Next
<1>2. Base /\ [Next]_vars =>
        [\A r \in Room, t \in Travel : active[r] = t /\ active'[r] = None => ~Active(t)']_vars
  BY <1>1
<1> QED BY <1>2, BaseCorrect, PTL DEF Spec, ActiveKeepsSlot

-----------------------------------------------------------------------------
\* The refinement of GroupTravel.

\* Aborting an active session, from wherever, is CallOff.
LEMMA AbortCallsOff ==
  ASSUME NEW t \in Travel, Active(t), status' = [status EXCEPT ![t] = "aborted"],
         UNCHANGED <<members, requester, accepted, ready>>
  PROVE  Promise!Next
<1>1. Promise!CallOff(t)
  BY DEF Promise!CallOff, Active
<1> QED BY <1>1 DEF Promise!Next

\* Creating a session is Propose.
LEMMA CreateProposes ==
  ASSUME Base, NEW p \in Player, NEW t \in Travel, Create(p, t), status[t] = "new"
  PROVE  Promise!Next
<1> DEFINE M == Present(roomOf[p]) \cup {p}
<1>1. M \in SUBSET Player /\ p \in M
  BY DEF Present, Base, CoordinatorTypeOK
<1>2. Promise!Propose(t, p, M)
  BY <1>1 DEF Promise!Propose, Create
<1> HIDE DEF M
<1> QED BY <1>1, <1>2 DEF Promise!Next

\* Every step is one of GroupTravel, or changes nothing it sees.
LEMMA PromiseStep ==
  ASSUME Base, [Next]_vars
  PROVE  [Promise!Next]_Promise!vars
<1> DEFINE Same == UNCHANGED <<status, members, requester, accepted, ready>>
<1>1. ASSUME Same PROVE UNCHANGED Promise!vars
  BY <1>1 DEF Promise!vars
<1>2. ASSUME NEW p \in Player, NEW t \in Travel, Request(p, t) \/ RequestSupersede(p, t)
      PROVE  Promise!Next
  <2>1. CASE Request(p, t)
    BY <2>1, CreateProposes, NewIdIsNew DEF Request
  <2>2. CASE RequestSupersede(p, t)
    <3> DEFINE old == active[roomOf[p]]
    <3>1. old \in Travel /\ Active(old) /\ status' = [status EXCEPT ![old] = "aborted"]
      BY <2>2 DEF RequestSupersede, Superseded, Close, Base, CoordinatorTypeOK
    <3> QED BY <2>2, <3>1, AbortCallsOff DEF RequestSupersede
  <2> QED BY <1>2, <2>1, <2>2
<1>3. ASSUME NEW p \in Player, Resume(p) PROVE Promise!Next \/ Same
  <2>1. CASE RequestResume(p)
    BY <2>1, CreateProposes DEF RequestResume, Base, TaskInv
  <2>2. ASSUME (\E q \in Player : Invite(p, q)) \/ InvitesSent(p) \/ Begun(p) \/ Closed(p)
        PROVE  Same
    BY <2>2 DEF Invite, InvitesSent, Begun, Closed, travelVars
  <2> QED BY <1>3, <2>1, <2>2 DEF Resume
<1>4. ASSUME NEW p \in Player, NEW t \in Travel, Accept(p, t) PROVE Promise!Next
  <2>1. p \in members[t] \ requester[t] /\ status[t] = "pending"
    BY <1>4 DEF Accept, Answers, Invited
  <2>2. status' = [status EXCEPT ![t] = IF accepted[t] \cup {p} = members[t] \ requester[t]
                                        THEN "traveling" ELSE @]
    BY <1>4 DEF Accept, EverybodyAccepted, Invited, Base, CoordinatorTypeOK
  <2>3. Promise!Agree(t, p)
    BY <1>4, <2>1, <2>2 DEF Accept, Promise!Agree
  <2> QED BY <2>3 DEF Promise!Next
<1>5. ASSUME NEW p \in Player, NEW t \in Travel, Ready(p, t) PROVE Promise!Next
  <2>1. p \in members[t] /\ status[t] = "traveling"
    BY <1>5 DEF Ready, Arrives
  <2>2. status' = [status EXCEPT ![t] = IF ready[t] \cup {p} = members[t] THEN "complete" ELSE @]
    BY <1>5 DEF Ready, EverybodyHere, Close, Base, CoordinatorTypeOK
  <2>3. Promise!Arrive(t, p)
    BY <1>5, <2>1, <2>2 DEF Ready, Promise!Arrive
  <2> QED BY <2>3 DEF Promise!Next
<1>6. ASSUME NEW p \in Player, NEW t \in Travel, Decline(p, t) \/ ReadyElsewhere(p, t)
      PROVE  Promise!Next
  <2>1. Active(t) /\ status' = [status EXCEPT ![t] = "aborted"]
    BY <1>6 DEF Decline, Answers, ReadyElsewhere, Arrives, Active, Close
  <2> QED BY <1>6, <2>1, AbortCallsOff DEF Decline, ReadyElsewhere
<1>7. ASSUME NEW t \in Travel, Watchdog(t) \/ AbortDoomed(t) \/ Unwind(t)
      PROVE  Promise!Next \/ Same
  <2>1. /\ UNCHANGED <<members, requester, accepted, ready>>
        /\ \/ Active(t) /\ status' = [status EXCEPT ![t] = "aborted"]
           \/ UNCHANGED status
    BY <1>7 DEF Watchdog, AbortDoomed, Unwind, AbortTask, Close, travelVars
  <2> QED BY <2>1, AbortCallsOff
<1>8. ASSUME NEW p \in Player, Connect(p) \/ Disconnect(p) \/ \E r \in Room : JoinRoom(p, r)
      PROVE  Same
  BY <1>8 DEF Connect, Disconnect, JoinRoom, travelVars
<1>9. ASSUME UNCHANGED vars PROVE Same
  BY <1>9 DEF vars, travelVars
<1> HIDE DEF Same
<1> QED BY <1>1, <1>2, <1>3, <1>4, <1>5, <1>6, <1>7, <1>8, <1>9 DEF Next

\* The coordinator keeps the promise of GroupTravel: nobody leaves before all
\* agreed, a travel is over only when all arrived, and what is over stays so.
THEOREM KeepsPromiseCorrect == Spec => KeepsPromise
<1>1. Init => Promise!Init
  BY DEF Init, Promise!Init
<1>2. Base /\ [Next]_vars => [Promise!Next]_Promise!vars
  BY PromiseStep
<1> QED BY <1>1, <1>2, BaseCorrect, PTL DEF Spec, KeepsPromise, Promise!Spec
=============================================================================
