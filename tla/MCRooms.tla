------------------------------- MODULE MCRooms -------------------------------
(***************************************************************************)
(* What a room keeps in step, for TLC.  The components share no state:     *)
(* each behaviour is one of one of them, and their state spaces add up     *)
(* instead of multiplying.                                                 *)
(***************************************************************************)
EXTENDS ClockGate, WorldReplication, RoomSpeed, SaveTransfer, TLC

VARIABLE focus   \* the component of this behaviour

allVars == <<vars, worldVars, saveVars, speedVars, focus>>

RoomsInit ==
  /\ focus \in {"clock", "world", "saves", "pace"}
  /\ Init /\ WorldInit /\ SaveInit /\ SpeedInit

\* The components that are not the behaviour's are left alone.
Rests(component, its) == IF focus = component THEN TRUE ELSE UNCHANGED its

RoomsNext ==
  /\ \/ focus = "clock" /\ Next
     \/ focus = "world" /\ WorldNext
     \/ focus = "saves" /\ SaveNext
     \/ focus = "pace" /\ SpeedNext
  /\ Rests("clock", vars) /\ Rests("world", worldVars) /\ Rests("saves", saveVars)
  /\ Rests("pace", speedVars)
  /\ UNCHANGED focus

RoomsSpec == RoomsInit /\ [][RoomsNext]_allVars

\* What the components' modules state.
RoomsTypeOK ==
  /\ TypeOK
  /\ WorldTypeOK /\ SaveTypeOK /\ SpeedTypeOK

\* Players are interchangeable, and so are zones and values; rooms and members
\* are not, one of them is the lobby and one the host.
Symmetry == Permutations(Player) \cup Permutations(Zone) \cup Permutations(Value)
=============================================================================
