------------------------ MODULE MCTravelAndLauncher ------------------------
(***************************************************************************)
(* The travel coordinator, the updater and the lobby page of the launcher, *)
(* for TLC.  They share no state: each behaviour is one of one of them.    *)
(***************************************************************************)
EXTENDS TravelCoordinator, RuntimeUpdate, LauncherLobby, TLC

VARIABLE focus   \* the component of this behaviour

\* Digests are compared file by file, so one first release stands for all.
HostInit ==
  /\ focus \in {"travel", "update", "lobby"}
  /\ Init /\ UpdateInit /\ LobbyInit
  /\ published = <<[f \in File |-> CHOOSE d \in Digest : TRUE]>>

\* The components that are not the behaviour's are left alone.
Rests(component, its) == IF focus = component THEN TRUE ELSE UNCHANGED its

HostNext ==
  /\ \/ focus = "travel" /\ Next
     \/ focus = "update" /\ UpdateNext
     \/ focus = "lobby" /\ LobbyNext
  /\ Rests("travel", vars) /\ Rests("update", updateVars) /\ Rests("lobby", launcherVars)
  /\ UNCHANGED focus

HostSpec == HostInit /\ [][HostNext]_<<vars, updateVars, launcherVars, focus>>

\* Every state of the three components is of its type.
HostTypeOK == TypeOK /\ UpdateTypeOK /\ LobbyTypeOK

\* Players are interchangeable, and so are the saves.
Symmetry == Permutations(Player) \cup Permutations(Save)
=============================================================================
