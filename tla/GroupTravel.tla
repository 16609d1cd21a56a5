----------------------------- MODULE GroupTravel -----------------------------
(***************************************************************************)
(* What a group travel promises its members, whatever happens to requests, *)
(* rooms, timers and connections: the party is fixed when the travel is    *)
(* proposed, nobody leaves before every other member agreed, the travel is *)
(* over only when every member has arrived, and a travel that is over or   *)
(* called off stays so.  TravelCoordinator is shown to implement this.     *)
(***************************************************************************)
CONSTANTS Travel, Player

VARIABLES
  phase,    \* of a travel
  party,    \* its members
  leader,   \* who proposed it: the first member, or {}
  agreed,   \* the members that said yes
  arrived   \* the members at the destination

vars == <<phase, party, leader, agreed, arrived>>

Init ==
  /\ phase = [t \in Travel |-> "new"]
  /\ party = [t \in Travel |-> {}]
  /\ leader = [t \in Travel |-> {}]
  /\ agreed = [t \in Travel |-> {}]
  /\ arrived = [t \in Travel |-> {}]

\* A party of one leaves at once.
Propose(t, p, M) ==
  /\ phase[t] = "new"
  /\ p \in M
  /\ phase' = [phase EXCEPT ![t] = IF M = {p} THEN "traveling" ELSE "pending"]
  /\ party' = [party EXCEPT ![t] = M]
  /\ leader' = [leader EXCEPT ![t] = {p}]
  /\ UNCHANGED <<agreed, arrived>>

\* The last to agree sends everybody off.
Agree(t, p) ==
  LET yes == agreed[t] \cup {p}
  IN /\ phase[t] = "pending"
     /\ p \in party[t] \ leader[t]
     /\ agreed' = [agreed EXCEPT ![t] = yes]
     /\ phase' = [phase EXCEPT ![t] = IF yes = party[t] \ leader[t] THEN "traveling" ELSE @]
     /\ UNCHANGED <<party, leader, arrived>>

Arrive(t, p) ==
  LET here == arrived[t] \cup {p}
  IN /\ phase[t] = "traveling"
     /\ p \in party[t]
     /\ arrived' = [arrived EXCEPT ![t] = here]
     /\ phase' = [phase EXCEPT ![t] = IF here = party[t] THEN "complete" ELSE @]
     /\ UNCHANGED <<party, leader, agreed>>

CallOff(t) ==
  /\ phase[t] \in {"pending", "traveling"}
  /\ phase' = [phase EXCEPT ![t] = "aborted"]
  /\ UNCHANGED <<party, leader, agreed, arrived>>

Next ==
  \E t \in Travel :
    \/ \E M \in SUBSET Player, p \in Player : Propose(t, p, M)
    \/ \E p \in Player : Agree(t, p) \/ Arrive(t, p)
    \/ CallOff(t)

Spec == Init /\ [][Next]_vars
=============================================================================
