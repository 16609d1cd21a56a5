--------------------------- MODULE KeyReservation ---------------------------
(***************************************************************************)
(* What the server promises about using an object: a key has at most one   *)
(* holder, it is granted only while it is free and cool, and every way of  *)
(* losing it (the holder ends it, the watchdog expires it, the holder      *)
(* travels away or is evicted) starts a cooldown during which nobody gets  *)
(* it.  ServerSession is shown to implement this.                          *)
(***************************************************************************)
CONSTANTS
  Slot,     \* one reservable key of one zone of one room
  Player,
  None

VARIABLES
  holder,   \* who uses the key of a slot, or None
  cooling   \* the slots whose last use ended less than a cooldown ago

vars == <<holder, cooling>>

TypeOK ==
  /\ holder \in [Slot -> Player \cup {None}]
  /\ cooling \subseteq Slot

Init ==
  /\ holder = [s \in Slot |-> None]
  /\ cooling = {}

\* First come, first served.
Grant(s, p) ==
  /\ holder[s] = None
  /\ s \notin cooling
  /\ holder' = [holder EXCEPT ![s] = p]
  /\ UNCHANGED cooling

HeldBy(p) == {s \in Slot : holder[s] = p}

\* Some slots held by one player become free together, all of them cooling.
Free(S) ==
  /\ S # {}
  /\ holder' = [s \in Slot |-> IF s \in S THEN None ELSE holder[s]]
  /\ cooling' = cooling \cup S

Thaw(s) ==
  /\ s \in cooling
  /\ cooling' = cooling \ {s}
  /\ UNCHANGED holder

Next ==
  \/ \E s \in Slot, p \in Player : Grant(s, p)
  \/ \E p \in Player : \E S \in SUBSET HeldBy(p) : Free(S)
  \/ \E s \in Slot : Thaw(s)

Spec == Init /\ [][Next]_vars

\* A key in use is never inside a cooldown window.
HeldIsWarm == \A s \in cooling : holder[s] = None
=============================================================================
