------------------------------ MODULE EventLog ------------------------------
(***************************************************************************)
(* What a room may expect of one player's numbered events: each is relayed *)
(* at most once and in the order of its numbers, and one that was given up *)
(* for lost does not turn up later, as long as the server keeps the        *)
(* player's record.                                                        *)
(***************************************************************************)
EXTENDS Integers, Sequences, Functions

CONSTANT Event   \* records with a number seq

VARIABLES log,   \* the events relayed to the room, oldest first
          lost   \* events the server has settled without a relay

Init == log = <<>> /\ lost = {}

Relay(e) ==
  /\ e \notin lost
  /\ \A f \in Range(log) : f.seq < e.seq
  /\ log' = Append(log, e)
  /\ UNCHANGED lost

Lose(e) ==
  /\ e \notin Range(log)
  /\ lost' = lost \cup {e}
  /\ UNCHANGED log

\* The record is evicted, the next one starts over.
Renew ==
  /\ log' = <<>>
  /\ lost' = {}

Next == Renew \/ \E e \in Event : Relay(e) \/ Lose(e)

Spec == Init /\ [][Next]_<<log, lost>>
=============================================================================
