------------------------- MODULE InteractionMirror --------------------------
(***************************************************************************)
(* Who makes which sim do what.  The server grants an interaction on a key *)
(* to the first player that asks, and tells everybody; every client keeps  *)
(* a mirror of the grants, pushes those of others onto its own copies of   *)
(* the sims, and compares what its sims do with the mirror at every tick:  *)
(* it asks for what is new and ends what has stopped.                      *)
(*                                                                         *)
(* One room and one zone.  A key has one broadcast under way at most, and  *)
(* a snapshot that overtakes it says the same, so a broadcast is delivered *)
(* with the step that makes it.  Cooldowns and back-offs are flags that go *)
(* down at any moment.                                                     *)
(***************************************************************************)
EXTENDS Players, Integers, Sequences, SequencesExt

CONSTANTS Key, Action,
          Driver, Driven,  \* the keys in Driven are owned by Driver in the world catalog
          MaxWire,         \* bound: frames of a client in flight, either way, when its tick sends more
          MaxStirs         \* bound: interactions users start, breaks, expiries, evictions

ASSUME MirrorConstants == IsFiniteSet(Key) /\ MaxStirs \in Nat

VARIABLES
  \* the server
  table,          \* Session._interactions_by_zone: <<holder, action>> of a key, or None
  mirrorCooling,  \* keys whose cooldown_until has not passed
  \* the connections
  mirrorLink,     \* "up", "down", "evicted"
  mirrorWire,     \* frames on their way to the server
  inbox,          \* frames on their way to the client
  \* the clients
  mirror,         \* InteractionMirror.interactions
  doing,          \* what the sampler reports of a key: an action, or None
  denied,         \* keys in _denied_until
  kept,           \* _dropped_held: the action that was held, or None
  stirs           \* interactions started, breaks, expiries and evictions so far

grants == <<table, mirrorCooling>>
mirrorNet == <<mirrorLink, mirrorWire, inbox>>
mirrorClient == <<mirror, doing, denied, kept>>
mirrorVars == <<grants, mirrorNet, mirrorClient, stirs>>

Frame(type, k, e) == [type |-> type, key |-> k, entry |-> e]

Nothing == [k \in Key |-> None]

Up(p) == mirrorLink[p] = "up"

\* The keys a table says are held by p.
HeldBy(t, p) == {k \in Key : t[k] # None /\ t[k][1] = p}

MirrorInit ==
  /\ table = Nothing /\ mirrorCooling = {}
  /\ mirrorLink = [p \in Player |-> "up"]
  /\ mirrorWire = [p \in Player |-> <<>>]
  /\ inbox = [p \in Player |-> <<>>]
  /\ mirror = [p \in Player |-> Nothing]
  /\ doing = [p \in Player |-> Nothing]
  /\ denied = [p \in Player |-> {}]
  /\ kept = [p \in Player |-> Nothing]
  /\ stirs = 0

Stir == stirs < MaxStirs /\ stirs' = stirs + 1

-----------------------------------------------------------------------------
\* The game: the user, or a sim's autonomy, starts an interaction; it ends.

Start(p, k, a) ==
  /\ doing[p][k] # a
  /\ Stir
  /\ doing' = [doing EXCEPT ![p][k] = a]
  /\ UNCHANGED <<grants, mirrorNet, mirror, denied, kept>>

Stop(p, k) ==
  /\ doing[p][k] # None
  /\ doing' = [doing EXCEPT ![p][k] = None]
  /\ UNCHANGED <<grants, mirrorNet, mirror, denied, kept, stirs>>

-----------------------------------------------------------------------------
\* The client's tick, _maybe_send_interactions.

Sampled(p) == {k \in Key : doing[p][k] # None}

\* Somebody else's sim by the world mirror: not to be proposed for.
Barred(p, k) == k \in Driven /\ p # Driver

Ended(p) == HeldBy(mirror[p], p) \ Sampled(p)

\* Mutant of Changed: what is held already is not looked at again.
ChangedNever(p, k) == FALSE

\* The sim of a held key does something else by now.
Changed(p, k) == k \in HeldBy(mirror[p], p) /\ mirror[p][k][2] # doing[p][k]

Proposed(p) ==
  {k \in Sampled(p) \ denied[p] : Changed(p, k) \/ (mirror[p][k] = None /\ ~Barred(p, k))}

Ends(p) == SetToSeq({Frame("END", k, None) : k \in Ended(p)})

Requests(p) == SetToSeq({Frame("REQUEST", k, <<p, doing[p][k]>>) : k \in Proposed(p)})

\* A sample that reports nothing at all is not looked at.
HasWork(p) == Up(p) /\ Sampled(p) # {} /\ Ended(p) \cup Proposed(p) # {}

Tick(p) ==
  /\ HasWork(p)
  /\ Len(mirrorWire[p] \o inbox[p] \o Ends(p) \o Requests(p)) <= MaxWire
  /\ mirrorWire' = [mirrorWire EXCEPT ![p] = @ \o Ends(p) \o Requests(p)]
  /\ UNCHANGED <<grants, mirrorLink, inbox, mirrorClient, stirs>>

-----------------------------------------------------------------------------
\* The server.

Receive(p, type) ==
  /\ Up(p)
  /\ mirrorWire[p] # <<>> /\ Head(mirrorWire[p]).type = type
  /\ mirrorWire' = [mirrorWire EXCEPT ![p] = Tail(@)]
  /\ UNCHANGED <<mirrorLink, mirrorClient, stirs>>

\* broadcast_zone, the sender included.
Broadcast(frames) == inbox' = [q \in Player |-> IF Up(q) THEN inbox[q] \o frames ELSE inbox[q]]

\* An error's ref names the key.
Deny(p, k) == inbox' = [inbox EXCEPT ![p] = Append(@, Frame("DENIED", k, None))]

\* request_interaction: the holder renews, anybody may have a free key.
Request(p) ==
  LET f == Head(mirrorWire[p])
      mine == f.key \in HeldBy(table, p)
      free == table[f.key] = None /\ f.key \notin mirrorCooling
  IN  /\ Receive(p, "REQUEST")
      /\ IF mine \/ free
           THEN /\ table' = [table EXCEPT ![f.key] = f.entry]
                /\ Broadcast(<<Frame("START", f.key, f.entry)>>)
           ELSE Deny(p, f.key) /\ UNCHANGED table
      /\ UNCHANGED mirrorCooling

\* The keys K, whoever held them, are free once they have cooled.
Release(K) ==
  /\ table' = [k \in Key |-> IF k \in K THEN None ELSE table[k]]
  /\ mirrorCooling' = mirrorCooling \cup K
  /\ Broadcast(SetToSeq({Frame("FREE", k, None) : k \in K}))

\* end_interaction.  INTERACTION_NOT_HELD does nothing to the client.
End(p) ==
  LET k == Head(mirrorWire[p]).key
  IN  /\ Receive(p, "END")
      /\ IF k \in HeldBy(table, p) THEN Release({k}) ELSE UNCHANGED <<grants, inbox>>

\* The watchdog.
Expire(k) ==
  /\ table[k] # None
  /\ Stir
  /\ Release({k})
  /\ UNCHANGED <<mirrorLink, mirrorWire, mirrorClient>>

CooldownOver(k) ==
  /\ k \in mirrorCooling
  /\ mirrorCooling' = mirrorCooling \ {k}
  /\ UNCHANGED <<table, mirrorNet, mirrorClient, stirs>>

-----------------------------------------------------------------------------
\* The client reads.

Read(p, type) ==
  /\ Up(p)
  /\ inbox[p] # <<>> /\ Head(inbox[p]).type = type
  /\ inbox' = [inbox EXCEPT ![p] = Tail(@)]
  /\ UNCHANGED <<grants, mirrorLink, stirs>>

\* _notify_remote_interactions hands over everything others hold; a push may
\* fail, and the sim may be busy with that action already.
Notify(p) ==
  \E K \in SUBSET {k \in Key : mirror'[p][k] # None /\ mirror'[p][k][1] # p} :
    doing' = [doing EXCEPT ![p] = [k \in Key |-> IF k \in K THEN mirror'[p][k][2] ELSE @[k]]]

ReadStart(p) ==
  LET f == Head(inbox[p])
  IN  /\ Read(p, "START")
      /\ mirror' = [mirror EXCEPT ![p][f.key] = f.entry]
      /\ denied' = [denied EXCEPT ![p] = @ \ {f.key}]
      /\ Notify(p)
      /\ UNCHANGED <<mirrorWire, kept>>

Freed(p, k) == None

\* What was pushed onto the sim goes on.
ReadFree(p) ==
  LET k == Head(inbox[p]).key
  IN  /\ Read(p, "FREE")
      /\ mirror' = [mirror EXCEPT ![p][k] = Freed(p, k)]
      /\ denied' = [denied EXCEPT ![p] = @ \ {k}]
      /\ UNCHANGED <<mirrorWire, doing, kept>>

\* INTERACTION_BUSY and INTERACTION_COOLDOWN.
ReadDenied(p) ==
  /\ Read(p, "DENIED")
  /\ denied' = [denied EXCEPT ![p] = @ \cup {Head(inbox[p]).key}]
  /\ UNCHANGED <<mirrorWire, mirror, doing, kept>>

\* The snapshot after a HELLO, then _maybe_reclaim: what was held and is free
\* is asked for again, whatever the sim does now.
ReadState(p) ==
  LET t == Head(inbox[p]).entry
      again == {k \in Key \ denied[p] : kept[p][k] # None /\ t[k] = None}
  IN  /\ Read(p, "STATE")
      /\ mirror' = [mirror EXCEPT ![p] = t]
      /\ Notify(p)
      /\ kept' = [kept EXCEPT ![p] = Nothing]
      /\ mirrorWire' = [mirrorWire EXCEPT ![p] =
           @ \o SetToSeq({Frame("REQUEST", k, <<p, kept[p][k]>>) : k \in again})]
      /\ UNCHANGED denied

BackoffOver(p, k) ==
  /\ k \in denied[p]
  /\ denied' = [denied EXCEPT ![p] = @ \ {k}]
  /\ UNCHANGED <<grants, mirrorNet, mirror, doing, kept, stirs>>

-----------------------------------------------------------------------------
\* A connection breaks; the client captures what its mirror has for its own.
\* The server keeps it: the player is a ghost.
LinkBreaks(p) ==
  /\ Up(p) /\ Stir
  /\ mirrorLink' = [mirrorLink EXCEPT ![p] = "down"]
  /\ mirrorWire' = [mirrorWire EXCEPT ![p] = <<>>]
  /\ inbox' = [inbox EXCEPT ![p] = <<>>]
  /\ kept' = [kept EXCEPT ![p] =
       [k \in Key |-> IF k \in HeldBy(mirror[p], p) THEN mirror[p][k][2] ELSE None]]
  /\ UNCHANGED <<grants, mirror, doing, denied>>

Rejoin(p) ==
  /\ ~Up(p)
  /\ mirrorLink' = [mirrorLink EXCEPT ![p] = "up"]
  /\ inbox' = [inbox EXCEPT ![p] = <<Frame("STATE", None, table)>>]
  /\ UNCHANGED <<grants, mirrorWire, mirrorClient, stirs>>

Forget(p) ==
  /\ mirrorLink[p] = "down" /\ Stir
  /\ Release(HeldBy(table, p))
  /\ mirrorLink' = [mirrorLink EXCEPT ![p] = "evicted"]
  /\ UNCHANGED <<mirrorWire, mirrorClient>>

-----------------------------------------------------------------------------
Serve(p) == Request(p) \/ End(p)

Reads(p) == ReadStart(p) \/ ReadFree(p) \/ ReadDenied(p) \/ ReadState(p)

MirrorNext ==
  \/ \E p \in Player :
       \/ Tick(p) \/ Serve(p) \/ Reads(p) \/ LinkBreaks(p) \/ Rejoin(p) \/ Forget(p)
       \/ \E k \in Key : (\E a \in Action : Start(p, k, a)) \/ Stop(p, k) \/ BackoffOver(p, k)
  \/ \E k \in Key : Expire(k) \/ CooldownOver(k)

MirrorSpec == MirrorInit /\ [][MirrorNext]_mirrorVars

-----------------------------------------------------------------------------
\* Types; nobody is named by an entry but a player with an action.
Entries == [Key -> (Player \X Action) \cup {None}]

MirrorTypeOK ==
  /\ table \in Entries /\ mirrorCooling \subseteq Key
  /\ mirrorLink \in [Player -> {"up", "down", "evicted"}]
  /\ mirror \in [Player -> Entries]
  /\ doing \in [Player -> [Key -> Action \cup {None}]]
  /\ denied \in [Player -> SUBSET Key]
  /\ kept \in [Player -> [Key -> Action \cup {None}]]
  /\ stirs \in 0..MaxStirs

\* Nothing is on its way between the player and the server.
Settled(p) == Up(p) /\ mirrorWire[p] = <<>> /\ inbox[p] = <<>>

\* A mirror that has read everything is the server's table, whatever was
\* refused, expired or lost with a connection before.
MirrorsAgree == \A p \in Player : Settled(p) => mirror[p] = table

\* Nothing is on its way and no tick has anything to do.
MirrorQuiet ==
  mirrorCooling = {} /\ \A p \in Player : Settled(p) /\ denied[p] = {} /\ ~HasWork(p)

\* Then a sim that does something is held by somebody, and the holder's sim
\* does what it is held for - unless none of the holder's sims does anything:
\* its tick looks at nothing, and only the watchdog ends what it holds.
HoldersRunOrIdle ==
  MirrorQuiet =>
    \A p \in Player, k \in Key :
      /\ doing[p][k] # None /\ ~Barred(p, k) => table[k] # None
      /\ k \in HeldBy(table, p) => doing[p][k] = table[k][2] \/ Sampled(p) = {}

\* The mirrors tell what the table says, and the table what the sims do.
MirrorsTell == MirrorsAgree /\ HoldersRunOrIdle
=============================================================================
