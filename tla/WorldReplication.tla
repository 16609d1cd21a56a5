-------------------------- MODULE WorldReplication --------------------------
(***************************************************************************)
(* The replicated objects of one zone: the server's catalog of owners and  *)
(* field values, the mirror every client keeps of it, and the claims,      *)
(* updates and removals the clients send.  A handler replies directly; its *)
(* broadcasts run a little later, so a reply can overtake an older one.    *)
(*                                                                         *)
(* An object has one field here.  Frames of one connection keep their      *)
(* order, so the numbers of WORLD_DELTA frames are left out.               *)
(*                                                                         *)
(* A connection that broke, was taken over or reaped is still read for     *)
(* what it had received.  The first reply raises on it: that handler and   *)
(* the reading end there, with what the handler has done done and nobody   *)
(* told.                                                                   *)
(***************************************************************************)
EXTENDS Players, Integers, Sequences, FiniteSets, Functions

CONSTANTS Key,
          Sim,       \* the keys of household sims
          Value,     \* values of the field
          MaxWire,   \* bound: frames a client has in flight
          MaxMoves   \* bound: ticks that send, removals, drops and evictions

ASSUME WorldConstants ==
  None \notin Player /\ IsFiniteSet(Key) /\ Sim \subseteq Key /\ MaxMoves \in Nat

VARIABLES
  \* the server's catalog
  exists,    \* keys with a WorldObject
  owner,     \* WorldObject.owner, None without one
  value,     \* WorldObject.fields, None before the first update
  \* the connections
  worldLink,      \* "up", "down", "evicted"
  worldWire,      \* frames on their way to the server
  lateWire,       \* frames of the broken connection that are still read
  inbox,     \* frames on their way to the client
  outbox,    \* broadcasts whose tasks have not run
  \* the clients
  mirrorOwner,   \* ObjectMirror.owner, None without one
  mirrorValue,   \* ObjectMirror.fields
  driven,        \* _driven_sim_key
  inFlight,      \* _claimed_in_flight
  denied,        \* keys whose _claim_denied_until is infinite
  dropped,       \* _dropped_owned
  moves,         \* moves made so far
  \* history
  unheard,   \* keys whose value changed without a word to the player
  astray,    \* keys whose owner the player was told wrong, or not at all
  stranded,  \* claims lost with a connection
  shut       \* keys denied to the player that no ownership frame reopens

catalog == <<exists, owner, value>>
worldNet == <<worldLink, worldWire, lateWire, inbox, outbox>>
mirror == <<mirrorOwner, mirrorValue>>
claimState == <<driven, inFlight, denied, dropped>>
worldHistory == <<unheard, astray, stranded, shut>>
worldVars == <<catalog, worldNet, mirror, claimState, moves, worldHistory>>

Message(type, k, o, v) == [type |-> type, key |-> k, owner |-> o, values |-> v]

Nothing == [k \in {} |-> None]

Up(p) == worldLink[p] = "up"

WorldInit ==
  /\ exists = {}
  /\ owner = [k \in Key |-> None]
  /\ value = [k \in Key |-> None]
  /\ worldLink = [p \in Player |-> "up"]
  /\ worldWire = [p \in Player |-> <<>>]
  /\ lateWire = [p \in Player |-> <<>>]
  /\ inbox = [p \in Player |-> <<>>]
  /\ outbox = <<>>
  /\ mirrorOwner = [p \in Player |-> [k \in Key |-> None]]
  /\ mirrorValue = [p \in Player |-> [k \in Key |-> None]]
  /\ driven = [p \in Player |-> None]
  /\ inFlight = [p \in Player |-> {}]
  /\ denied = [p \in Player |-> {}]
  /\ dropped = [p \in Player |-> {}]
  /\ moves = 0
  /\ unheard = [p \in Player |-> {}]
  /\ astray = [p \in Player |-> {}]
  /\ stranded = [p \in Player |-> {}]
  /\ shut = [p \in Player |-> {}]

-----------------------------------------------------------------------------
\* The client's tick, _maybe_send_world_update.

\* A broadcast runs in the server's next turn, before a client can answer
\* anything this turn has sent: clients act between turns.
BetweenTurns == outbox = <<>>

Move ==
  /\ BetweenTurns
  /\ moves < MaxMoves
  /\ moves' = moves + 1

Send(p, frames) ==
  /\ Len(worldWire[p]) + Len(frames) <= MaxWire
  /\ worldWire' = [worldWire EXCEPT ![p] = @ \o frames]

Mine(p) == {k \in Key : mirrorOwner[p][k] = p}

\* What an unowned key needs to be claimed: the active sim, or an object that
\* was edited.
Claimable(p, active, edited) ==
  {k \in Key : mirrorOwner[p][k] = None /\ (k = active \/ k \in edited \ Sim)}
    \ (inFlight[p] \cup denied[p])

\* The user has selected another sim: the previous one is released.  The
\* mirror still has it for this client's own when the updates are collected.
Released(p, active) ==
  IF driven[p] # active /\ driven[p] \in Mine(p)
    THEN <<Message("RELEASE", driven[p], None, Nothing)>>
    ELSE <<>>

Claims(p, k) == <<Message("CLAIM", k, None, Nothing)>>

\* One key is claimed at a time here; fields are the sampled values.
SampleTick(p, active, edited, fields) ==
  LET claim == Claimable(p, active, edited)
      updates == IF Mine(p) = {} THEN <<>>
                 ELSE <<Message("UPDATE", None, None, [k \in Mine(p) |-> fields[k]])>>
  IN  /\ Up(p) /\ Move
      /\ \/ /\ claim = {}
            /\ Send(p, Released(p, active) \o updates)
            /\ UNCHANGED inFlight
         \/ \E k \in claim :
              /\ Send(p, Released(p, active) \o Claims(p, k) \o updates)
              /\ inFlight' = [inFlight EXCEPT ![p] = @ \cup {k}]
      /\ driven' = [driven EXCEPT ![p] = active]
      /\ UNCHANGED <<catalog, worldLink, lateWire, inbox, outbox, mirror, denied, dropped, worldHistory>>

\* An object that was there is gone from the lot: its mirror goes at once.
ObjectGone(p, k) ==
  /\ Up(p) /\ Move
  /\ k \notin Sim
  /\ Send(p, <<Message("GONE", k, None, Nothing)>>)
  /\ mirrorOwner' = [mirrorOwner EXCEPT ![p][k] = None]
  /\ mirrorValue' = [mirrorValue EXCEPT ![p][k] = None]
  /\ UNCHANGED <<catalog, worldLink, lateWire, inbox, outbox, claimState, worldHistory>>

-----------------------------------------------------------------------------
\* The server.

\* A handler waits for its broadcast before its connection's next frame.
Awaits(p) == \E i \in DOMAIN outbox : outbox[i].from = p

Take(p, type) ==
  /\ Up(p) /\ ~Awaits(p)
  /\ worldWire[p] # <<>>
  /\ Head(worldWire[p]).type = type
  /\ worldWire' = [worldWire EXCEPT ![p] = Tail(@)]
  /\ UNCHANGED <<worldLink, lateWire, mirror, claimState, moves>>

Reply(p, frame) == inbox' = [inbox EXCEPT ![p] = Append(@, frame)]

\* broadcast_zone, excluding p.
Broadcast(p, frame) ==
  outbox' = Append(outbox, [from |-> p, to |-> {q \in Player \ {p} : Up(q)}, frame |-> frame])

About(frame, k) == frame.key = k \/ k \in DOMAIN frame.values

\* Broadcasts about k that a direct reply to p overtakes.
Overtakes(p, k) == \E i \in DOMAIN outbox : p \in outbox[i].to /\ About(outbox[i].frame, k)

\* What p was told of k since it removed it from its mirror.
Readmits(p, k) ==
  \/ mirrorOwner[p][k] # None \/ mirrorValue[p][k] # None
  \/ Overtakes(p, k)
  \/ \E i \in DOMAIN inbox[p] : About(inbox[p][i], k)

Told(p, k) ==
  [q \in Player |-> IF q # p THEN astray[q] \ {k}
                    ELSE IF Overtakes(p, k) THEN astray[q] \cup {k} ELSE astray[q]]

Reopened(p, k) == [q \in Player |-> IF q = p THEN shut[q] ELSE shut[q] \ {k}]

Free(p, k) == owner[k] \in {None, p}

\* setdefault.
Created(k) == exists \cup {k}

ServeClaim(p) ==
  LET k == Head(worldWire[p]).key
  IN  /\ Take(p, "CLAIM")
      /\ Free(p, k)
      /\ exists' = Created(k)
      /\ owner' = [owner EXCEPT ![k] = p]
      /\ Reply(p, Message("OWNER", k, p, Nothing))
      /\ Broadcast(p, Message("OWNER", k, p, Nothing))
      /\ astray' = Told(p, k)
      /\ UNCHANGED <<value, unheard, stranded, shut>>

\* OBJECT_LOCKED.  Setdefault makes no object here: the key exists.
RefuseClaim(p) ==
  LET k == Head(worldWire[p]).key
  IN  /\ Take(p, "CLAIM")
      /\ ~Free(p, k)
      /\ Reply(p, Message("LOCKED", k, None, Nothing))
      /\ UNCHANGED <<catalog, outbox, worldHistory>>

ServeRelease(p) ==
  LET k == Head(worldWire[p]).key
  IN  /\ Take(p, "RELEASE")
      /\ IF owner[k] = p
           THEN /\ owner' = [owner EXCEPT ![k] = None]
                /\ Reply(p, Message("OWNER", k, None, Nothing))
                /\ Broadcast(p, Message("OWNER", k, None, Nothing))
                /\ astray' = Told(p, k)
                /\ shut' = Reopened(p, k)
           ELSE /\ Reply(p, Message("OWNER", k, owner[k], Nothing))
                /\ astray' = [astray EXCEPT ![p] = IF Overtakes(p, k) THEN @ \cup {k} ELSE @ \ {k}]
                /\ UNCHANGED <<owner, outbox, shut>>
      /\ UNCHANGED <<exists, value, unheard, stranded>>

\* The fields of the keys K change; whoever does not get the delta misses it.
Store(fields, K) == value' = [k \in Key |-> IF k \in K THEN fields[k] ELSE value[k]]

Changed(fields, K) == {k \in K : value[k] # fields[k]}

\* Everything in the update is p's own: one delta with what has changed.
StoreOwn(p, fields) ==
  LET news == Changed(fields, DOMAIN fields)
  IN  /\ \A k \in DOMAIN fields : owner[k] = p
      /\ Store(fields, DOMAIN fields)
      /\ IF news = {} THEN UNCHANGED outbox
         ELSE Broadcast(p, Message("DELTA", None, None, [k \in news |-> fields[k]]))
      /\ unheard' = [q \in Player |-> IF q = p THEN unheard[q] \cup news ELSE unheard[q] \ news]
      /\ UNCHANGED <<exists, owner, inbox, astray, stranded, shut>>

ServeUpdate(p) == Take(p, "UPDATE") /\ StoreOwn(p, Head(worldWire[p]).values)

\* The first key that is not, k, ends it: those before it, K, are stored and
\* nobody is told.
StoreSome(p, fields, k, K) ==
  /\ k \in DOMAIN fields /\ owner[k] # p
  /\ K \subseteq {j \in DOMAIN fields : owner[j] = p}
  /\ Store(fields, K)
  /\ unheard' = [q \in Player |-> unheard[q] \cup Changed(fields, K)]
  /\ UNCHANGED <<exists, owner, outbox, astray, stranded>>

RefuseUpdate(p, k, K) ==
  /\ Take(p, "UPDATE")
  /\ StoreSome(p, Head(worldWire[p]).values, k, K)
  /\ Reply(p, Message(IF k \in exists THEN "LOCKED" ELSE "NOT_FOUND", k, None, Nothing))
  /\ shut' = IF k \in exists /\ owner[k] = None
               THEN [shut EXCEPT ![p] = @ \cup {k}] ELSE shut

Discard(p, k) ==
  /\ Free(p, k)
  /\ exists' = exists \ {k}
  /\ owner' = [owner EXCEPT ![k] = None]
  /\ value' = [value EXCEPT ![k] = None]
  /\ Broadcast(p, Message("GONE", k, None, Nothing))
  /\ LET after(h) == [q \in Player |->
           IF q = p /\ Readmits(p, k) THEN h[q] \cup {k} ELSE h[q] \ {k}]
     IN  unheard' = after(unheard) /\ astray' = after(astray)
  /\ shut' = [q \in Player |-> shut[q] \cup {k}]
  /\ UNCHANGED <<inbox, stranded>>

ServeGone(p) == Take(p, "GONE") /\ Discard(p, Head(worldWire[p]).key)

\* Somebody else's: the entry is taken out and put back.
RefuseGone(p) ==
  LET k == Head(worldWire[p]).key
  IN  /\ Take(p, "GONE")
      /\ ~Free(p, k)
      /\ Reply(p, Message("LOCKED", k, None, Nothing))
      /\ unheard' = [unheard EXCEPT ![p] = @ \cup {k}]
      /\ astray' = [astray EXCEPT ![p] = @ \cup {k}]
      /\ UNCHANGED <<catalog, outbox, stranded, shut>>

-----------------------------------------------------------------------------
\* The server reads what a broken connection had received.  Its handlers, too,
\* wait for the player's last broadcast.
TakeLate(p, type) ==
  /\ lateWire[p] # <<>> /\ ~Awaits(p)
  /\ Head(lateWire[p]).type = type
  /\ UNCHANGED <<worldLink, worldWire, inbox, mirror, claimState, moves>>

\* What needs no reply is served as ever, and the next frame read.
ReadsOn(p) == lateWire' = [lateWire EXCEPT ![p] = Tail(@)]

LateUpdate(p) == TakeLate(p, "UPDATE") /\ ReadsOn(p) /\ StoreOwn(p, Head(lateWire[p]).values)

LateGone(p) == TakeLate(p, "GONE") /\ ReadsOn(p) /\ Discard(p, Head(lateWire[p]).key)

\* ConnectionClosed at the reply ends the handler before its broadcast.
HangsUp(p) == lateWire' = [lateWire EXCEPT ![p] = <<>>] /\ UNCHANGED outbox

\* Nobody is told of k.
Untold(h, k) == [q \in Player |-> h[q] \cup {k}]

LateClaim(p) ==
  LET k == Head(lateWire[p]).key
  IN  /\ TakeLate(p, "CLAIM") /\ HangsUp(p)
      /\ owner[k] = None
      /\ exists' = Created(k)
      /\ owner' = [owner EXCEPT ![k] = p]
      /\ astray' = Untold(astray, k)
      /\ UNCHANGED <<value, unheard, stranded, shut>>

LateRelease(p) ==
  LET k == Head(lateWire[p]).key
  IN  /\ TakeLate(p, "RELEASE") /\ HangsUp(p)
      /\ owner[k] = p
      /\ owner' = [owner EXCEPT ![k] = None]
      /\ astray' = Untold(astray, k)
      /\ shut' = Untold(shut, k)
      /\ UNCHANGED <<exists, value, unheard, stranded>>

LateRefusal(p, k, K) ==
  /\ TakeLate(p, "UPDATE") /\ HangsUp(p)
  /\ StoreSome(p, Head(lateWire[p]).values, k, K)
  /\ UNCHANGED shut

\* The claim, release or removal changes nothing.
LateInVain(p) ==
  LET k == Head(lateWire[p]).key
  IN  /\ \/ TakeLate(p, "CLAIM") /\ owner[k] # None
         \/ TakeLate(p, "RELEASE") /\ owner[k] # p
         \/ TakeLate(p, "GONE") /\ ~Free(p, k)
      /\ HangsUp(p)
      /\ UNCHANGED <<catalog, worldHistory>>

-----------------------------------------------------------------------------
\* The sends of a broadcast run together, to the connections of the moment.
Deliver ==
  /\ outbox # <<>>
  /\ outbox' = Tail(outbox)
  /\ inbox' = [q \in Player |->
       IF q \in Head(outbox).to /\ Up(q) THEN Append(inbox[q], Head(outbox).frame) ELSE inbox[q]]
  /\ UNCHANGED <<catalog, worldLink, worldWire, lateWire, mirror, claimState, moves, worldHistory>>

-----------------------------------------------------------------------------
\* The client reads.

Apply(p, type) ==
  /\ BetweenTurns /\ Up(p) /\ inbox[p] # <<>>
  /\ Head(inbox[p]).type = type
  /\ inbox' = [inbox EXCEPT ![p] = Tail(@)]
  /\ UNCHANGED <<catalog, worldLink, lateWire, outbox, driven, moves>>

\* Mutant of Reopens: only a key of one's own is open again.
ReopensOwn(p, o) == o = p

\* An owner that leaves the key to p.
Reopens(p, o) == o \in {None, p}

\* Mutant of Noted: an object that has an owner keeps it.
NotedFirst(p, f) ==
  [mirrorOwner EXCEPT ![p][f.key] = IF @ = None THEN f.owner ELSE @]

Noted(p, f) == [mirrorOwner EXCEPT ![p][f.key] = f.owner]

\* OBJECT_OWNERSHIP and OBJECT_CLAIM_ACK.
ApplyOwner(p) ==
  LET f == Head(inbox[p])
  IN  /\ Apply(p, "OWNER")
      /\ mirrorOwner' = Noted(p, f)
      /\ inFlight' = [inFlight EXCEPT ![p] = @ \ {f.key}]
      /\ denied' = [denied EXCEPT ![p] = IF Reopens(p, f.owner) THEN @ \ {f.key} ELSE @]
      /\ UNCHANGED <<worldWire, mirrorValue, dropped, worldHistory>>

Merged(p, fields) ==
  [k \in Key |-> IF k \in DOMAIN fields THEN fields[k] ELSE mirrorValue[p][k]]

ApplyDelta(p) ==
  /\ Apply(p, "DELTA")
  /\ mirrorValue' = [mirrorValue EXCEPT ![p] = Merged(p, Head(inbox[p]).values)]
  /\ UNCHANGED <<worldWire, mirrorOwner, inFlight, denied, dropped, worldHistory>>

ApplyGone(p) ==
  LET k == Head(inbox[p]).key
  IN  /\ Apply(p, "GONE")
      /\ mirrorOwner' = [mirrorOwner EXCEPT ![p][k] = None]
      /\ mirrorValue' = [mirrorValue EXCEPT ![p][k] = None]
      /\ UNCHANGED <<worldWire, inFlight, denied, dropped, worldHistory>>

Answered(p, k) == [inFlight EXCEPT ![p] = @ \ {k}]

\* OBJECT_LOCKED names the key, OBJECT_NOT_FOUND does not.
ApplyLocked(p) ==
  LET k == Head(inbox[p]).key
  IN  /\ Apply(p, "LOCKED")
      /\ inFlight' = Answered(p, k)
      /\ denied' = [denied EXCEPT ![p] = @ \cup {k}]
      /\ UNCHANGED <<worldWire, mirror, dropped, worldHistory>>

ApplyNotFound(p) ==
  /\ Apply(p, "NOT_FOUND")
  /\ UNCHANGED <<worldWire, mirror, inFlight, denied, dropped, worldHistory>>

\* The snapshot of a new HELLO, and the claims of _maybe_reclaim after it.
ApplyState(p) ==
  LET f == Head(inbox[p])
      again == {k \in dropped[p] : f.owner[k] \in {None, p}}
  IN  /\ Apply(p, "STATE")
      /\ mirrorOwner' = [mirrorOwner EXCEPT ![p] = f.owner]
      /\ mirrorValue' = [mirrorValue EXCEPT ![p] = f.values]
      /\ dropped' = [dropped EXCEPT ![p] = {}]
      /\ \E s \in [1..Cardinality(again) -> again] :
           /\ Range(s) = again
           /\ worldWire' = [worldWire EXCEPT ![p] =
                @ \o [i \in DOMAIN s |-> Message("CLAIM", s[i], None, Nothing)]]
      /\ UNCHANGED <<inFlight, denied, worldHistory>>

-----------------------------------------------------------------------------
\* The connection breaks; the client captures what its mirror has for its own.
\* Some of what it has sent has been received, and is still read.  A connection
\* is read to its end before the player's next one breaks.
LinkBreaks(p) ==
  /\ Up(p) /\ ~Awaits(p) /\ lateWire[p] = <<>> /\ Move
  /\ worldLink' = [worldLink EXCEPT ![p] = "down"]
  /\ worldWire' = [worldWire EXCEPT ![p] = <<>>]
  /\ \E n \in 0..Len(worldWire[p]) : lateWire' = [lateWire EXCEPT ![p] = SubSeq(worldWire[p], 1, n)]
  /\ inbox' = [inbox EXCEPT ![p] = <<>>]
  /\ dropped' = [dropped EXCEPT ![p] = Mine(p)]
  /\ stranded' = [stranded EXCEPT ![p] = @ \cup inFlight[p]]
  /\ UNCHANGED <<catalog, outbox, mirror, driven, inFlight, denied, unheard, astray, shut>>

\* It comes back: the snapshot is what the server has now, the denials are as
\* they were.
Rejoin(p) ==
  /\ ~Up(p)
  /\ worldLink' = [worldLink EXCEPT ![p] = "up"]
  /\ inbox' = [inbox EXCEPT ![p] = <<Message("STATE", None, owner, value)>>]
  /\ unheard' = [unheard EXCEPT ![p] = {}]
  /\ astray' = [astray EXCEPT ![p] = {}]
  /\ shut' = [shut EXCEPT ![p] = @ \cup denied[p]]
  /\ UNCHANGED <<catalog, worldWire, lateWire, outbox, mirror, claimState, moves, stranded>>

\* The ghost, whose connection is read to its end, is evicted: what it owned is
\* free, and everybody is told.
Evict(p) ==
  LET lost == {k \in Key : owner[k] = p}
  IN  /\ worldLink[p] = "down" /\ lateWire[p] = <<>> /\ ~Awaits(p) /\ Move
      /\ worldLink' = [worldLink EXCEPT ![p] = "evicted"]
      /\ owner' = [k \in Key |-> IF k \in lost THEN None ELSE owner[k]]
      /\ \E s \in [1..Cardinality(lost) -> lost] :
           /\ Range(s) = lost
           /\ outbox' = outbox \o [i \in DOMAIN s |->
                [from |-> p, to |-> {q \in Player : Up(q)},
                 frame |-> Message("OWNER", s[i], None, Nothing)]]
      /\ astray' = [q \in Player |-> IF q = p THEN astray[q] ELSE astray[q] \ lost]
      /\ shut' = [q \in Player |-> IF q = p THEN shut[q] ELSE shut[q] \ lost]
      /\ UNCHANGED <<exists, value, worldWire, lateWire, inbox, mirror, claimState, unheard, stranded>>

-----------------------------------------------------------------------------
MirrorNext(p) ==
  \/ \E active \in Sim \cup {None}, edited \in SUBSET (Key \ Sim), fields \in [Key -> Value] :
       SampleTick(p, active, edited, fields)
  \/ \E k \in Key : ObjectGone(p, k)
  \/ ApplyOwner(p) \/ ApplyDelta(p) \/ ApplyGone(p) \/ ApplyLocked(p) \/ ApplyNotFound(p)
  \/ ApplyState(p)

CatalogNext(p) ==
  \/ ServeClaim(p) \/ RefuseClaim(p) \/ ServeRelease(p) \/ ServeUpdate(p)
  \/ \E k \in Key, K \in SUBSET Key : RefuseUpdate(p, k, K)
  \/ ServeGone(p) \/ RefuseGone(p)

LateNext(p) ==
  \/ LateClaim(p) \/ LateRelease(p) \/ LateUpdate(p) \/ LateGone(p) \/ LateInVain(p)
  \/ \E k \in Key, K \in SUBSET Key : LateRefusal(p, k, K)

WorldNext ==
  \/ Deliver
  \/ \E p \in Player :
       \/ MirrorNext(p) \/ CatalogNext(p) \/ LateNext(p)
       \/ LinkBreaks(p) \/ Rejoin(p) \/ Evict(p)

WorldSpec == WorldInit /\ [][WorldNext]_worldVars

-----------------------------------------------------------------------------
\* Types; what is not in the catalog has no owner and no value.
WorldTypeOK ==
  /\ exists \subseteq Key
  /\ owner \in [Key -> Player \cup {None}]
  /\ value \in [Key -> Value \cup {None}]
  /\ \A k \in Key \ exists : owner[k] = None /\ value[k] = None
  /\ worldLink \in [Player -> {"up", "down", "evicted"}]
  /\ mirrorOwner \in [Player -> [Key -> Player \cup {None}]]
  /\ mirrorValue \in [Player -> [Key -> Value \cup {None}]]
  /\ driven \in [Player -> Sim \cup {None}]
  /\ \A h \in {inFlight, denied, dropped, unheard, astray, stranded, shut} :
       h \in [Player -> SUBSET Key]
  /\ moves \in 0..MaxMoves

\* Nothing is on its way between the player and the server.
Settled(p) == Up(p) /\ worldWire[p] = <<>> /\ inbox[p] = <<>> /\ outbox = <<>>

\* A mirror has the catalog's values, but for changes its player was not told:
\* its own, and those stored by an update that was then refused.
ValuesConverge ==
  \A p \in Player : Settled(p) =>
    \A k \in Key \ unheard[p] : mirrorValue[p][k] = value[k]

\* A mirror has the catalog's owners, but where a reply overtook a broadcast,
\* a removal was refused or crossed a claim, or a claim or release that took
\* effect ended at its reply.
OwnersConverge ==
  \A p \in Player : Settled(p) =>
    \A k \in Key \ astray[p] : mirrorOwner[p][k] = owner[k]

\* What a client holds of the catalog is the catalog's: values and owners.
CatalogIsMirrored == ValuesConverge /\ OwnersConverge

\* Every claim is answered, but for those lost with a connection.
ClaimsAnswered == \A p \in Player : Settled(p) => inFlight[p] \subseteq stranded[p]

\* A client gives up on a key only while somebody else owns it, but for the
\* cases shut collects.
DenialsExplained ==
  \A p \in Player : Settled(p) =>
    \A k \in denied[p] \ shut[p] : owner[k] \notin {None, p}

\* No claim is left open, and none given up that could still be had.
ClaimsSettled == ClaimsAnswered /\ DenialsExplained

\* A client gives up on a key only while somebody else owns it.
ReleasedCanBeClaimed ==
  \A p \in Player : Settled(p) => \A k \in denied[p] : owner[k] \notin {None, p}
=============================================================================
