---------------------------- MODULE SaveTransfer ----------------------------
(***************************************************************************)
(* Save files pushed through one room: the pusher's chunks, the server's   *)
(* cached copy and its relay, and the reassembly every client does.  The   *)
(* relay of a chunk runs a little later, the replay of the cached copy is  *)
(* a direct reply, so a replay can overtake a relay.                       *)
(*                                                                         *)
(* A file is the sequence of its bytes; ChunkBytes of them make a chunk.   *)
(***************************************************************************)
EXTENDS Players, Integers, Sequences, SequencesExt

CONSTANTS SaveSlot,
          ChunkBytes,   \* MAX_SAVE_CHUNK_BYTES
          MaxBytes,     \* bound: the size of a file
          MaxPush,      \* bound: files pushed
          MaxTrips      \* bound: connections that break, copies asked for

ASSUME SaveConstants ==
  /\ "none" \notin SaveSlot   \* the slot of no copy and no transfer
  /\ ChunkBytes \in Nat \ {0}
  /\ MaxBytes \in Nat /\ MaxPush \in Nat /\ MaxTrips \in Nat

VARIABLES
  \* the network
  linked,    \* players with a connection
  uplink,    \* chunks and requests on their way to the server
  relays,    \* relays whose tasks have not run
  downlink,  \* chunks on their way to the client
  \* the server
  cached,    \* _save_caches of the room
  \* the clients
  transfer,  \* SaveInbox._transfers
  saved,     \* the save files a client has written
  \* history
  pushes,    \* the slot of every push so far
  trips,     \* breaks and requests so far
  spoilt,    \* slots with a cut push, overlapping ones or leftovers of them
  muddled,   \* slots pushed while the server was still reading another
  same,      \* slots whose last push looked like the cached copy
  due        \* the last push of a slot a player was there for

saveNet == <<linked, uplink, relays, downlink>>
saveHistory == <<pushes, trips, spoilt, muddled, same, due>>
saveVars == <<saveNet, cached, transfer, saved, saveHistory>>

Nil == [slot |-> "none"]

\* The bytes of push n: no two pushes share one.
File(n, size) == [i \in 1..size |-> <<n, i>>]

Pieces(size) == (size + ChunkBytes - 1) \div ChunkBytes

\* Mutant of Piece: the last chunk runs short.
PieceShort(data, i) == SubSeq(data, (i - 1) * ChunkBytes + 1, i * ChunkBytes - 1)

\* data[(seq - 1) * chunk : seq * chunk].
Piece(data, i) ==
  SubSeq(data, (i - 1) * ChunkBytes + 1,
         IF i * ChunkBytes < Len(data) THEN i * ChunkBytes ELSE Len(data))

Chunk(slot, data, i) ==
  [type |-> "PUSH", slot |-> slot, seq |-> i, total |-> Pieces(Len(data)), size |-> Len(data),
   chunk |-> Piece(data, i)]

Chunks(slot, data) == [i \in 1..Pieces(Len(data)) |-> Chunk(slot, data, i)]

Request == [type |-> "REQUEST"]

SaveInit ==
  /\ linked = Player
  /\ uplink = [p \in Player |-> <<>>]
  /\ relays = <<>>
  /\ downlink = [p \in Player |-> <<>>]
  /\ cached = Nil
  /\ transfer = [p \in Player |-> [s \in SaveSlot |-> Nil]]
  /\ saved = [p \in Player |-> [s \in SaveSlot |-> <<>>]]
  /\ pushes = <<>> /\ trips = 0
  /\ spoilt = {} /\ muddled = {} /\ same = {}
  /\ due = [p \in Player |-> [s \in SaveSlot |-> 0]]

-----------------------------------------------------------------------------
\* The slots with frames somewhere, or with leftovers in a client.
SlotsIn(frames) == {f.slot : f \in {g \in ToSet(frames) : g.type = "PUSH"}}

TravellingTo(p) == SlotsIn(downlink[p]) \cup {f.frame.slot : f \in {g \in ToSet(relays) : p \in g.to}}

Travelling == UNION {SlotsIn(uplink[p]) \cup TravellingTo(p) : p \in Player}

Unread == UNION {SlotsIn(uplink[p]) : p \in Player}

\* A transfer the client has taken a chunk of, or that has another declaration.
Leftover(p, s, size) ==
  transfer[p][s] # Nil /\ (transfer[p][s].next > 1 \/ transfer[p][s].size # size)

\* A relay runs in the server's next turn, before a client can answer anything
\* this turn has sent: clients act between turns.
TurnOver == relays = <<>>

\* push_save_file: all chunks are sent in one go.
Push(p, slot, size) ==
  LET data == File(Len(pushes) + 1, size)
  IN  /\ TurnOver /\ p \in linked /\ uplink[p] = <<>>
      /\ Len(pushes) < MaxPush
      /\ pushes' = Append(pushes, slot)
      /\ uplink' = [uplink EXCEPT ![p] = Chunks(slot, data)]
      /\ spoilt' = IF slot \in Travelling \/ \E q \in Player : Leftover(q, slot, size)
                     THEN spoilt \cup {slot} ELSE spoilt
      /\ muddled' = IF Unread \subseteq {slot} THEN muddled ELSE muddled \cup Unread \cup {slot}
      /\ due' = [q \in Player |->
           [due[q] EXCEPT ![slot] = IF q \in linked \ {p} THEN Len(pushes) + 1 ELSE 0]]
      /\ same' = IF cached.slot = slot /\ cached.size = size THEN same \cup {slot} ELSE same \ {slot}
      /\ UNCHANGED <<linked, relays, downlink, cached, transfer, saved, trips>>

\* request_save.
Ask(p) ==
  /\ TurnOver /\ p \in linked /\ uplink[p] = <<>>
  /\ trips < MaxTrips
  /\ trips' = trips + 1
  /\ uplink' = [uplink EXCEPT ![p] = <<Request>>]
  /\ UNCHANGED <<linked, relays, downlink, cached, transfer, saved, pushes, spoilt, muddled, same, due>>

-----------------------------------------------------------------------------
\* The server.

\* A handler waits for its relay before its connection's next frame.
Relaying(p) == \E i \in DOMAIN relays : relays[i].from = p

Fetch(p, type) ==
  /\ ~Relaying(p)
  /\ uplink[p] # <<>> /\ Head(uplink[p]).type = type
  /\ uplink' = [uplink EXCEPT ![p] = Tail(@)]

\* Mutant of Another: by the name alone.
AnotherName(f) == cached.slot # f.slot

\* The cached copy is of another file, as far as its declaration tells.
Another(f) == cached.slot # f.slot \/ cached.total # f.total \/ cached.size # f.size

\* _cache_save_chunk: a closed copy of the same declaration ignores the chunk.
Written(f) ==
  LET entry == IF cached = Nil \/ Another(f)
                 THEN [slot |-> f.slot, total |-> f.total, size |-> f.size, open |-> TRUE, data |-> <<>>]
                 ELSE cached
  IN  IF ~entry.open THEN entry
      ELSE [entry EXCEPT !.data = @ \o f.chunk, !.open = f.seq < f.total]

CacheAndRelay(p) ==
  LET f == Head(uplink[p])
  IN  /\ Fetch(p, "PUSH")
      /\ cached' = Written(f)
      /\ relays' = Append(relays, [from |-> p, to |-> linked \ {p}, frame |-> f])
      /\ UNCHANGED <<linked, downlink, transfer, saved, saveHistory>>

LastPush(s) == CHOOSE n \in DOMAIN pushes : pushes[n] = s /\ \A m \in DOMAIN pushes : pushes[m] = s => m <= n

\* Only a complete copy is replayed, cut anew.
Complete == cached # Nil /\ ~cached.open

Replay(p) ==
  LET s == cached.slot
  IN  /\ Fetch(p, "REQUEST")
      /\ Complete /\ p \in linked
      /\ downlink' = [downlink EXCEPT ![p] = @ \o Chunks(s, cached.data)]
      /\ spoilt' = IF s \in Travelling \cup muddled \/ Leftover(p, s, cached.size)
                     THEN spoilt \cup {s} ELSE spoilt
      /\ due' = [due EXCEPT ![p][s] = IF s \in same THEN 0 ELSE LastPush(s)]
      /\ UNCHANGED <<linked, relays, cached, transfer, saved, pushes, trips, muddled, same>>

NothingToReplay(p) ==
  /\ Fetch(p, "REQUEST")
  /\ ~(Complete /\ p \in linked)
  /\ UNCHANGED <<linked, relays, downlink, cached, transfer, saved, saveHistory>>

\* The sends of a relay run together, to the connections of the moment.
RunRelay ==
  /\ relays # <<>>
  /\ relays' = Tail(relays)
  /\ downlink' = [q \in Player |->
       IF q \in Head(relays).to \cap linked THEN Append(downlink[q], Head(relays).frame) ELSE downlink[q]]
  /\ UNCHANGED <<linked, uplink, cached, transfer, saved, saveHistory>>

-----------------------------------------------------------------------------
\* SaveInbox.feed.

Begun(p, f) ==
  IF transfer[p][f.slot] # Nil THEN transfer[p][f.slot]
  ELSE [slot |-> f.slot, total |-> f.total, size |-> f.size, next |-> 1, buffer |-> <<>>]

InTurn(t, f) ==
  /\ f.seq = t.next
  /\ t.size > Len(t.buffer)
  /\ Len(f.chunk) <= t.size - Len(t.buffer)

Extended(t, f) == [t EXCEPT !.buffer = @ \o f.chunk, !.next = @ + 1]

\* A transfer of another slot is dropped when a new one begins and it is old.
Pruned(p, f, old) ==
  IF transfer[p][f.slot] # Nil THEN transfer[p]
  ELSE [s \in SaveSlot |-> IF s \in old \ {f.slot} THEN Nil ELSE transfer[p][s]]

Feed(p, old) ==
  LET f == Head(downlink[p])
      began == Begun(p, f)
      t == IF InTurn(began, f) THEN Extended(began, f) ELSE began
      over == t.next > t.total
  IN  /\ TurnOver /\ p \in linked /\ downlink[p] # <<>>
      /\ downlink' = [downlink EXCEPT ![p] = Tail(@)]
      /\ transfer' = [transfer EXCEPT ![p] = [Pruned(p, f, old) EXCEPT ![f.slot] = IF over THEN Nil ELSE t]]
      /\ saved' = IF over /\ Len(t.buffer) = t.size THEN [saved EXCEPT ![p][f.slot] = t.buffer] ELSE saved
      /\ spoilt' = spoilt \cup {s \in old : transfer[p][f.slot] = Nil /\ s # f.slot /\ transfer[p][s] # Nil}
      /\ UNCHANGED <<linked, uplink, relays, cached, pushes, trips, muddled, same, due>>

-----------------------------------------------------------------------------
\* A connection breaks: the server may still read some of what was sent, what
\* was on its way to the client is gone.
Cut(p) ==
  /\ p \in linked /\ ~Relaying(p)
  /\ trips < MaxTrips
  /\ trips' = trips + 1
  /\ linked' = linked \ {p}
  /\ \E n \in 0..Len(uplink[p]) : uplink' = [uplink EXCEPT ![p] = SubSeq(@, 1, n)]
  /\ downlink' = [downlink EXCEPT ![p] = <<>>]
  /\ spoilt' = spoilt \cup SlotsIn(uplink[p]) \cup TravellingTo(p)
  /\ due' = [due EXCEPT ![p] = [s \in SaveSlot |-> 0]]
  /\ UNCHANGED <<relays, cached, transfer, saved, pushes, muddled, same>>

Relink(p) ==
  /\ p \notin linked /\ uplink[p] = <<>>
  /\ linked' = linked \cup {p}
  /\ UNCHANGED <<uplink, relays, downlink, cached, transfer, saved, saveHistory>>

-----------------------------------------------------------------------------
SaveNext ==
  \/ RunRelay
  \/ \E p \in Player :
    \/ \E s \in SaveSlot, size \in 1..MaxBytes : Push(p, s, size)
    \/ Ask(p)
    \/ CacheAndRelay(p) \/ Replay(p) \/ NothingToReplay(p)
    \/ \E old \in SUBSET SaveSlot : Feed(p, old)
    \/ Cut(p) \/ Relink(p)

SaveSpec == SaveInit /\ [][SaveNext]_saveVars

-----------------------------------------------------------------------------
\* Types.
SaveTypeOK ==
  /\ linked \subseteq Player
  /\ spoilt \subseteq SaveSlot /\ muddled \subseteq SaveSlot /\ same \subseteq SaveSlot
  /\ cached # Nil => cached.slot \in SaveSlot /\ cached.total = Pieces(cached.size)
  /\ \A p \in Player : \A s \in SaveSlot :
       transfer[p][s] # Nil =>
         /\ transfer[p][s].next \in 1..transfer[p][s].total
         /\ Len(transfer[p][s].buffer) <= transfer[p][s].size
  /\ due \in [Player -> [SaveSlot -> 0..MaxPush]]
  /\ trips \in 0..MaxTrips

\* All bytes of one push, in order.
IsFile(data) == data = File(data[1][1], Len(data))

\* A save that a client has written, or the server has cached, is one push
\* from its first byte to its last, but in slots where pushes were cut or
\* overlapped: there feed and _cache_save_chunk put two together.
FilesWhole ==
  /\ \A p \in Player : \A s \in SaveSlot \ spoilt : saved[p][s] # <<>> => IsFile(saved[p][s])
  /\ cached # Nil /\ ~cached.open /\ cached.slot \notin spoilt \cup muddled =>
       Len(cached.data) = cached.size /\ IsFile(cached.data)

SaveQuiet == TurnOver /\ \A p \in Player : uplink[p] = <<>> /\ downlink[p] = <<>>

\* Whoever was connected when a save was pushed, and since, has that save.
PushesArrive ==
  SaveQuiet => \A p \in Player : \A s \in SaveSlot \ spoilt :
    due[p][s] # 0 => saved[p][s] # <<>> /\ saved[p][s][1][1] = due[p][s]

\* The copy for late joiners is the latest save of its slot, but for a save
\* with the size of the one before: its chunks are ignored.
CopyIsLatest ==
  SaveQuiet /\ cached # Nil /\ cached.slot \notin spoilt \cup muddled \cup same =>
    ~cached.open /\ cached.data[1][1] = LastPush(cached.slot)

\* Once a push is through, who was there has it and who comes later gets it.
LatestArrives == PushesArrive /\ CopyIsLatest
=============================================================================
