----------------------------- MODULE DeepSession -----------------------------
(***************************************************************************)
(* Who runs the simulation of a room: the host the server has on record,   *)
(* the role every client plays, and the commands joiners relay to the      *)
(* host.  A DEEP_HOST broadcast runs a little later than its handler, so   *)
(* the reply to a JOIN_ROOM or a HELLO can overtake one.                   *)
(*                                                                         *)
(* A ROOM_STATE that names a host does what DEEP_HOST does, one that names *)
(* none does nothing: neither is a frame of its own here.                  *)
(***************************************************************************)
EXTENDS Players, Integers, Sequences

CONSTANTS Room,
          Lobby,      \* DEFAULT_ROOM_ID
          Claimant,   \* players that may be configured with want_host
          MaxDeeds    \* bound: frames sent by clients, breaks and evictions

ASSUME DeepConstants == MaxDeeds \in Nat /\ Lobby \in Room /\ None \notin Player \X (0..MaxDeeds)

VARIABLES
  \* the server
  roomHost,   \* Room.host_player_id
  seat,       \* Player.room_id
  life,       \* which player record of the identity this is
  socket,     \* "up", "down", "evicted"
  \* the network
  sent,       \* frames on their way to the server
  tasks,      \* broadcasts whose tasks have not run
  received,   \* frames on their way to the client
  \* the clients
  wantsHost,  \* players that are
  enabled, isHost, hostId,   \* DeepSession
  deeds,      \* deeds done so far
  \* history
  misled,     \* players with another host in mind than their room's, and why is known
  vacated,    \* rooms whose host went to another room or is evicted
  yielded,    \* rooms somebody stopped being host of
  early,      \* rooms with a command to the host, or a HELLO's reply, that overtook a broadcast
  ignored     \* rooms with a command that its receiver dropped

deepServer == <<roomHost, seat, life, socket>>
deepNet == <<sent, tasks, received>>
deepClient == <<enabled, isHost, hostId>>
deepHistory == <<misled, vacated, yielded, early, ignored>>
deepVars == <<deepServer, deepNet, wantsHost, deepClient, deeds, deepHistory>>

\* A player_id: an evicted player gets a new one.
Id(p) == <<p, life[p]>>

Ids == Player \X (0..MaxDeeds)

Present(p) == socket[p] = "up"

Members(r) == {p \in Player : Present(p) /\ seat[p] = r}

DeepInit ==
  /\ roomHost = [r \in Room |-> None]
  /\ seat = [p \in Player |-> Lobby]
  /\ life = [p \in Player |-> 0]
  /\ socket = [p \in Player |-> "down"]
  /\ sent = [p \in Player |-> <<>>]
  /\ tasks = <<>>
  /\ received = [p \in Player |-> <<>>]
  /\ wantsHost \in SUBSET Claimant
  /\ enabled = [p \in Player |-> FALSE]
  /\ isHost = [p \in Player |-> FALSE]
  /\ hostId = [p \in Player |-> None]
  /\ deeds = 0
  /\ misled = {} /\ vacated = {} /\ yielded = {} /\ early = {} /\ ignored = {}

-----------------------------------------------------------------------------
\* A broadcast runs in the server's next turn, before a client can answer
\* anything this turn has sent: clients act between turns.
BetweenTurns == tasks = <<>>

\* The client sends.

Deed ==
  /\ deeds < MaxDeeds
  /\ deeds' = deeds + 1

Say(p, frame) ==
  /\ BetweenTurns /\ Present(p) /\ Deed
  /\ sent' = [sent EXCEPT ![p] = Append(@, frame)]
  /\ UNCHANGED <<deepServer, tasks, received, deepClient, deepHistory>>

\* claim_host and claim_joiner.
ClaimRole(p, role) == Say(p, [type |-> role])

ChangeRoom(p, r) == Say(p, [type |-> "JOIN", room |-> r])

\* A joiner's overrides relay what the user does to the host.
RelayCommand(p) ==
  /\ enabled[p] /\ ~isHost[p]
  /\ Say(p, [type |-> "COMMAND"])

-----------------------------------------------------------------------------
\* The server.

\* A handler waits for its broadcast before its connection's next frame.
Waiting(p) == \E i \in DOMAIN tasks : tasks[i].from = p

Take(p, type) ==
  /\ Present(p) /\ ~Waiting(p)
  /\ sent[p] # <<>> /\ Head(sent[p]).type = type
  /\ sent' = [sent EXCEPT ![p] = Tail(@)]
  /\ UNCHANGED <<life, socket, deepClient, deeds>>

DeepHost(h) == [type |-> "HOST", host |-> h]

\* DEEP_HOST to the room, then the sender's SESSION_ROLE.
Announce(p, frames, role) ==
  tasks' = tasks \o [i \in DOMAIN frames |-> [from |-> p, to |-> Members(seat[p]), frame |-> frames[i]]]
                 \o <<[from |-> p, to |-> {p}, frame |-> [type |-> role]]>>

\* Session.claim_host: the first claim wins.
Claimed(r, id) == IF roomHost[r] \in {None, id} THEN id ELSE roomHost[r]

ServeHostClaim(p) ==
  LET r == seat[p]
      h == Claimed(r, Id(p))
  IN  /\ Take(p, "host")
      /\ roomHost' = [roomHost EXCEPT ![r] = h]
      /\ Announce(p, <<DeepHost(h)>>, IF h = Id(p) THEN "is_host" ELSE "is_joiner")
      /\ misled' = misled \ Members(r)
      /\ UNCHANGED <<seat, received, vacated, yielded, early, ignored>>

ServeJoinerClaim(p) ==
  LET r == seat[p]
  IN  /\ Take(p, "joiner")
      /\ IF roomHost[r] = Id(p)
           THEN /\ roomHost' = [roomHost EXCEPT ![r] = None]
                /\ Announce(p, <<DeepHost(None)>>, "is_joiner")
                /\ misled' = misled \ Members(r)
                /\ yielded' = yielded \cup {r}
           ELSE /\ Announce(p, <<>>, "is_joiner")
                /\ UNCHANGED <<roomHost, misled, yielded>>
      /\ UNCHANGED <<seat, received, vacated, early, ignored>>

\* Mutant of Tell: nobody is told on coming in.
TellNobody(p, h) == received[p]

\* What a player coming into r is told: nothing when it has no host.
Tell(p, h) == IF h = None THEN received[p] ELSE Append(received[p], DeepHost(h))

\* What is written to p now overtakes a broadcast.
Overtakes(p) == \E i \in DOMAIN tasks : p \in tasks[i].to

\* Its idea of the host may be another room's, or older than the room's.
Confused(p, h) == h = None \/ Overtakes(p)

ServeJoinRoom(p) ==
  LET r == Head(sent[p]).room
  IN  /\ Take(p, "JOIN")
      /\ seat' = [seat EXCEPT ![p] = r]
      /\ received' = [received EXCEPT ![p] = Tell(p, roomHost[r])]
      /\ misled' = IF Confused(p, roomHost[r]) THEN misled \cup {p} ELSE misled \ {p}
      /\ vacated' = IF r # seat[p] /\ roomHost[seat[p]] = Id(p) THEN vacated \cup {seat[p]} ELSE vacated
      /\ UNCHANGED <<roomHost, tasks, yielded, early, ignored>>

\* Route "host": the room's host, whatever room it is in now.
Target(r) == {p \in Player : Present(p) /\ roomHost[r] = Id(p)}

\* The relay is sent at once, before the broadcasts that wait.
ServeCommand(p) ==
  LET r == seat[p]
      to == Target(r) \ {p}
  IN  /\ Take(p, "COMMAND")
      /\ received' = [q \in Player |->
           IF q \in to THEN Append(received[q], [type |-> "COMMAND", room |-> r]) ELSE received[q]]
      /\ early' = early \cup {s \in {r} : \E q \in to : Overtakes(q)}
      /\ UNCHANGED <<roomHost, seat, tasks, misled, vacated, yielded, ignored>>

\* The sends of a broadcast run together, to the connections of the moment.
RunTasks ==
  /\ tasks # <<>>
  /\ tasks' = Tail(tasks)
  /\ received' = [q \in Player |->
       IF q \in Head(tasks).to /\ Present(q) THEN Append(received[q], Head(tasks).frame) ELSE received[q]]
  /\ UNCHANGED <<deepServer, sent, deepClient, deeds, deepHistory>>

-----------------------------------------------------------------------------
\* The client reads: DeepSession.handle_protocol_message.

Handle(p, types) ==
  /\ BetweenTurns /\ Present(p) /\ received[p] # <<>>
  /\ Head(received[p]).type \in types
  /\ received' = [received EXCEPT ![p] = Tail(@)]
  /\ UNCHANGED <<deepServer, sent, tasks, deeds, misled, vacated, yielded, early>>

Play(p, h, am) ==
  /\ hostId' = [hostId EXCEPT ![p] = h]
  /\ enabled' = [enabled EXCEPT ![p] = TRUE]
  /\ isHost' = [isHost EXCEPT ![p] = am]

\* Mutant of ApplyDeepHost: a host stays one.
ApplyDeepHostOnce(p, h) == Play(p, h, isHost[p] \/ h = Id(p))

ApplyDeepHost(p, h) == Play(p, h, h = Id(p))

HandleHost(p) ==
  /\ Handle(p, {"HOST"})
  /\ ApplyDeepHost(p, Head(received[p]).host)
  /\ UNCHANGED ignored

HandleRole(p) ==
  /\ Handle(p, {"is_host", "is_joiner"})
  /\ IF Head(received[p]).type = "is_host" THEN ApplyDeepHost(p, Id(p))
     ELSE Play(p, hostId[p], enabled[p] /\ hostId[p] = Id(p))
  /\ UNCHANGED ignored

\* Handlers of commands do nothing on a client that is not the host.
HandleCommand(p) ==
  /\ Handle(p, {"COMMAND"})
  /\ ignored' = IF enabled[p] /\ isHost[p] THEN ignored ELSE ignored \cup {Head(received[p]).room}
  /\ UNCHANGED deepClient

-----------------------------------------------------------------------------
\* DeepSession.deactivate.
Deactivate(p) ==
  /\ enabled' = [enabled EXCEPT ![p] = FALSE]
  /\ isHost' = [isHost EXCEPT ![p] = FALSE]
  /\ hostId' = [hostId EXCEPT ![p] = None]

\* A connection breaks.  The engine's own reconnection keeps the deep session,
\* disconnect() takes it down.
Lose(p, quits) ==
  /\ Present(p) /\ ~Waiting(p) /\ Deed
  /\ socket' = [socket EXCEPT ![p] = "down"]
  /\ sent' = [sent EXCEPT ![p] = <<>>]
  /\ received' = [received EXCEPT ![p] = <<>>]
  /\ IF quits THEN Deactivate(p) ELSE UNCHANGED deepClient
  /\ UNCHANGED <<roomHost, seat, life, tasks, deepHistory>>

\* HELLO: with want_host it claims, and only the claimant is told.
Enter(p) ==
  LET id == <<p, IF socket[p] = "evicted" THEN life[p] + 1 ELSE life[p]>>
      r == IF socket[p] = "evicted" THEN Lobby ELSE seat[p]
      h == IF p \in wantsHost THEN Claimed(r, id) ELSE roomHost[r]
  IN  /\ ~Present(p)
      /\ socket' = [socket EXCEPT ![p] = "up"]
      /\ life' = [life EXCEPT ![p] = id[2]]
      /\ seat' = [seat EXCEPT ![p] = r]
      /\ roomHost' = [roomHost EXCEPT ![r] = h]
      /\ received' = [received EXCEPT ![p] = Tell(p, h)]
      /\ misled' = ((IF roomHost[r] = h THEN misled ELSE misled \cup Members(r)) \ {p})
                     \cup {q \in {p} : Confused(p, h)}
      /\ early' = early \cup {s \in {r} : Overtakes(p)}
      /\ UNCHANGED <<sent, tasks, deepClient, deeds, vacated, yielded, ignored>>

\* The reaper forgets a ghost.  Its rooms keep it as their host.
Reap(p) ==
  /\ socket[p] = "down" /\ Deed
  /\ socket' = [socket EXCEPT ![p] = "evicted"]
  /\ vacated' = vacated \cup {r \in Room : roomHost[r] = Id(p)}
  /\ UNCHANGED <<roomHost, seat, life, deepNet, deepClient, misled, yielded, early, ignored>>

-----------------------------------------------------------------------------
DeepNext ==
  /\ \/ RunTasks
     \/ \E p \in Player :
          \/ \E role \in {"host", "joiner"} : ClaimRole(p, role)
          \/ \E r \in Room : ChangeRoom(p, r)
          \/ RelayCommand(p)
          \/ ServeHostClaim(p) \/ ServeJoinerClaim(p) \/ ServeJoinRoom(p) \/ ServeCommand(p)
          \/ HandleHost(p) \/ HandleRole(p) \/ HandleCommand(p)
          \/ \E quits \in BOOLEAN : Lose(p, quits)
          \/ Enter(p) \/ Reap(p)
  /\ UNCHANGED wantsHost

DeepSpec == DeepInit /\ [][DeepNext]_deepVars

-----------------------------------------------------------------------------
\* Types; a player without a session has no role and no host in mind, and a
\* host knows of one.
DeepTypeOK ==
  /\ roomHost \in [Room -> Ids \cup {None}]
  /\ seat \in [Player -> Room]
  /\ life \in [Player -> 0..MaxDeeds]
  /\ socket \in [Player -> {"up", "down", "evicted"}]
  /\ wantsHost \subseteq Claimant
  /\ enabled \in [Player -> BOOLEAN] /\ isHost \in [Player -> BOOLEAN]
  /\ hostId \in [Player -> Ids \cup {None}]
  /\ \A p \in Player : /\ isHost[p] => enabled[p]
                       /\ hostId[p] # None => enabled[p]
                       /\ isHost[p] => hostId[p] # None
  /\ deeds \in 0..MaxDeeds
  /\ misled \subseteq Player
  /\ \A R \in {vacated, yielded, early, ignored} : R \subseteq Room

DeepQuiet(p) == BetweenTurns /\ Present(p) /\ received[p] = <<>>

\* Once a player has read everything it plays the host exactly if it is the
\* host of its room, but for those nobody told: the members of a room whose
\* host came with want_host, a player in a room without a host, and one whose
\* reply overtook a broadcast.
RolesAgree ==
  \A p \in Player \ misled : DeepQuiet(p) =>
    /\ enabled[p]
    /\ isHost[p] <=> roomHost[seat[p]] = Id(p)
    /\ hostId[p] = roomHost[seat[p]]

\* A relayed command is dropped by its receiver only where the room's host had
\* gone elsewhere, given up its role, not been told yet that it has it, or been
\* told so before an older announcement reached it.
CommandsHeard == ignored \subseteq vacated \cup yielded \cup early
=============================================================================
