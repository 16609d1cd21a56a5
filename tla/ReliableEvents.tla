--------------------------- MODULE ReliableEvents ---------------------------
(***************************************************************************)
(* The numbered events of one client identity: the game thread posts them, *)
(* the engine thread re-sends what was not acknowledged on every new       *)
(* connection, the server relays a number once and acknowledges it.        *)
(* Identities do not share any of this state, so one is enough.            *)
(***************************************************************************)
EXTENDS Integers, Sequences, FiniteSets, FiniteSetsExt, Functions

CONSTANTS PendingLimit,   \* pending_limit
          MaxSeq,         \* bound: events of one engine
          MaxEngine,      \* bound: engines made under the identity
          MaxBreak        \* bound: connections that break

ASSUME EventConstants ==
  /\ PendingLimit \in Nat \ {0}
  /\ MaxSeq \in Nat
  /\ MaxEngine \in Nat \ {0}
  /\ MaxBreak \in Nat

VARIABLES
  \* the client
  engine,    \* which ClientEngine of the identity this is
  seq,       \* _seq
  pending,   \* the numbers in _pending
  posting,   \* the number send_event has stored and not sent yet, 0 for none
  pc,        \* where the engine thread is
  todo,      \* the numbers _resend_pending still has to send, in order
  \* the network
  link,      \* the socket works
  wire,      \* frames on the way to the server
  old,       \* events of the broken connection the server has not read yet
  acks,      \* EVENT_ACK frames on the way back
  breaks,    \* sockets broken so far
  \* the server
  serving,   \* the HELLO of this connection has been handled
  last,      \* last_event_seq of the player's record
  log,       \* what was relayed under this record
  lost,      \* what was settled without a relay under this record
  \* history
  settled,   \* events whose acknowledgement reached the client
  relayed,   \* events relayed at all
  crossed,   \* events that a later one of their engine went past
  cut,       \* events whose handler ended at a failed acknowledgement
  numbered   \* engines that have numbered this record

client == <<engine, seq, pending, posting>>
thread == <<pc, todo>>
net == <<link, wire, old, acks, breaks>>
server == <<serving, last, log, lost>>
history == <<settled, relayed, crossed, cut, numbered>>
vars == <<client, thread, net, server, history>>

Event == [engine : 1..MaxEngine, seq : 1..MaxSeq]

EventOf(n) == [engine |-> engine, seq |-> n]

Hello == [engine |-> 0, seq |-> 0]

\* EngineState.CONNECTED.  A thread that died of a failed HELLO leaves it so.
Connected == pc \in {"open", "greeted", "resend", "read", "dead"}

Alive == pc \in {"open", "greeted", "resend", "read"}

Init ==
  /\ engine = 1 /\ seq = 0 /\ pending = {} /\ posting = 0
  /\ pc = "wait" /\ todo = {}
  /\ link = FALSE /\ wire = <<>> /\ old = <<>> /\ acks = <<>> /\ breaks = 0
  /\ serving = FALSE /\ last = 0 /\ log = <<>> /\ lost = {}
  /\ settled = {} /\ relayed = {} /\ crossed = {} /\ cut = {} /\ numbered = {}

-----------------------------------------------------------------------------
\* The game thread.

\* Mutant of Stored: one more than the limit.
StoredLate(n) ==
  (IF Cardinality(pending) > PendingLimit THEN pending \ {Min(pending)} ELSE pending) \cup {n}

\* The oldest makes room for the new one.
Stored(n) ==
  (IF Cardinality(pending) >= PendingLimit THEN pending \ {Min(pending)} ELSE pending) \cup {n}

\* send_event: number and store it ...
PostEvent ==
  /\ Connected /\ pc # "dead"
  /\ posting = 0 /\ seq < MaxSeq
  /\ seq' = seq + 1
  /\ pending' = Stored(seq + 1)
  /\ posting' = seq + 1
  /\ UNCHANGED <<engine, thread, net, server, history>>

\* What a send of n goes past: the re-send is not done with it.
Overtaken(n) ==
  LET waiting == CASE pc = "greeted" -> pending [] pc = "resend" -> todo [] OTHER -> {}
  IN  {EventOf(m) : m \in {k \in waiting : k < n}}

\* ... and send it.  A socket that broke unnoticed swallows it.
PostSend ==
  /\ posting # 0 /\ Alive
  /\ IF link
       THEN /\ wire' = Append(wire, EventOf(posting))
            /\ crossed' = crossed \cup Overtaken(posting)
       ELSE UNCHANGED <<wire, crossed>>
  /\ posting' = 0
  /\ UNCHANGED <<engine, seq, pending, thread, link, old, acks, breaks, server, settled, relayed,
                 cut, numbered>>

\* A failed send forgets the event.
PostFails ==
  /\ posting # 0 /\ ~link
  /\ pending' = pending \ {posting}
  /\ posting' = 0
  /\ UNCHANGED <<engine, seq, thread, net, server, history>>

\* disconnect() and connect(): a new engine counts from 1 again.
Restart ==
  /\ engine < MaxEngine /\ posting = 0
  /\ engine' = engine + 1
  /\ seq' = 0
  /\ pending' = {}
  /\ pc' = "wait" /\ todo' = {}
  /\ link' = FALSE /\ wire' = <<>> /\ acks' = <<>>
  /\ old' = IF serving THEN wire ELSE old
  /\ serving' = FALSE
  /\ UNCHANGED <<posting, breaks, last, log, lost, history>>

-----------------------------------------------------------------------------
\* The engine thread.

\* A connection opens.
Open ==
  /\ pc = "wait"
  /\ pc' = "open"
  /\ link' = TRUE /\ wire' = <<>> /\ acks' = <<>>
  /\ serving' = FALSE
  /\ UNCHANGED <<client, todo, old, breaks, last, log, lost, history>>

SendHello ==
  /\ pc = "open"
  /\ pc' = "greeted"
  /\ wire' = IF link THEN Append(wire, Hello) ELSE wire
  /\ UNCHANGED <<client, todo, link, old, acks, breaks, server, history>>

\* Nothing catches the exception of a HELLO that cannot be sent.
HelloFails ==
  /\ pc = "open" /\ ~link
  /\ pc' = "dead"
  /\ UNCHANGED <<client, todo, net, server, history>>

\* Mutant of Unacked: the newest is taken for sent.
UnackedOlder == {n \in pending : n < seq}

Unacked == pending

ListPending ==
  /\ pc = "greeted"
  /\ pc' = "resend"
  /\ todo' = Unacked
  /\ UNCHANGED <<client, net, server, history>>

Resend ==
  /\ pc = "resend" /\ todo # {}
  /\ todo' = todo \ {Min(todo)}
  /\ wire' = IF link THEN Append(wire, EventOf(Min(todo))) ELSE wire
  /\ UNCHANGED <<client, pc, link, old, acks, breaks, server, history>>

ResendDone ==
  /\ pc = "resend" /\ todo = {}
  /\ pc' = "read"
  /\ UNCHANGED <<client, todo, net, server, history>>

\* Mutant of Answers: an acknowledgement settles all that came before.
AnswersUpTo(a) == 1..a.seq

Answers(a) == {a.seq}

TrackAck ==
  /\ pc = "read" /\ acks # <<>>
  /\ pending' = pending \ Answers(Head(acks))
  /\ settled' = settled \cup {EventOf(n) : n \in Answers(Head(acks))}
  /\ acks' = Tail(acks)
  /\ UNCHANGED <<engine, seq, posting, thread, link, wire, old, breaks, server, relayed, crossed,
                 cut, numbered>>

\* The read loop sees that the socket is broken.
Notice ==
  /\ pc = "read" /\ ~link
  /\ pc' = "wait"
  /\ UNCHANGED <<client, todo, net, server, history>>

-----------------------------------------------------------------------------
\* The network: the server may still read some of what was sent, an older
\* leftover is gone by then.
Break ==
  /\ link /\ breaks < MaxBreak
  /\ breaks' = breaks + 1
  /\ link' = FALSE
  /\ \E n \in 0..Len(wire) : old' = IF serving THEN SubSeq(wire, 1, n) ELSE old
  /\ wire' = <<>> /\ acks' = <<>>
  /\ serving' = FALSE
  /\ UNCHANGED <<client, thread, last, log, lost, history>>

-----------------------------------------------------------------------------
\* The server.

ServeHello ==
  /\ ~serving /\ wire # <<>>
  /\ Head(wire) = Hello
  /\ wire' = Tail(wire)
  /\ serving' = TRUE
  /\ UNCHANGED <<client, thread, link, old, acks, breaks, last, log, lost, history>>

\* NOT_REGISTERED: no acknowledgement.
RefuseEvent ==
  /\ ~serving /\ wire # <<>>
  /\ Head(wire) # Hello
  /\ wire' = Tail(wire)
  /\ UNCHANGED <<client, thread, link, old, acks, breaks, server, history>>

\* Mutant of Seen: the last number may come again.
SeenBefore(e) == e.seq < last

\* Mutant of Seen: the next number counts as seen.
SeenAhead(e) == e.seq <= last + 1

Seen(e) == e.seq <= last

\* _handle_event when its acknowledgement can be written.
RecordAndRelay(e) ==
  \/ /\ Seen(e)
     /\ lost' = IF e \in Range(log) THEN lost ELSE lost \cup {e}
     /\ UNCHANGED <<last, log, relayed, numbered>>
  \/ /\ ~Seen(e)
     /\ last' = e.seq
     /\ log' = Append(log, e)
     /\ relayed' = relayed \cup {e}
     /\ numbered' = numbered \cup {e.engine}
     /\ UNCHANGED lost

\* _handle_event when it cannot: the number is recorded, nobody hears of the event.
RecordOnly(e) ==
  /\ IF Seen(e)
       THEN UNCHANGED <<last, lost, cut, numbered>>
       ELSE /\ last' = e.seq
            /\ lost' = lost \cup {e}
            /\ cut' = cut \cup {e}
            /\ numbered' = numbered \cup {e.engine}
  /\ UNCHANGED <<log, relayed>>

ServeEvent ==
  /\ serving /\ wire # <<>>
  /\ RecordAndRelay(Head(wire))
  /\ wire' = Tail(wire)
  /\ acks' = Append(acks, Head(wire))
  /\ UNCHANGED <<client, thread, link, old, breaks, serving, settled, crossed, cut>>

\* The broken connection's task reads on until its first reply fails; once
\* its player is taken over it does.
ServeOld ==
  /\ old # <<>> /\ ~serving
  /\ RecordAndRelay(Head(old))
  /\ old' = Tail(old)
  /\ UNCHANGED <<client, thread, link, wire, acks, breaks, serving, settled, crossed, cut>>

OldDies ==
  /\ old # <<>>
  /\ RecordOnly(Head(old))
  /\ old' = <<>>
  /\ UNCHANGED <<client, thread, link, wire, acks, breaks, serving, settled, crossed>>

\* The reaper forgets a player that stays away.
Evict ==
  /\ ~serving /\ old = <<>>
  /\ last' = 0 /\ log' = <<>> /\ lost' = {} /\ numbered' = {}
  /\ UNCHANGED <<client, thread, net, serving, settled, relayed, crossed, cut>>

-----------------------------------------------------------------------------
EngineNext ==
  Open \/ SendHello \/ HelloFails \/ ListPending \/ Resend \/ ResendDone \/ TrackAck \/ Notice

ServerNext == ServeHello \/ RefuseEvent \/ ServeEvent \/ ServeOld \/ OldDies

EventsNext ==
  PostEvent \/ PostSend \/ PostFails \/ Restart \/ EngineNext \/ Break \/ ServerNext \/ Evict

Spec == Init /\ [][EventsNext]_vars

\* Both threads run and the server reads: all that is needed of them is that
\* they do not stop together.
EventsRun == PostSend \/ PostFails \/ EngineNext \/ ServerNext

FairSpec == Spec /\ WF_vars(EventsRun)

-----------------------------------------------------------------------------
Numbers == 0..MaxSeq

\* Types, the limit of the pending list among them.
TypeOK ==
  /\ engine \in 1..MaxEngine /\ seq \in Numbers /\ posting \in Numbers
  /\ pending \subseteq 1..MaxSeq /\ Cardinality(pending) <= PendingLimit
  /\ pc \in {"wait", "open", "greeted", "resend", "read", "dead"}
  /\ todo \subseteq 1..MaxSeq
  /\ link \in BOOLEAN /\ breaks \in 0..MaxBreak
  /\ wire \in Seq(Event \cup {Hello}) /\ old \in Seq(Event) /\ acks \in Seq(Event)
  /\ serving \in BOOLEAN /\ last \in Numbers
  /\ log \in Seq(Event) /\ lost \subseteq Event
  /\ settled \subseteq Event /\ relayed \subseteq Event /\ crossed \subseteq Event
  /\ cut \subseteq Event /\ numbered \subseteq 1..MaxEngine

\* Under one record of its sender an event is relayed at most once and in
\* order, and none after it was settled without a relay: _handle_event
\* implements EventLog.
Channel == INSTANCE EventLog

KeepsOrder == Channel!Spec

\* An event is settled without a relay for one of three reasons only: a later
\* event went past it while it was re-sent, its handler ended at a failed
\* acknowledgement, or another engine has numbered the same record.
LossesExplained ==
  \A e \in lost : e \in crossed \cup cut \/ numbered \ {e.engine} # {}

\* Acknowledged means relayed, but for those.
AckedIsSettled ==
  settled \subseteq relayed \cup crossed \cup cut \cup {e \in Event : engine > 1}

\* A stored event is acknowledged, forgotten by a failed send, or will be
\* sent: a connection that stays drains the list.
PendingDrains == <>[](link /\ pc # "dead") => <>[](pending = {})

\* What the client takes for delivered was delivered.
AckedWasRelayed == settled \subseteq relayed
=============================================================================
