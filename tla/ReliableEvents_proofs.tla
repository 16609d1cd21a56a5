------------------------ MODULE ReliableEvents_proofs ------------------------
(***************************************************************************)
(* The invariants of ReliableEvents for any limit, and that the server's   *)
(* handler implements EventLog.                                            *)
(***************************************************************************)
EXTENDS ReliableEvents, FiniteSetTheorems, WellFoundedInduction, TLAPS

\* The smallest of some numbers is one of them.
LEMMA MinOf ==
  ASSUME NEW S \in SUBSET Nat, S # {}
  PROVE  Min(S) \in S /\ \A y \in S : Min(S) <= y
<1> DEFINE Less == OpToRel(<, Nat)
<1>1. IsWellFoundedOn(Less, Nat)
  BY NatLessThanWellFounded
<1>2. \A x, y \in Nat : <<x, y>> \in Less <=> x < y
  BY DEF OpToRel
<1> HIDE DEF Less
<1>3. PICK x \in S : \A y \in S : <<y, x>> \notin Less
  BY <1>1, WFMin
<1>4. \A y \in S : ~(y < x)
  <2> SUFFICES ASSUME NEW y \in S PROVE ~(y < x)
    OBVIOUS
  <2>1. x \in Nat /\ y \in Nat
    OBVIOUS
  <2>2. <<y, x>> \in Less <=> y < x
    BY <1>2, <2>1, Zenon
  <2> QED BY <1>3, <2>2, Zenon
<1>5. \A y \in S : x <= y
  BY <1>4
<1> QED BY <1>5 DEF Min

-----------------------------------------------------------------------------
\* Types.  The server reads nothing but events once it has read the HELLO,
\* which a connection carries once.

ClientTypes ==
  /\ engine \in 1..MaxEngine /\ seq \in Numbers /\ posting \in Numbers
  /\ pending \subseteq 1..MaxSeq
  /\ pc \in {"wait", "open", "greeted", "resend", "read", "dead"}
  /\ todo \subseteq 1..MaxSeq

Limited == Cardinality(pending) <= PendingLimit

\* The HELLO is the only frame of a connection that is no event.
OneHello ==
  /\ serving \/ pc = "open" => \A i \in DOMAIN wire : wire[i] # Hello
  /\ \A i, j \in DOMAIN wire : wire[i] = Hello /\ wire[j] = Hello => i = j
  /\ pc = "open" => ~serving

NetTypes ==
  /\ link \in BOOLEAN /\ breaks \in 0..MaxBreak
  /\ wire \in Seq(Event \cup {Hello}) /\ old \in Seq(Event) /\ acks \in Seq(Event)

ServerTypes ==
  /\ serving \in BOOLEAN /\ last \in Numbers
  /\ log \in Seq(Event) /\ lost \subseteq Event

HistoryTypes ==
  /\ settled \subseteq Event /\ relayed \subseteq Event /\ crossed \subseteq Event
  /\ cut \subseteq Event /\ numbered \subseteq 1..MaxEngine

Types == ClientTypes /\ Limited /\ NetTypes /\ ServerTypes /\ HistoryTypes

LEMMA TypesAre == TypeOK <=> Types
BY DEF TypeOK, Types, ClientTypes, Limited, NetTypes, ServerTypes, HistoryTypes

\* Nothing relayed or lost has a number past the record's.
Settles ==
  /\ \A i \in DOMAIN log : log[i].seq <= last
  /\ \A e \in lost : e.seq <= last

Base == Types /\ OneHello /\ Settles

LEMMA NoFrames == <<>> \in Seq(Event) /\ <<>> \in Seq(Event \cup {Hello})
OBVIOUS

LEMMA HelloIsNoEvent == Hello \notin Event
BY DEF Hello, Event

LEMMA EventsMade ==
  ASSUME ClientTypes, NEW n \in 1..MaxSeq
  PROVE  EventOf(n) \in Event /\ EventOf(n).seq = n /\ EventOf(n).engine = engine
BY DEF ClientTypes, EventOf, Event

LEMMA EventFields ==
  ASSUME NEW e \in Event
  PROVE  e.seq \in 1..MaxSeq /\ e.engine \in 1..MaxEngine
BY DEF Event

\* What makes room for the new event.
LEMMA StoredTypes ==
  ASSUME pending \subseteq 1..MaxSeq, Limited, NEW n \in 1..MaxSeq
  PROVE  Stored(n) \subseteq 1..MaxSeq /\ Cardinality(Stored(n)) <= PendingLimit
<1>1. IsFiniteSet(1..MaxSeq)
  BY FS_Interval, EventConstants
<1>2. IsFiniteSet(pending)
  BY <1>1, FS_Subset
<1>3. Cardinality(pending) \in Nat /\ PendingLimit \in Nat \ {0}
  BY <1>2, FS_CardinalityType, EventConstants
<1>4. ASSUME NEW S, S \subseteq 1..MaxSeq, Cardinality(S) < PendingLimit
      PROVE  (S \cup {n}) \subseteq 1..MaxSeq /\ Cardinality(S \cup {n}) <= PendingLimit
  <2>1. IsFiniteSet(S)
    BY <1>1, <1>4, FS_Subset
  <2>2. Cardinality(S) \in Nat
    BY <2>1, FS_CardinalityType
  <2>3. Cardinality(S \cup {n}) = Cardinality(S) \/ Cardinality(S \cup {n}) = Cardinality(S) + 1
    BY <2>1, FS_AddElement
  <2> QED BY <1>3, <1>4, <2>2, <2>3
<1>5. CASE Cardinality(pending) < PendingLimit
  <2>1. Stored(n) = pending \cup {n}
    BY <1>3, <1>5 DEF Stored
  <2> QED BY <1>4, <1>5, <2>1
<1>6. CASE Cardinality(pending) >= PendingLimit
  <2>1. pending # {}
    BY <1>3, <1>6, FS_EmptySet
  <2>2. pending \in SUBSET Nat
    BY EventConstants
  <2>3. Min(pending) \in pending
    BY <2>1, <2>2, MinOf
  <2>4. Cardinality(pending \ {Min(pending)}) = Cardinality(pending) - 1
    BY <1>2, <2>3, FS_RemoveElement
  <2>5. Cardinality(pending \ {Min(pending)}) < PendingLimit
    BY <1>3, <2>4 DEF Limited
  <2>6. Stored(n) = (pending \ {Min(pending)}) \cup {n}
    BY <1>6 DEF Stored
  <2> QED BY <1>4, <2>5, <2>6
<1> QED BY <1>3, <1>5, <1>6

\* Fewer pending events.
LEMMA FewerPending ==
  ASSUME pending \subseteq 1..MaxSeq, Limited, NEW S, S \subseteq pending
  PROVE  Cardinality(S) <= PendingLimit
<1>0. IsFiniteSet(1..MaxSeq)
  BY FS_Interval, EventConstants
<1>1. IsFiniteSet(pending)
  BY <1>0, FS_Subset
<1>2. IsFiniteSet(S) /\ Cardinality(S) <= Cardinality(pending)
  BY <1>1, FS_Subset
<1>3. Cardinality(S) \in Nat /\ Cardinality(pending) \in Nat /\ PendingLimit \in Nat
  BY <1>1, <1>2, FS_CardinalityType, EventConstants
<1> QED BY <1>2, <1>3 DEF Limited

\* The server's two ways to take an event.
LEMMA RelayTypes ==
  ASSUME Base, NEW e \in Event, RecordAndRelay(e), UNCHANGED cut
  PROVE  /\ last' \in Numbers /\ log' \in Seq(Event) /\ lost' \subseteq Event
         /\ relayed' \subseteq Event /\ numbered' \subseteq 1..MaxEngine
         /\ Settles'
<1>0. /\ last \in Numbers /\ log \in Seq(Event) /\ lost \subseteq Event
      /\ relayed \subseteq Event /\ numbered \subseteq 1..MaxEngine
      /\ e.seq \in 1..MaxSeq /\ e.engine \in 1..MaxEngine
      /\ \A i \in DOMAIN log : log[i].seq \in 1..MaxSeq
      /\ \A f \in lost : f.seq \in 1..MaxSeq
  BY EventFields DEF Base, Types, ServerTypes, HistoryTypes
<1>1. CASE Seen(e) /\ lost' = (IF e \in Range(log) THEN lost ELSE lost \cup {e})
           /\ UNCHANGED <<last, log, relayed, numbered>>
  <2>1. \A f \in lost' : f.seq <= last
    BY <1>1 DEF Base, Settles, Seen
  <2> QED BY <1>0, <1>1, <2>1 DEF Base, Settles
<1>2. CASE ~Seen(e) /\ last' = e.seq /\ log' = Append(log, e) /\ relayed' = relayed \cup {e}
           /\ numbered' = numbered \cup {e.engine} /\ UNCHANGED lost
  <2>1. last < e.seq /\ last' = e.seq
    BY <1>0, <1>2 DEF Seen, Numbers
  <2>2. \A f \in lost' : f.seq <= last'
    BY <1>0, <1>2, <2>1 DEF Base, Settles, Numbers
  <2>3. \A i \in DOMAIN log' : log'[i].seq <= last'
    <3> SUFFICES ASSUME NEW i \in DOMAIN log' PROVE log'[i].seq <= last'
      OBVIOUS
    <3>1. (i \in DOMAIN log /\ log'[i] = log[i]) \/ log'[i] = e
      BY <1>0, <1>2
    <3>2. CASE i \in DOMAIN log /\ log'[i] = log[i]
      BY <1>0, <2>1, <3>2 DEF Base, Settles, Numbers
    <3> QED BY <1>0, <2>1, <3>1, <3>2
  <2>4. last' \in Numbers /\ log' \in Seq(Event)
    BY <1>0, <1>2, EventConstants DEF Numbers
  <2> QED BY <1>0, <1>2, <2>2, <2>3, <2>4 DEF Settles
<1> QED BY <1>1, <1>2 DEF RecordAndRelay

LEMMA RecordTypes ==
  ASSUME Base, NEW e \in Event, RecordOnly(e)
  PROVE  /\ last' \in Numbers /\ log' \in Seq(Event) /\ lost' \subseteq Event
         /\ relayed' \subseteq Event /\ cut' \subseteq Event /\ numbered' \subseteq 1..MaxEngine
         /\ Settles'
<1>0. /\ last \in Numbers /\ log \in Seq(Event) /\ lost \subseteq Event
      /\ relayed \subseteq Event /\ cut \subseteq Event /\ numbered \subseteq 1..MaxEngine
      /\ e.seq \in 1..MaxSeq /\ e.engine \in 1..MaxEngine
      /\ \A i \in DOMAIN log : log[i].seq \in 1..MaxSeq
      /\ \A f \in lost : f.seq \in 1..MaxSeq
  BY EventFields DEF Base, Types, ServerTypes, HistoryTypes
<1>1. CASE Seen(e)
  BY <1>0, <1>1 DEF RecordOnly, Base, Settles
<1>2. CASE ~Seen(e)
  <2>1. last < e.seq /\ last' = e.seq
    BY <1>0, <1>2 DEF RecordOnly, Seen, Numbers
  <2>2. \A f \in lost' : f.seq <= last'
    BY <1>0, <1>2, <2>1 DEF RecordOnly, Base, Settles, Numbers
  <2>3. \A i \in DOMAIN log' : log'[i].seq <= last'
    BY <1>0, <1>2, <2>1 DEF RecordOnly, Base, Settles, Numbers
  <2>4. last' \in Numbers
    BY <1>0, <2>1, EventConstants DEF Numbers
  <2> QED BY <1>0, <1>2, <2>2, <2>3, <2>4 DEF RecordOnly, Settles
<1> QED BY <1>1, <1>2

-----------------------------------------------------------------------------
\* Wires: one more frame, one less.

\* No HELLO is on the wire.
NoHello(w) == \A i \in DOMAIN w : w[i] # Hello

LEMMA WireAppend ==
  ASSUME NEW w \in Seq(Event \cup {Hello}), NEW e \in Event
  PROVE  /\ Append(w, e) \in Seq(Event \cup {Hello})
         /\ NoHello(w) => NoHello(Append(w, e))
         /\ (\A i, j \in DOMAIN w : w[i] = Hello /\ w[j] = Hello => i = j)
            => LET v == Append(w, e)
               IN  \A i, j \in DOMAIN v : v[i] = Hello /\ v[j] = Hello => i = j
<1> DEFINE v == Append(w, e)
<1>1. /\ v \in Seq(Event \cup {Hello})
      /\ \A i \in DOMAIN v : (i \in DOMAIN w /\ v[i] = w[i]) \/ v[i] = e
  OBVIOUS
<1>2. e # Hello
  BY HelloIsNoEvent
<1> HIDE DEF v
<1> QED BY <1>1, <1>2 DEF NoHello, v

LEMMA WireTail ==
  ASSUME NEW w \in Seq(Event \cup {Hello}), w # <<>>
  PROVE  /\ Tail(w) \in Seq(Event \cup {Hello})
         /\ Head(w) \in Event \cup {Hello}
         /\ NoHello(w) => NoHello(Tail(w)) /\ Head(w) \in Event
         /\ (\A i, j \in DOMAIN w : w[i] = Hello /\ w[j] = Hello => i = j)
            => LET v == Tail(w)
               IN  /\ \A i, j \in DOMAIN v : v[i] = Hello /\ v[j] = Hello => i = j
                   /\ Head(w) = Hello => NoHello(v)
<1> DEFINE v == Tail(w)
<1>1. /\ v \in Seq(Event \cup {Hello})
      /\ Head(w) = w[1] /\ 1 \in DOMAIN w
      /\ \A i \in DOMAIN v : i + 1 \in DOMAIN w /\ v[i] = w[i + 1]
      /\ \A i \in DOMAIN v : i \in Nat \ {0}
  OBVIOUS
<1>2. Head(w) \in Event \cup {Hello}
  OBVIOUS
<1> HIDE DEF v
<1>3. NoHello(w) => NoHello(v) /\ Head(w) \in Event
  BY <1>1, <1>2 DEF NoHello
<1>4. ASSUME \A i, j \in DOMAIN w : w[i] = Hello /\ w[j] = Hello => i = j
      PROVE  /\ \A i, j \in DOMAIN v : v[i] = Hello /\ v[j] = Hello => i = j
             /\ Head(w) = Hello => NoHello(v)
  <2>1. ASSUME NEW i \in DOMAIN v, NEW j \in DOMAIN v, v[i] = Hello, v[j] = Hello PROVE i = j
    <3>1. i + 1 = j + 1
      BY <1>1, <1>4, <2>1
    <3> QED BY <1>1, <3>1
  <2>2. ASSUME Head(w) = Hello, NEW i \in DOMAIN v PROVE v[i] # Hello
    <3>1. i + 1 # 1
      BY <1>1
    <3> QED BY <1>1, <1>4, <2>2, <3>1
  <2> QED BY <2>1, <2>2 DEF NoHello
<1> QED BY <1>1, <1>2, <1>3, <1>4 DEF v

\* The HELLO itself.
LEMMA WireHello ==
  ASSUME NEW w \in Seq(Event \cup {Hello}), NoHello(w)
  PROVE  LET v == Append(w, Hello)
         IN  /\ v \in Seq(Event \cup {Hello})
             /\ \A i, j \in DOMAIN v : v[i] = Hello /\ v[j] = Hello => i = j
<1> DEFINE v == Append(w, Hello)
<1>1. /\ v \in Seq(Event \cup {Hello})
      /\ \A i \in DOMAIN v : (i \in DOMAIN w /\ v[i] = w[i]) \/ i = Len(w) + 1
  OBVIOUS
<1> HIDE DEF v
<1>2. \A i \in DOMAIN v : v[i] = Hello => i = Len(w) + 1
  BY <1>1 DEF NoHello
<1> QED BY <1>1, <1>2 DEF v

\* A wire without a HELLO carries events.
LEMMA WireEvents ==
  ASSUME NEW w \in Seq(Event \cup {Hello}), NoHello(w)
  PROVE  w \in Seq(Event) /\ \A n \in 0..Len(w) : SubSeq(w, 1, n) \in Seq(Event)
<1>1. \A i \in 1..Len(w) : w[i] \in Event
  BY DEF NoHello
<1>2. w \in Seq(Event)
  BY <1>1
<1> QED BY <1>2

-----------------------------------------------------------------------------
\* Every step keeps the types, the HELLO's place and the order of the record.

LEMMA InitBase == Init => Base
<1> SUFFICES ASSUME Init PROVE Base
  OBVIOUS
<1>1. Limited
  BY FS_EmptySet, EventConstants DEF Init, Limited
<1>2. ClientTypes
  BY EventConstants DEF Init, ClientTypes, Numbers
<1>3. NetTypes
  <2>1. 0 \in 0..MaxBreak
    BY EventConstants
  <2> QED BY <2>1, NoFrames DEF Init, NetTypes
<1>5. ServerTypes /\ HistoryTypes
  <2>1. 0 \in Numbers
    BY EventConstants DEF Numbers
  <2> QED BY <2>1, NoFrames DEF Init, ServerTypes, HistoryTypes
<1>4. OneHello /\ Settles
  BY DEF Init, OneHello, Settles
<1> QED BY <1>1, <1>2, <1>3, <1>4, <1>5 DEF Base, Types

LEMMA BaseStep ==
  ASSUME Base, EventsNext
  PROVE  Base'
<1> USE DEF client, thread, net, server, history
<1>0. /\ ClientTypes /\ Limited /\ NetTypes /\ ServerTypes /\ HistoryTypes /\ OneHello /\ Settles
  BY DEF Base, Types
<1>n. /\ wire \in Seq(Event \cup {Hello}) /\ old \in Seq(Event) /\ acks \in Seq(Event)
      /\ serving \/ pc = "open" => NoHello(wire)
      /\ \A i, j \in DOMAIN wire : wire[i] = Hello /\ wire[j] = Hello => i = j
  BY <1>0 DEF NetTypes, OneHello, NoHello
<1>c. ASSUME ClientTypes', Limited', NetTypes', ServerTypes', HistoryTypes', OneHello', Settles'
      PROVE  Base'
  BY <1>c DEF Base, Types
<1>s. ASSUME UNCHANGED <<serving, last, log, lost>> PROVE ServerTypes' /\ Settles'
  BY <1>0, <1>s DEF ServerTypes, Settles
<1>1. CASE PostEvent
  <2>1. seq + 1 \in 1..MaxSeq
    BY <1>0, <1>1, EventConstants DEF PostEvent, ClientTypes, Numbers
  <2>2. Stored(seq + 1) \subseteq 1..MaxSeq /\ Cardinality(Stored(seq + 1)) <= PendingLimit
    BY <1>0, <2>1, StoredTypes DEF ClientTypes
  <2>3. ClientTypes' /\ Limited'
    BY <1>0, <1>1, <2>1, <2>2, EventConstants DEF PostEvent, ClientTypes, Limited, Numbers
  <2>4. NetTypes' /\ HistoryTypes' /\ OneHello'
    BY <1>0, <1>1 DEF PostEvent, NetTypes, HistoryTypes, OneHello
  <2> QED BY <1>1, <1>c, <1>s, <2>3, <2>4 DEF PostEvent
<1>2. CASE PostSend
  <2>1. posting \in 1..MaxSeq
    BY <1>0, <1>2 DEF PostSend, ClientTypes, Numbers
  <2>2. EventOf(posting) \in Event
    BY <1>0, <2>1, EventsMade
  <2>3. Overtaken(posting) \subseteq Event
    <3>1. \A m \in 1..MaxSeq : EventOf(m) \in Event
      BY <1>0, EventsMade
    <3> QED BY <1>0, <3>1 DEF Overtaken, ClientTypes
  <2>4. wire' \in Seq(Event \cup {Hello}) /\ OneHello'
    <3>1. CASE link
      <4>1. wire' = Append(wire, EventOf(posting)) /\ UNCHANGED <<pc, serving>>
        BY <1>2, <3>1 DEF PostSend
      <4>2. /\ wire' \in Seq(Event \cup {Hello})
            /\ NoHello(wire) => NoHello(wire')
            /\ \A i, j \in DOMAIN wire' : wire'[i] = Hello /\ wire'[j] = Hello => i = j
        BY <1>n, <2>2, <4>1, WireAppend
      <4> QED BY <1>0, <1>n, <4>1, <4>2 DEF OneHello, NoHello
    <3>2. CASE ~link
      BY <1>0, <1>n, <1>2, <3>2 DEF PostSend, OneHello
    <3> QED BY <3>1, <3>2
  <2>5. NetTypes' /\ ClientTypes' /\ Limited'
    BY <1>0, <1>2, <2>4, EventConstants DEF PostSend, NetTypes, ClientTypes, Limited, Numbers
  <2>6. HistoryTypes'
    BY <1>0, <1>2, <2>3 DEF PostSend, HistoryTypes
  <2> QED BY <1>2, <1>c, <1>s, <2>4, <2>5, <2>6 DEF PostSend
<1>3. CASE PostFails
  <2>1. Cardinality(pending \ {posting}) <= PendingLimit
    BY <1>0, FewerPending DEF ClientTypes
  <2>2. ClientTypes' /\ Limited'
    BY <1>0, <1>3, <2>1, EventConstants DEF PostFails, ClientTypes, Limited, Numbers
  <2>3. NetTypes' /\ HistoryTypes' /\ OneHello'
    BY <1>0, <1>3 DEF PostFails, NetTypes, HistoryTypes, OneHello
  <2> QED BY <1>3, <1>c, <1>s, <2>2, <2>3 DEF PostFails
<1>4. CASE Restart
  <2>1. ClientTypes'
    BY <1>0, <1>4, EventConstants DEF Restart, ClientTypes, Numbers
  <2>2. Limited'
    BY <1>4, FS_EmptySet, EventConstants DEF Restart, Limited
  <2>3. old' \in Seq(Event)
    BY <1>n, <1>4, WireEvents DEF Restart
  <2>6. wire' = <<>> /\ pc' # "open"
    BY <1>4 DEF Restart
  <2>4. NetTypes' /\ HistoryTypes'
    BY <1>0, <1>4, <2>3, NoFrames DEF Restart, NetTypes, HistoryTypes
  <2>7. OneHello'
    BY <2>6 DEF OneHello
  <2>5. ServerTypes' /\ Settles'
    BY <1>0, <1>4 DEF Restart, ServerTypes, Settles
  <2> QED BY <1>c, <2>1, <2>2, <2>4, <2>5, <2>7
<1>5. CASE Open
  <2>1. ClientTypes' /\ Limited' /\ NetTypes' /\ HistoryTypes' /\ OneHello'
    BY <1>0, <1>5 DEF Open, ClientTypes, Limited, NetTypes, HistoryTypes, OneHello
  <2>2. ServerTypes' /\ Settles'
    BY <1>0, <1>5 DEF Open, ServerTypes, Settles
  <2> QED BY <1>c, <2>1, <2>2
<1>6. CASE SendHello
  <2>0. ~serving /\ NoHello(wire)
    BY <1>0, <1>n, <1>6 DEF SendHello, OneHello
  <2>1. /\ wire' \in Seq(Event \cup {Hello})
        /\ \A i, j \in DOMAIN wire' : wire'[i] = Hello /\ wire'[j] = Hello => i = j
    BY <1>n, <1>6, <2>0, WireHello DEF SendHello
  <2>2. NetTypes' /\ OneHello'
    BY <1>0, <1>6, <2>0, <2>1 DEF SendHello, NetTypes, OneHello
  <2>3. ClientTypes' /\ Limited' /\ HistoryTypes'
    BY <1>0, <1>6 DEF SendHello, ClientTypes, Limited, HistoryTypes
  <2> QED BY <1>6, <1>c, <1>s, <2>2, <2>3 DEF SendHello
<1>7. CASE HelloFails
  <2>1. ClientTypes' /\ Limited' /\ NetTypes' /\ HistoryTypes' /\ OneHello'
    BY <1>0, <1>7 DEF HelloFails, ClientTypes, Limited, NetTypes, HistoryTypes, OneHello
  <2> QED BY <1>7, <1>c, <1>s, <2>1 DEF HelloFails
<1>8. CASE ListPending
  <2>1. ClientTypes' /\ Limited' /\ NetTypes' /\ HistoryTypes' /\ OneHello'
    BY <1>0, <1>8 DEF ListPending, Unacked, ClientTypes, Limited, NetTypes, HistoryTypes, OneHello
  <2> QED BY <1>8, <1>c, <1>s, <2>1 DEF ListPending
<1>9. CASE Resend
  <2>1. todo \in SUBSET Nat /\ todo # {}
    BY <1>0, <1>9, EventConstants DEF Resend, ClientTypes
  <2>2. Min(todo) \in 1..MaxSeq
    BY <1>0, <2>1, MinOf DEF ClientTypes
  <2>3. EventOf(Min(todo)) \in Event
    BY <1>0, <2>2, EventsMade
  <2>4. wire' \in Seq(Event \cup {Hello}) /\ OneHello'
    <3>1. CASE link
      <4>1. wire' = Append(wire, EventOf(Min(todo))) /\ UNCHANGED <<pc, serving>>
        BY <1>9, <3>1 DEF Resend
      <4>2. /\ wire' \in Seq(Event \cup {Hello})
            /\ NoHello(wire) => NoHello(wire')
            /\ \A i, j \in DOMAIN wire' : wire'[i] = Hello /\ wire'[j] = Hello => i = j
        BY <1>n, <2>3, <4>1, WireAppend
      <4> QED BY <1>0, <1>n, <4>1, <4>2 DEF OneHello, NoHello
    <3>2. CASE ~link
      BY <1>0, <1>n, <1>9, <3>2 DEF Resend, OneHello
    <3> QED BY <3>1, <3>2
  <2>5. NetTypes' /\ ClientTypes' /\ Limited' /\ HistoryTypes'
    BY <1>0, <1>9, <2>4 DEF Resend, NetTypes, ClientTypes, Limited, HistoryTypes
  <2> QED BY <1>9, <1>c, <1>s, <2>4, <2>5 DEF Resend
<1>10. CASE ResendDone
  <2>1. ClientTypes' /\ Limited' /\ NetTypes' /\ HistoryTypes' /\ OneHello'
    BY <1>0, <1>10 DEF ResendDone, ClientTypes, Limited, NetTypes, HistoryTypes, OneHello
  <2> QED BY <1>10, <1>c, <1>s, <2>1 DEF ResendDone
<1>11. CASE TrackAck
  <2>1. Head(acks) \in Event /\ Tail(acks) \in Seq(Event)
    BY <1>n, <1>11 DEF TrackAck
  <2>2. Answers(Head(acks)) \subseteq 1..MaxSeq
    BY <2>1, EventFields DEF Answers
  <2>3. Cardinality(pending \ Answers(Head(acks))) <= PendingLimit
    BY <1>0, FewerPending DEF ClientTypes
  <2>4. ClientTypes' /\ Limited'
    BY <1>0, <1>11, <2>3 DEF TrackAck, ClientTypes, Limited
  <2>5. NetTypes' /\ OneHello'
    BY <1>0, <1>11, <2>1 DEF TrackAck, NetTypes, OneHello
  <2>6. HistoryTypes'
    BY <1>0, <1>11, <2>2, EventsMade DEF TrackAck, HistoryTypes
  <2> QED BY <1>11, <1>c, <1>s, <2>4, <2>5, <2>6 DEF TrackAck
<1>12. CASE Notice
  <2>1. ClientTypes' /\ Limited' /\ NetTypes' /\ HistoryTypes' /\ OneHello'
    BY <1>0, <1>12 DEF Notice, ClientTypes, Limited, NetTypes, HistoryTypes, OneHello
  <2> QED BY <1>12, <1>c, <1>s, <2>1 DEF Notice
<1>13. CASE Break
  <2>1. PICK n \in 0..Len(wire) : old' = IF serving THEN SubSeq(wire, 1, n) ELSE old
    BY <1>13 DEF Break
  <2>2. old' \in Seq(Event)
    BY <1>n, <2>1, WireEvents
  <2>3. breaks' \in 0..MaxBreak
    BY <1>0, <1>13, EventConstants DEF Break, NetTypes
  <2>6. NetTypes'
    BY <1>0, <1>13, <2>2, <2>3, NoFrames DEF Break, NetTypes
  <2>7. wire' = <<>> /\ ~serving'
    BY <1>13 DEF Break
  <2>8. OneHello'
    BY <2>7 DEF OneHello
  <2>4. ClientTypes' /\ Limited' /\ HistoryTypes'
    BY <1>0, <1>13 DEF Break, ClientTypes, Limited, HistoryTypes
  <2>5. ServerTypes' /\ Settles'
    BY <1>0, <1>13 DEF Break, ServerTypes, Settles
  <2> QED BY <1>c, <2>4, <2>5, <2>6, <2>8
\* The wire after its first frame.
<1>t. ASSUME wire # <<>>
      PROVE  /\ Tail(wire) \in Seq(Event \cup {Hello})
             /\ serving => NoHello(Tail(wire)) /\ Head(wire) \in Event
             /\ pc = "open" => NoHello(Tail(wire)) /\ Head(wire) # Hello
             /\ \A i, j \in DOMAIN Tail(wire) :
                  Tail(wire)[i] = Hello /\ Tail(wire)[j] = Hello => i = j
             /\ Head(wire) = Hello => NoHello(Tail(wire))
  BY <1>n, <1>t, WireTail, HelloIsNoEvent
<1>14. CASE ServeHello
  <2>1. NetTypes' /\ OneHello'
    BY <1>0, <1>n, <1>t, <1>14 DEF ServeHello, NetTypes, OneHello, NoHello
  <2>2. ClientTypes' /\ Limited' /\ HistoryTypes'
    BY <1>0, <1>14 DEF ServeHello, ClientTypes, Limited, HistoryTypes
  <2>3. ServerTypes' /\ Settles'
    BY <1>0, <1>14 DEF ServeHello, ServerTypes, Settles
  <2> QED BY <1>c, <2>1, <2>2, <2>3
<1>15. CASE RefuseEvent
  <2>1. NetTypes' /\ OneHello'
    BY <1>0, <1>n, <1>t, <1>15 DEF RefuseEvent, NetTypes, OneHello, NoHello
  <2>2. ClientTypes' /\ Limited' /\ HistoryTypes'
    BY <1>0, <1>15 DEF RefuseEvent, ClientTypes, Limited, HistoryTypes
  <2> QED BY <1>15, <1>c, <1>s, <2>1, <2>2 DEF RefuseEvent
<1>16. CASE ServeEvent
  <2>0. wire # <<>> /\ serving /\ RecordAndRelay(Head(wire)) /\ UNCHANGED cut
    BY <1>16 DEF ServeEvent
  <2>1. Head(wire) \in Event
    BY <1>t, <2>0
  <2>2. /\ last' \in Numbers /\ log' \in Seq(Event) /\ lost' \subseteq Event
        /\ relayed' \subseteq Event /\ numbered' \subseteq 1..MaxEngine /\ Settles'
    BY <2>0, <2>1, RelayTypes
  <2>3. NetTypes' /\ OneHello'
    BY <1>0, <1>n, <1>t, <1>16, <2>0, <2>1 DEF ServeEvent, NetTypes, OneHello, NoHello
  <2>4. ClientTypes' /\ Limited' /\ HistoryTypes' /\ ServerTypes'
    BY <1>0, <1>16, <2>2 DEF ServeEvent, ClientTypes, Limited, HistoryTypes, ServerTypes
  <2> QED BY <1>c, <2>2, <2>3, <2>4
<1>17. CASE ServeOld
  <2>0. Head(old) \in Event /\ Tail(old) \in Seq(Event) /\ RecordAndRelay(Head(old))
        /\ UNCHANGED cut
    BY <1>n, <1>17 DEF ServeOld
  <2>2. /\ last' \in Numbers /\ log' \in Seq(Event) /\ lost' \subseteq Event
        /\ relayed' \subseteq Event /\ numbered' \subseteq 1..MaxEngine /\ Settles'
    BY <2>0, RelayTypes
  <2>3. NetTypes' /\ OneHello'
    BY <1>0, <1>17, <2>0 DEF ServeOld, NetTypes, OneHello
  <2>4. ClientTypes' /\ Limited' /\ HistoryTypes' /\ ServerTypes'
    BY <1>0, <1>17, <2>2 DEF ServeOld, ClientTypes, Limited, HistoryTypes, ServerTypes
  <2> QED BY <1>c, <2>2, <2>3, <2>4
<1>18. CASE OldDies
  <2>0. Head(old) \in Event /\ RecordOnly(Head(old))
    BY <1>n, <1>18 DEF OldDies
  <2>2. /\ last' \in Numbers /\ log' \in Seq(Event) /\ lost' \subseteq Event
        /\ relayed' \subseteq Event /\ cut' \subseteq Event /\ numbered' \subseteq 1..MaxEngine
        /\ Settles'
    BY <2>0, RecordTypes
  <2>3. NetTypes' /\ OneHello'
    BY <1>0, <1>18 DEF OldDies, NetTypes, OneHello
  <2>4. ClientTypes' /\ Limited' /\ HistoryTypes' /\ ServerTypes'
    BY <1>0, <1>18, <2>2 DEF OldDies, ClientTypes, Limited, HistoryTypes, ServerTypes
  <2> QED BY <1>c, <2>2, <2>3, <2>4
<1>19. CASE Evict
  <2>1. NetTypes' /\ OneHello' /\ ClientTypes' /\ Limited' /\ HistoryTypes'
    BY <1>0, <1>19 DEF Evict, NetTypes, OneHello, ClientTypes, Limited, HistoryTypes
  <2>2. ServerTypes' /\ Settles'
    BY <1>0, <1>19, EventConstants DEF Evict, ServerTypes, Settles, Numbers
  <2> QED BY <1>c, <2>1, <2>2
<1> QED
  BY <1>1, <1>2, <1>3, <1>4, <1>5, <1>6, <1>7, <1>8, <1>9, <1>10, <1>11, <1>12, <1>13, <1>14,
     <1>15, <1>16, <1>17, <1>18, <1>19
  DEF EventsNext, EngineNext, ServerNext

LEMMA BaseKept == Base /\ [EventsNext]_vars => Base'
<1> SUFFICES ASSUME Base, UNCHANGED vars PROVE Base'
  BY BaseStep
<1>1. UNCHANGED <<engine, seq, pending, posting, pc, todo, link, wire, old, acks, breaks, serving,
                  last, log, lost, settled, relayed, crossed, cut, numbered>>
  BY DEF vars, client, thread, net, server, history
<1>2. Types'
  BY <1>1 DEF Base, Types, ClientTypes, Limited, NetTypes, ServerTypes, HistoryTypes
<1>3. OneHello' /\ Settles'
  BY <1>1 DEF Base, OneHello, Settles
<1> QED BY <1>2, <1>3 DEF Base

\* Every variable keeps its type and the list of unacknowledged events its
\* limit (TypeOK), for any limit and any number of events.
THEOREM EventsTypeCorrect == Spec => []TypeOK
<1>1. Base => TypeOK
  BY TypesAre DEF Base
<1> QED BY <1>1, InitBase, BaseKept, PTL DEF Spec

-----------------------------------------------------------------------------
\* The server implements the abstract channel.

LEMMA RelayIsChannel ==
  ASSUME Base, NEW e \in Event, RecordAndRelay(e)
  PROVE  [Channel!Next]_<<log, lost>>
<1>0. /\ last \in Numbers /\ log \in Seq(Event) /\ e.seq \in 1..MaxSeq
      /\ \A f \in lost \cup Range(log) : f.seq \in 1..MaxSeq /\ f.seq <= last
  BY EventFields DEF Base, Types, ServerTypes, Settles, Range
<1>1. CASE Seen(e) /\ lost' = (IF e \in Range(log) THEN lost ELSE lost \cup {e}) /\ UNCHANGED log
  <2>1. CASE e \in Range(log)
    BY <1>1, <2>1
  <2>2. CASE e \notin Range(log)
    <3>1. Channel!Lose(e)
      BY <1>1, <2>2 DEF Channel!Lose, Channel!Range, Range
    <3> QED BY <3>1 DEF Channel!Next
  <2> QED BY <2>1, <2>2
<1>2. CASE ~Seen(e) /\ log' = Append(log, e) /\ UNCHANGED lost
  <2>1. \A f \in lost \cup Range(log) : f.seq < e.seq
    BY <1>0, <1>2 DEF Seen, Numbers
  <2>2. e \notin lost
    BY <1>0, <2>1
  <2>3. Channel!Relay(e)
    BY <1>2, <2>1, <2>2 DEF Channel!Relay, Channel!Range, Range
  <2> QED BY <2>3 DEF Channel!Next
<1> QED BY <1>1, <1>2 DEF RecordAndRelay

LEMMA RecordIsChannel ==
  ASSUME Base, NEW e \in Event, RecordOnly(e)
  PROVE  [Channel!Next]_<<log, lost>>
<1>0. /\ last \in Numbers /\ log \in Seq(Event) /\ e.seq \in 1..MaxSeq
      /\ \A f \in lost \cup Range(log) : f.seq \in 1..MaxSeq /\ f.seq <= last
  BY EventFields DEF Base, Types, ServerTypes, Settles, Range
<1>1. CASE Seen(e)
  BY <1>1 DEF RecordOnly
<1>2. CASE ~Seen(e)
  <2>1. e \notin Range(log)
    BY <1>0, <1>2 DEF Seen, Numbers
  <2>2. Channel!Lose(e)
    BY <1>2, <2>1 DEF RecordOnly, Channel!Lose, Channel!Range, Range
  <2> QED BY <2>2 DEF Channel!Next
<1> QED BY <1>1, <1>2

LEMMA StepIsChannel ==
  ASSUME Base, EventsNext
  PROVE  [Channel!Next]_<<log, lost>>
<1> USE DEF client, thread, net, server, history
<1>1. CASE ServeEvent
  <2>1. Head(wire) \in Event
    BY <1>1, WireTail DEF ServeEvent, Base, Types, NetTypes, OneHello, NoHello
  <2> QED BY <1>1, <2>1, RelayIsChannel DEF ServeEvent
<1>2. CASE ServeOld
  <2>1. Head(old) \in Event
    BY <1>2 DEF ServeOld, Base, Types, NetTypes
  <2> QED BY <1>2, <2>1, RelayIsChannel DEF ServeOld
<1>3. CASE OldDies
  <2>1. Head(old) \in Event
    BY <1>3 DEF OldDies, Base, Types, NetTypes
  <2> QED BY <1>3, <2>1, RecordIsChannel DEF OldDies
<1>4. CASE Evict
  BY <1>4 DEF Evict, Channel!Next, Channel!Renew
<1>5. CASE PostEvent \/ PostSend \/ PostFails \/ Restart \/ EngineNext \/ Break \/ ServeHello
           \/ RefuseEvent
  <2>1. UNCHANGED <<log, lost>>
    BY <1>5 DEF PostEvent, PostSend, PostFails, Restart, EngineNext, Open, SendHello, HelloFails,
                ListPending, Resend, ResendDone, TrackAck, Notice, Break, ServeHello, RefuseEvent
  <2> QED BY <2>1
<1> QED BY <1>1, <1>2, <1>3, <1>4, <1>5 DEF EventsNext, ServerNext

\* The numbered events of a player reach the room at most once and in order,
\* and none after it was settled without a relay, as long as the server keeps
\* its record: _handle_event implements EventLog, whatever the network, the
\* re-sends and the restarts of the client do.
THEOREM EventsKeepOrder == Spec => KeepsOrder
<1>1. Init => Channel!Init
  BY DEF Init, Channel!Init
<1>2. Base /\ [EventsNext]_vars => [Channel!Next]_<<log, lost>>
  <2> SUFFICES ASSUME Base, UNCHANGED vars PROVE UNCHANGED <<log, lost>>
    BY StepIsChannel
  <2> QED BY DEF vars, server
<1> QED BY <1>1, <1>2, InitBase, BaseKept, PTL DEF Spec, KeepsOrder, Channel!Spec

-----------------------------------------------------------------------------
\* Losses.  The argument is about order: what could make the server settle an
\* event of engine k without a relay is a later event of k it read first, and
\* what is on the wires and in the list of unacknowledged events comes in the
\* order of its numbers, or is marked as crossed.

\* The server will read frame i of the wire as a registered player's.
Counted(i) == serving \/ \E h \in DOMAIN wire : h < i /\ wire[h] = Hello

\* Nobody else has numbered the record.
Alone(e) == numbered \subseteq {e.engine}

\* Relayed or lost under this record, or crossed.
Accounted(e) == e \in Range(log) \cup lost \cup crossed

\* Events that this connection has still to re-send.
Waits == CASE pc = "greeted" -> pending [] pc = "resend" -> todo [] OTHER -> {}

Connections ==
  /\ ~link => wire = <<>> /\ ~serving
  /\ pc \in {"wait", "dead"} => ~link
  /\ pc # "resend" => todo = {}
  /\ link /\ pc \in {"greeted", "resend", "read"} => serving \/ \E h \in DOMAIN wire : wire[h] = Hello

Numbering ==
  /\ \A i \in DOMAIN wire : wire[i] # Hello => wire[i].engine = engine /\ wire[i].seq <= seq
  /\ \A i \in DOMAIN old :
       old[i].engine <= engine /\ (old[i].engine = engine => old[i].seq <= seq)
  /\ \A e \in Range(log) \cup lost :
       e.engine <= engine /\ (e.engine = engine => e.seq <= seq)
  /\ pending \cup todo \subseteq 1..seq
  /\ posting \in {0, seq}

\* The event the record's number comes from.
Top ==
  last # 0 => \E k \in numbered : \E e \in Range(log) \cup (lost \cap cut) :
                e.engine = k /\ e.seq = last

WireOrder ==
  \A i, j \in DOMAIN wire :
    i < j /\ Counted(i) /\ wire[i] # Hello /\ wire[j] # Hello /\ wire[j].seq < wire[i].seq
      => wire[j] \in crossed

OldOrder ==
  \A i, j \in DOMAIN old :
    i < j /\ old[i].engine = old[j].engine /\ old[j].seq < old[i].seq => old[j] \in crossed

\* What waits to be re-sent was crossed by the later events sent already.
WaitsOrder ==
  \A m \in Waits, i \in DOMAIN wire :
    Counted(i) /\ wire[i] # Hello /\ m < wire[i].seq => EventOf(m) \in crossed

\* What does not wait was sent, and is still on the wire or settled.
SentAll ==
  link /\ pc \in {"resend", "read"} =>
    \A m \in pending \ (Waits \cup {posting}) :
      \/ \E i \in DOMAIN wire : Counted(i) /\ wire[i] = EventOf(m)
      \/ serving /\ EventOf(m) \in Range(log) \cup lost

\* What a broken connection left behind comes before what follows it.
OldFirst(e) ==
  \A j \in DOMAIN old :
    old[j].engine = engine /\ e.seq < old[j].seq
      => Accounted(e) \/ \E i \in DOMAIN old : i < j /\ old[i] = e

PendingAfterOld == \A m \in pending \cup todo : OldFirst(EventOf(m))

WireAfterOld == \A n \in DOMAIN wire : wire[n] # Hello => OldFirst(wire[n])

\* An event below the record's number is accounted for.
Below(e) == Alone(e) /\ e.seq < last => Accounted(e)

WireBelow == \A i \in DOMAIN wire : Counted(i) /\ wire[i] # Hello => Below(wire[i])

OldBelow == ~serving => \A j \in DOMAIN old : Below(old[j])

PendingBelow == \A m \in pending \cup todo : Below(EventOf(m))

Order ==
  /\ Connections /\ Numbering /\ Top
  /\ WireOrder /\ OldOrder /\ WaitsOrder /\ SentAll
  /\ PendingAfterOld /\ WireAfterOld
  /\ WireBelow /\ OldBelow /\ PendingBelow
  /\ LossesExplained

LEMMA OrderInit == Init => Order
<1> SUFFICES ASSUME Init PROVE Order
  OBVIOUS
<1>1. /\ wire = <<>> /\ old = <<>> /\ log = <<>> /\ lost = {} /\ pending = {} /\ todo = {}
      /\ posting = 0 /\ seq = 0 /\ last = 0 /\ ~link /\ ~serving /\ pc = "wait"
  BY DEF Init
<1>2. Connections /\ Numbering /\ Top
  BY <1>1 DEF Connections, Numbering, Top, Range
<1>3. WireOrder /\ OldOrder /\ WaitsOrder /\ SentAll
  BY <1>1 DEF WireOrder, OldOrder, WaitsOrder, SentAll
<1>4. PendingAfterOld /\ WireAfterOld /\ WireBelow /\ OldBelow /\ PendingBelow
  BY <1>1 DEF PendingAfterOld, WireAfterOld, WireBelow, OldBelow, PendingBelow
<1> QED BY <1>1, <1>2, <1>3, <1>4 DEF Order, LossesExplained

-----------------------------------------------------------------------------
\* Sequences by their places.

LEMMA AppendPlaces ==
  ASSUME NEW S, NEW w \in Seq(S), NEW e
  PROVE  LET v == Append(w, e)
         IN  /\ Len(w) + 1 \in DOMAIN v /\ v[Len(w) + 1] = e
             /\ \A i \in DOMAIN w : i \in DOMAIN v /\ v[i] = w[i] /\ i < Len(w) + 1
             /\ \A i \in DOMAIN v : i \in DOMAIN w \/ i = Len(w) + 1
             /\ DOMAIN w \subseteq Nat /\ DOMAIN v \subseteq Nat
OBVIOUS

LEMMA TailPlaces ==
  ASSUME NEW S, NEW w \in Seq(S), w # <<>>
  PROVE  LET v == Tail(w)
         IN  /\ 1 \in DOMAIN w /\ Head(w) = w[1]
             /\ \A i \in DOMAIN v : i \in Nat /\ i >= 1 /\ i + 1 \in DOMAIN w /\ v[i] = w[i + 1]
             /\ \A i \in DOMAIN w : i \in Nat /\ i >= 1
             /\ \A i \in DOMAIN w : i # 1 => i - 1 \in DOMAIN v /\ v[i - 1] = w[i]
OBVIOUS

LEMMA PrefixPlaces ==
  ASSUME NEW S, NEW w \in Seq(S), NEW n \in 0..Len(w)
  PROVE  LET v == SubSeq(w, 1, n)
         IN  /\ \A i \in DOMAIN v : i \in DOMAIN w /\ v[i] = w[i]
             /\ \A i \in DOMAIN v, j \in DOMAIN w : j < i => j \in DOMAIN v /\ v[j] = w[j]
             /\ DOMAIN w \subseteq Nat
OBVIOUS

\* What the types say of the events around.
LEMMA Facts ==
  ASSUME Base
  PROVE  /\ wire \in Seq(Event \cup {Hello}) /\ old \in Seq(Event) /\ log \in Seq(Event)
         /\ engine \in Nat /\ seq \in Nat /\ last \in Nat /\ posting \in Nat
         /\ pending \subseteq Nat \ {0} /\ todo \subseteq Nat \ {0}
         /\ pending \subseteq 1..MaxSeq /\ todo \subseteq 1..MaxSeq
         /\ \A e \in Event : e.seq \in Nat \ {0} /\ e.engine \in Nat
         /\ \A i \in DOMAIN wire : wire[i] # Hello => wire[i] \in Event
         /\ \A i \in DOMAIN old : old[i] \in Event
         /\ Range(log) \cup lost \subseteq Event
         /\ \A m : EventOf(m).seq = m /\ EventOf(m).engine = engine
         /\ Waits \subseteq pending \cup todo
<1>1. /\ wire \in Seq(Event \cup {Hello}) /\ old \in Seq(Event) /\ log \in Seq(Event)
      /\ engine \in Nat /\ seq \in Nat /\ last \in Nat /\ posting \in Nat
      /\ pending \subseteq 1..MaxSeq /\ todo \subseteq 1..MaxSeq
  BY EventConstants DEF Base, Types, ClientTypes, NetTypes, ServerTypes, Numbers
<1>2. pending \subseteq Nat \ {0} /\ todo \subseteq Nat \ {0}
  BY <1>1, EventConstants
<1>3. \A e \in Event : e.seq \in Nat \ {0} /\ e.engine \in Nat
  BY EventConstants DEF Event
<1>4. /\ \A i \in DOMAIN wire : wire[i] # Hello => wire[i] \in Event
      /\ \A i \in DOMAIN old : old[i] \in Event
  BY <1>1
<1>5. Range(log) \cup lost \subseteq Event
  BY <1>1 DEF Base, Types, ServerTypes, Range
<1>6. \A m : EventOf(m).seq = m /\ EventOf(m).engine = engine
  BY DEF EventOf
<1>7. Waits \subseteq pending \cup todo
  BY DEF Waits
<1> QED BY <1>1, <1>2, <1>3, <1>4, <1>5, <1>6, <1>7

\* Steps of the client that send nothing.
LEMMA OrderQuiet ==
  ASSUME Order,
         UNCHANGED <<engine, seq, wire, old, serving, last, log, lost, numbered, crossed, cut>>,
         pending' \cup todo' \subseteq pending \cup todo, Waits' \subseteq Waits,
         Connections', posting' \in {0, seq}, SentAll'
  PROVE  Order'
<1>1. \A e : (Accounted(e) <=> Accounted(e)') /\ (Below(e) <=> Below(e)') /\ (OldFirst(e) <=> OldFirst(e)')
  BY DEF Accounted, Below, OldFirst, Alone
<1>2. \A m : EventOf(m)' = EventOf(m)
  BY DEF EventOf
<1>3. \A i : Counted(i)' <=> Counted(i)
  BY DEF Counted
<1>4. Numbering' /\ Top'
  BY DEF Order, Numbering, Top
<1>5. WireOrder' /\ OldOrder'
  BY <1>3 DEF Order, WireOrder, OldOrder
<1>6. WaitsOrder'
  BY <1>2, <1>3 DEF Order, WaitsOrder
<1>7. PendingAfterOld' /\ PendingBelow'
  BY <1>1, <1>2 DEF Order, PendingAfterOld, PendingBelow
<1>8. WireAfterOld' /\ WireBelow' /\ OldBelow'
  BY <1>1, <1>3 DEF Order, WireAfterOld, WireBelow, OldBelow
<1>9. LossesExplained'
  BY DEF Order, LossesExplained
<1> QED BY <1>4, <1>5, <1>6, <1>7, <1>8, <1>9 DEF Order

LEMMA OrderClientQuiet ==
  ASSUME Base, Order,
         PostFails \/ HelloFails \/ ListPending \/ ResendDone \/ TrackAck \/ Notice
           \/ (SendHello /\ ~link) \/ (Resend /\ ~link) \/ (PostSend /\ ~link)
  PROVE  Order'
<1> USE DEF client, thread, net, server, history
<1>0. Connections /\ SentAll /\ posting \in {0, seq}
  BY DEF Order, Numbering
<1>1. CASE PostFails
  <2>1. Connections' /\ SentAll'
    BY <1>0, <1>1 DEF PostFails, Connections, SentAll
  <2> QED BY <1>1, <2>1, OrderQuiet DEF PostFails, Waits
<1>2. CASE HelloFails
  <2>1. Connections' /\ SentAll'
    BY <1>0, <1>2 DEF HelloFails, Connections, SentAll
  <2> QED BY <1>0, <1>2, <2>1, OrderQuiet DEF HelloFails, Waits
<1>3. CASE ListPending
  <2>1. Connections'
    BY <1>0, <1>3 DEF ListPending, Connections
  <2>2. SentAll'
    BY <1>3 DEF ListPending, SentAll, Waits, Unacked
  <2> QED BY <1>0, <1>3, <2>1, <2>2, OrderQuiet DEF ListPending, Waits, Unacked
<1>4. CASE ResendDone
  <2>1. Connections'
    BY <1>0, <1>4 DEF ResendDone, Connections
  <2>2. SentAll'
    <3>1. \A m : EventOf(m)' = EventOf(m)
      BY <1>4 DEF ResendDone, EventOf
    <3>2. \A i : Counted(i)' <=> Counted(i)
      BY <1>4 DEF ResendDone, Counted
    <3> QED BY <1>0, <1>4, <3>1, <3>2 DEF ResendDone, SentAll, Waits
  <2> QED BY <1>0, <1>4, <2>1, <2>2, OrderQuiet DEF ResendDone, Waits
<1>5. CASE TrackAck
  <2>1. Connections'
    BY <1>0, <1>5 DEF TrackAck, Connections
  <2>2. SentAll'
    <3>1. \A m : EventOf(m)' = EventOf(m)
      BY <1>5 DEF TrackAck, EventOf
    <3>2. \A i : Counted(i)' <=> Counted(i)
      BY <1>5 DEF TrackAck, Counted
    <3> QED BY <1>0, <1>5, <3>1, <3>2 DEF TrackAck, SentAll, Waits
  <2> QED BY <1>0, <1>5, <2>1, <2>2, OrderQuiet DEF TrackAck, Waits
<1>6. CASE Notice
  <2>1. Connections' /\ SentAll'
    BY <1>0, <1>6 DEF Notice, Connections, SentAll
  <2> QED BY <1>0, <1>6, <2>1, OrderQuiet DEF Notice, Waits
<1>7. CASE SendHello /\ ~link
  <2>1. Connections' /\ SentAll'
    BY <1>0, <1>7 DEF SendHello, Connections, SentAll
  \* Nothing was sent, so nothing was crossed.
  <2>2. wire = <<>>
    BY <1>0, <1>7 DEF Connections
  <2>3. \A e : (Accounted(e) <=> Accounted(e)') /\ (Below(e) <=> Below(e)') /\ (OldFirst(e) <=> OldFirst(e)')
    BY <1>7 DEF SendHello, Accounted, Below, OldFirst, Alone
  <2>4. \A m : EventOf(m)' = EventOf(m)
    BY <1>7 DEF SendHello, EventOf
  <2>5. Numbering' /\ Top' /\ OldOrder' /\ LossesExplained' /\ OldBelow'
    BY <1>7, <2>3 DEF Order, SendHello, Numbering, Top, OldOrder, LossesExplained, OldBelow
  <2>6. PendingAfterOld' /\ PendingBelow'
    BY <1>7, <2>3, <2>4 DEF Order, SendHello, PendingAfterOld, PendingBelow
  <2>7. WireOrder' /\ WaitsOrder' /\ WireAfterOld' /\ WireBelow'
    <3>1. wire' = <<>>
      BY <1>7, <2>2 DEF SendHello
    <3> QED BY <3>1 DEF WireOrder, WaitsOrder, WireAfterOld, WireBelow
  <2> QED BY <2>1, <2>5, <2>6, <2>7 DEF Order
<1>8. CASE Resend /\ ~link
  <2>1. Connections' /\ SentAll'
    BY <1>0, <1>8 DEF Resend, Connections, SentAll
  <2> QED BY <1>0, <1>8, <2>1, OrderQuiet DEF Resend, Waits
<1>9. CASE PostSend /\ ~link
  <2>1. Connections' /\ SentAll'
    BY <1>0, <1>9 DEF PostSend, Connections, SentAll
  <2> QED BY <1>0, <1>9, <2>1, OrderQuiet DEF PostSend, Waits
<1> QED BY <1>1, <1>2, <1>3, <1>4, <1>5, <1>6, <1>7, <1>8, <1>9

\* A new event has the highest number.
LEMMA OrderPostEvent ==
  ASSUME Base, Order, PostEvent
  PROVE  Order'
<1> USE DEF client, thread, net, server, history
<1>0. /\ UNCHANGED <<engine, pc, todo, link, wire, old, serving, last, log, lost, numbered,
                     crossed, cut>>
      /\ seq' = seq + 1 /\ posting = 0 /\ posting' = seq + 1
      /\ pending' \subseteq pending \cup {seq + 1}
  BY DEF PostEvent, Stored
<1>1. \A e : (Accounted(e) <=> Accounted(e)') /\ (Below(e) <=> Below(e)') /\ (OldFirst(e) <=> OldFirst(e)')
  BY <1>0 DEF Accounted, Below, OldFirst, Alone
<1>2. \A m : EventOf(m)' = EventOf(m)
  BY <1>0 DEF EventOf
<1>3. \A i : Counted(i)' <=> Counted(i)
  BY <1>0 DEF Counted
<1>4. Waits' \subseteq Waits \cup {seq + 1}
  BY <1>0 DEF Waits
<1>5. seq \in Nat /\ engine \in Nat /\ last \in Nat
  BY Facts
<1>6. Numbering'
  <2>1. \A i \in DOMAIN wire : wire[i] # Hello => wire[i].engine = engine /\ wire[i].seq <= seq + 1
    BY <1>5, Facts DEF Order, Numbering
  <2>2. \A i \in DOMAIN old :
          old[i].engine <= engine /\ (old[i].engine = engine => old[i].seq <= seq + 1)
    BY <1>5, Facts DEF Order, Numbering
  <2>3. \A e \in Range(log) \cup lost :
          e.engine <= engine /\ (e.engine = engine => e.seq <= seq + 1)
    BY <1>5, Facts DEF Order, Numbering
  <2>4. pending' \cup todo' \subseteq 1..(seq + 1)
    BY <1>0, <1>5 DEF Order, Numbering
  <2> QED BY <1>0, <2>1, <2>2, <2>3, <2>4 DEF Numbering
<1>7. Connections' /\ Top' /\ WireOrder' /\ OldOrder' /\ LossesExplained'
  BY <1>0, <1>3 DEF Order, Connections, Top, WireOrder, OldOrder, LossesExplained
<1>8. WaitsOrder'
  <2>1. \A i \in DOMAIN wire : wire[i] # Hello => ~(seq + 1 < wire[i].seq)
    BY <1>5, Facts DEF Order, Numbering
  <2> QED BY <1>0, <1>2, <1>3, <1>4, <2>1 DEF Order, WaitsOrder
<1>9. SentAll'
  <2> SUFFICES ASSUME link /\ pc \in {"resend", "read"}, NEW m \in pending' \ (Waits' \cup {posting'})
               PROVE  \/ \E i \in DOMAIN wire : Counted(i) /\ wire[i] = EventOf(m)
                      \/ serving /\ EventOf(m) \in Range(log) \cup lost
    BY <1>0, <1>2, <1>3 DEF SentAll
  <2>1. m \in pending /\ m # 0
    BY <1>0, Facts
  <2>2. m \notin Waits
    BY <1>0 DEF Waits
  <2> QED BY <1>0, <2>1, <2>2 DEF Order, SentAll
<1>10. OldFirst(EventOf(seq + 1)) /\ Below(EventOf(seq + 1))
  <2>1. OldFirst(EventOf(seq + 1))
    BY <1>5, Facts DEF Order, Numbering, OldFirst
  <2>2. ASSUME Alone(EventOf(seq + 1)) PROVE ~(seq + 1 < last)
    <3>1. CASE last = 0
      BY <1>5, <3>1
    <3>2. CASE last # 0
      <4>1. PICK e \in Range(log) \cup lost : e.engine = engine /\ e.seq = last
        BY <2>2, <3>2, Facts DEF Order, Top, Alone
      <4>2. last <= seq
        BY <4>1 DEF Order, Numbering
      <4> QED BY <1>5, <4>2
    <3> QED BY <3>1, <3>2
  <2>3. Below(EventOf(seq + 1))
    BY <2>2, Facts DEF Below
  <2> QED BY <2>1, <2>3
<1>11. PendingAfterOld' /\ PendingBelow'
  BY <1>0, <1>1, <1>2, <1>10 DEF Order, PendingAfterOld, PendingBelow
<1>12. WireAfterOld' /\ WireBelow' /\ OldBelow'
  BY <1>0, <1>1, <1>3 DEF Order, WireAfterOld, WireBelow, OldBelow
<1> QED BY <1>6, <1>7, <1>8, <1>9, <1>11, <1>12 DEF Order

\* A connection that opens carries nothing yet.
LEMMA OrderOpen ==
  ASSUME Base, Order, Open
  PROVE  Order'
<1> USE DEF client, thread, net, server, history
<1>0. /\ UNCHANGED <<engine, seq, pending, posting, todo, old, last, log, lost, numbered, crossed, cut>>
      /\ pc' = "open" /\ wire' = <<>> /\ ~serving /\ ~serving' /\ todo = {}
  BY DEF Open, Order, Connections
<1>1. \A e : (Accounted(e) <=> Accounted(e)') /\ (Below(e) <=> Below(e)') /\ (OldFirst(e) <=> OldFirst(e)')
  BY <1>0 DEF Accounted, Below, OldFirst, Alone
<1>2. \A m : EventOf(m)' = EventOf(m)
  BY <1>0 DEF EventOf
<1>3. Numbering' /\ Top' /\ OldOrder' /\ LossesExplained'
  BY <1>0 DEF Order, Numbering, Top, OldOrder, LossesExplained
<1>4. Connections' /\ SentAll' /\ WireOrder' /\ WaitsOrder' /\ WireAfterOld' /\ WireBelow'
  <2>1. link'
    BY DEF Open
  <2> QED BY <1>0, <2>1 DEF Connections, SentAll, WireOrder, WaitsOrder, WireAfterOld, WireBelow
<1>5. PendingAfterOld' /\ PendingBelow'
  BY <1>0, <1>1, <1>2 DEF Order, PendingAfterOld, PendingBelow
<1>6. OldBelow'
  BY <1>0, <1>1 DEF Order, OldBelow
<1> QED BY <1>3, <1>4, <1>5, <1>6 DEF Order

\* The HELLO: what was sent before it does not count.
LEMMA OrderSendHello ==
  ASSUME Base, Order, SendHello, link
  PROVE  Order'
<1> USE DEF client, thread, net, server, history
<1>0. /\ UNCHANGED <<engine, seq, pending, posting, todo, link, old, serving, last, log, lost,
                     numbered, crossed, cut>>
      /\ pc = "open" /\ pc' = "greeted" /\ wire' = Append(wire, Hello)
  BY DEF SendHello
<1>1. \A e : (Accounted(e) <=> Accounted(e)') /\ (Below(e) <=> Below(e)') /\ (OldFirst(e) <=> OldFirst(e)')
  BY <1>0 DEF Accounted, Below, OldFirst, Alone
<1>2. \A m : EventOf(m)' = EventOf(m)
  BY <1>0 DEF EventOf
<1>p. /\ Len(wire) + 1 \in DOMAIN wire' /\ wire'[Len(wire) + 1] = Hello
      /\ \A i \in DOMAIN wire : i \in DOMAIN wire' /\ wire'[i] = wire[i] /\ i < Len(wire) + 1
      /\ \A i \in DOMAIN wire' : i \in DOMAIN wire \/ i = Len(wire) + 1
      /\ DOMAIN wire \subseteq Nat /\ DOMAIN wire' \subseteq Nat
  BY <1>0, Facts, AppendPlaces
<1>3. /\ ~serving /\ \A i \in DOMAIN wire : wire[i] # Hello
  BY <1>0 DEF Base, OneHello
<1>4. \A i \in DOMAIN wire' : Counted(i)' => FALSE
  <2> SUFFICES ASSUME NEW i \in DOMAIN wire', NEW h \in DOMAIN wire', h < i, wire'[h] = Hello
               PROVE  FALSE
    BY <1>0, <1>3 DEF Counted
  <2>1. h = Len(wire) + 1
    BY <1>p, <1>3
  <2>2. i < h \/ i = h
    BY <1>p, <2>1
  <2> QED BY <1>p, <2>2
<1>5. Numbering'
  BY <1>0, <1>p DEF Order, Numbering
<1>6. Connections'
  <2>1. link' /\ pc' = "greeted" /\ todo' = {} /\ \E h \in DOMAIN wire' : wire'[h] = Hello
    BY <1>0, <1>p DEF Order, Connections
  <2> QED BY <2>1 DEF Connections
<1>7. Top' /\ OldOrder' /\ LossesExplained'
  BY <1>0 DEF Order, Top, OldOrder, LossesExplained
<1>8. WireOrder' /\ WaitsOrder' /\ WireBelow' /\ SentAll'
  BY <1>0, <1>4 DEF WireOrder, WaitsOrder, WireBelow, SentAll
<1>9. WireAfterOld'
  BY <1>0, <1>1, <1>p DEF Order, WireAfterOld
<1>10. PendingAfterOld' /\ PendingBelow'
  BY <1>0, <1>1, <1>2 DEF Order, PendingAfterOld, PendingBelow
<1>11. OldBelow'
  BY <1>0, <1>1 DEF Order, OldBelow
<1> QED BY <1>5, <1>6, <1>7, <1>8, <1>9, <1>10, <1>11 DEF Order

\* An event goes out on a connection that works: everything it overtakes is
\* marked, and nothing sent before has a later number.
LEMMA OrderSend ==
  ASSUME Base, Order, link, NEW n \in 1..seq,
         wire' = Append(wire, EventOf(n)),
         UNCHANGED <<engine, seq, pending, pc, link, old, serving, last, log, lost, numbered, cut>>,
         todo' \subseteq todo, pc # "resend" => todo' = todo,
         pc = "resend" => \A m \in todo \ todo' : m = n,
         posting' \in {0, seq}, posting' # posting => n = posting,
         crossed \subseteq crossed',
         \A i \in DOMAIN wire :
           Counted(i) /\ wire[i] # Hello /\ n < wire[i].seq => EventOf(n) \in crossed',
         \A m \in Waits' : m < n => EventOf(m) \in crossed',
         OldFirst(EventOf(n)), Below(EventOf(n))
  PROVE  Order'
<1> DEFINE e == EventOf(n)
           k == Len(wire) + 1
<1>0. /\ seq \in Nat /\ n \in Nat /\ e.seq = n /\ e.engine = engine
  BY Facts
<1>1. e # Hello
  BY <1>0 DEF Hello
<1>p. /\ k \in DOMAIN wire' /\ wire'[k] = e
      /\ \A i \in DOMAIN wire : i \in DOMAIN wire' /\ wire'[i] = wire[i] /\ i < k
      /\ \A i \in DOMAIN wire' : i \in DOMAIN wire \/ i = k
      /\ DOMAIN wire \subseteq Nat /\ DOMAIN wire' \subseteq Nat
  BY Facts, AppendPlaces
<1> HIDE DEF e, k
<1>2. \A f : /\ Accounted(f) => Accounted(f)'
             /\ Below(f) => Below(f)'
             /\ OldFirst(f) => OldFirst(f)'
  BY DEF Accounted, Below, OldFirst, Alone
<1>3. \A m : EventOf(m)' = EventOf(m)
  BY DEF EventOf
<1>4. \A i \in DOMAIN wire : Counted(i)' <=> Counted(i)
  <2> SUFFICES ASSUME NEW i \in DOMAIN wire
               PROVE  (\E h \in DOMAIN wire' : h < i /\ wire'[h] = Hello)
                        <=> \E h \in DOMAIN wire : h < i /\ wire[h] = Hello
    BY DEF Counted
  <2> QED BY <1>1, <1>p
<1>5. Numbering'
  <2>1. \A i \in DOMAIN wire' : wire'[i] # Hello => wire'[i].engine = engine /\ wire'[i].seq <= seq
    BY <1>0, <1>p DEF Order, Numbering
  <2>2. pending' \cup todo' \subseteq 1..seq
    BY DEF Order, Numbering
  <2> QED BY <2>1, <2>2 DEF Order, Numbering
<1>6. Connections'
  <2>1. serving \/ (\E h \in DOMAIN wire : wire[h] = Hello)
          => serving' \/ (\E h \in DOMAIN wire' : wire'[h] = Hello)
    BY <1>p
  <2>2. pc # "resend" => todo' = {}
    BY DEF Order, Connections
  <2> QED BY <2>1, <2>2 DEF Order, Connections
<1>7. Top' /\ OldOrder' /\ LossesExplained'
  BY DEF Order, Top, OldOrder, LossesExplained
<1>8. WireOrder'
  <2> SUFFICES ASSUME NEW i \in DOMAIN wire', NEW j \in DOMAIN wire', i < j, Counted(i)',
                      wire'[i] # Hello, wire'[j] # Hello, wire'[j].seq < wire'[i].seq
               PROVE  wire'[j] \in crossed'
    BY DEF WireOrder
  <2>1. i \in DOMAIN wire
    BY <1>p
  <2>2. CASE j \in DOMAIN wire
    BY <1>4, <1>p, <2>1, <2>2 DEF Order, WireOrder
  <2>3. CASE j = k
    <3>1. Counted(i) /\ wire[i] # Hello /\ n < wire[i].seq
      BY <1>0, <1>4, <1>p, <2>1, <2>3
    <3> QED BY <1>p, <2>1, <2>3, <3>1 DEF e
  <2> QED BY <1>p, <2>2, <2>3
<1>9. Waits' \subseteq Waits
  BY DEF Waits
<1>10. WaitsOrder'
  <2> SUFFICES ASSUME NEW m \in Waits', NEW i \in DOMAIN wire', Counted(i)', wire'[i] # Hello,
                      m < wire'[i].seq
               PROVE  EventOf(m) \in crossed'
    BY <1>3 DEF WaitsOrder
  <2>1. CASE i \in DOMAIN wire
    BY <1>4, <1>9, <1>p, <2>1 DEF Order, WaitsOrder
  <2>2. CASE i = k
    BY <1>0, <1>p, <2>2
  <2> QED BY <1>p, <2>1, <2>2
<1>11. SentAll'
  <2> SUFFICES ASSUME pc \in {"resend", "read"}, NEW m \in pending \ (Waits' \cup {posting'})
               PROVE  \/ \E i \in DOMAIN wire' : Counted(i)' /\ wire'[i] = EventOf(m)
                      \/ serving /\ EventOf(m) \in Range(log) \cup lost
    BY <1>3 DEF SentAll
  <2>1. CASE m = n
    <3>1. serving \/ \E h \in DOMAIN wire : wire[h] = Hello
      BY DEF Order, Connections
    <3>2. \A i : i = k => Counted(i)'
      BY <1>p, <3>1 DEF Counted
    <3> QED BY <1>p, <2>1, <3>2 DEF e
  <2>2. CASE m # n
    <3>1. m \notin Waits \cup {posting}
      BY <2>2 DEF Waits
    <3>2. \/ \E i \in DOMAIN wire : Counted(i) /\ wire[i] = EventOf(m)
          \/ serving /\ EventOf(m) \in Range(log) \cup lost
      BY <3>1 DEF Order, SentAll
    <3> QED BY <1>4, <1>p, <3>2
  <2> QED BY <2>1, <2>2
<1>12. PendingAfterOld' /\ PendingBelow'
  BY <1>2, <1>3 DEF Order, PendingAfterOld, PendingBelow
<1>13. WireAfterOld'
  <2>1. \A f : (\E i \in DOMAIN wire' : wire'[i] = f /\ f # Hello) => OldFirst(f)
    <3> SUFFICES ASSUME NEW i \in DOMAIN wire', wire'[i] # Hello PROVE OldFirst(wire'[i])
      OBVIOUS
    <3>1. CASE i \in DOMAIN wire
      <4>1. wire'[i] = wire[i] /\ OldFirst(wire[i])
        BY <1>p, <3>1 DEF Order, WireAfterOld
      <4> QED BY <4>1
    <3>2. CASE i = k
      BY <1>p, <3>2 DEF e
    <3> QED BY <1>p, <3>1, <3>2
  <2>2. \A f : (\E i \in DOMAIN wire' : wire'[i] = f /\ f # Hello) => OldFirst(f)'
    BY <1>2, <2>1
  <2> QED BY <2>2 DEF WireAfterOld
<1>14. WireBelow'
  <2>1. \A f : (\E i \in DOMAIN wire' : Counted(i)' /\ wire'[i] = f /\ f # Hello) => Below(f)
    <3> SUFFICES ASSUME NEW i \in DOMAIN wire', Counted(i)', wire'[i] # Hello PROVE Below(wire'[i])
      OBVIOUS
    <3>1. CASE i \in DOMAIN wire
      <4>1. wire'[i] = wire[i] /\ Below(wire[i])
        BY <1>4, <1>p, <3>1 DEF Order, WireBelow
      <4> QED BY <4>1
    <3>2. CASE i = k
      BY <1>p, <3>2 DEF e
    <3> QED BY <1>p, <3>1, <3>2
  <2>2. \A f : (\E i \in DOMAIN wire' : Counted(i)' /\ wire'[i] = f /\ f # Hello) => Below(f)'
    BY <1>2, <2>1
  <2> QED BY <2>2 DEF WireBelow
<1>15. OldBelow'
  BY <1>2 DEF Order, OldBelow
<1> QED BY <1>5, <1>6, <1>7, <1>8, <1>10, <1>11, <1>12, <1>13, <1>14, <1>15 DEF Order

\* No number of the engine that alone numbers the record is above its own.
LEMMA NoneAbove ==
  ASSUME Base, Order, numbered \subseteq {engine}
  PROVE  last <= seq
<1>1. last \in Nat /\ seq \in Nat
  BY Facts
<1>2. CASE last = 0
  BY <1>1, <1>2
<1>3. CASE last # 0
  <2>1. PICK e \in Range(log) \cup lost : e.engine = engine /\ e.seq = last
    BY <1>3 DEF Order, Top
  <2> QED BY <2>1 DEF Order, Numbering
<1> QED BY <1>2, <1>3

LEMMA OrderPostSend ==
  ASSUME Base, Order, PostSend, link
  PROVE  Order'
<1> USE DEF client, thread, net, server, history
<1>0. /\ UNCHANGED <<engine, seq, pending, pc, todo, link, old, serving, last, log, lost, numbered, cut>>
      /\ wire' = Append(wire, EventOf(posting)) /\ crossed' = crossed \cup Overtaken(posting)
      /\ posting' = 0 /\ posting # 0
  BY DEF PostSend
<1>1. posting = seq /\ seq \in Nat /\ posting \in 1..seq
  BY <1>0, Facts DEF Order, Numbering
<1>2. \A i \in DOMAIN wire : wire[i] # Hello => ~(posting < wire[i].seq)
  BY <1>1, Facts DEF Order, Numbering
<1>3. \A m \in Waits' : m < posting => EventOf(m) \in crossed'
  BY <1>0 DEF Waits, Overtaken
<1>4. OldFirst(EventOf(posting))
  BY <1>1, Facts DEF Order, Numbering, OldFirst
<1>5. Below(EventOf(posting))
  BY <1>1, NoneAbove, Facts DEF Below, Alone
<1>6. crossed \subseteq crossed'
  BY <1>0
<1> QED BY <1>0, <1>1, <1>2, <1>3, <1>4, <1>5, <1>6, OrderSend

LEMMA OrderResend ==
  ASSUME Base, Order, Resend, link
  PROVE  Order'
<1> USE DEF client, thread, net, server, history
<1> DEFINE n == Min(todo)
<1>0. /\ UNCHANGED <<engine, seq, pending, posting, pc, link, old, serving, last, log, lost, numbered,
                     crossed, cut>>
      /\ pc = "resend" /\ todo' = todo \ {n} /\ wire' = Append(wire, EventOf(n))
  BY DEF Resend
<1>1. n \in todo /\ \A m \in todo : n <= m
  <2>1. todo \in SUBSET Nat /\ todo # {}
    BY Facts DEF Resend
  <2> QED BY <2>1, MinOf
<1> HIDE DEF n
<1>2. n \in 1..seq /\ n \in Nat
  BY <1>1, Facts DEF Order, Numbering
<1>3. \A i \in DOMAIN wire :
        Counted(i) /\ wire[i] # Hello /\ n < wire[i].seq => EventOf(n) \in crossed'
  BY <1>0, <1>1 DEF Order, WaitsOrder, Waits
<1>4. \A m \in Waits' : ~(m < n)
  BY <1>0, <1>1, <1>2, Facts DEF Waits
<1>5. OldFirst(EventOf(n)) /\ Below(EventOf(n))
  BY <1>1 DEF Order, PendingAfterOld, PendingBelow
<1>6. posting' \in {0, seq}
  BY <1>0 DEF Order, Numbering
<1> QED BY <1>0, <1>2, <1>3, <1>4, <1>5, <1>6, OrderSend

\* A new engine has sent nothing; what its predecessor sent is left behind.
LEMMA OrderRestart ==
  ASSUME Base, Order, Restart
  PROVE  Order'
<1> USE DEF client, thread, net, server, history
<1>0. /\ UNCHANGED <<posting, last, log, lost, numbered, crossed, cut>>
      /\ engine' = engine + 1 /\ seq' = 0 /\ pending' = {} /\ todo' = {} /\ posting = 0 /\ pc' = "wait"
      /\ ~link' /\ wire' = <<>> /\ ~serving' /\ old' = IF serving THEN wire ELSE old
  BY DEF Restart
<1>1. engine \in Nat
  BY Facts
<1>2. \A j \in DOMAIN old' : old'[j] \in Event /\ old'[j].engine <= engine
  <2>1. CASE serving
    <3>1. old' = wire /\ \A j \in DOMAIN wire : wire[j] # Hello
      BY <1>0, <2>1 DEF Base, OneHello
    <3> QED BY <1>1, <3>1, Facts DEF Order, Numbering
  <2>2. CASE ~serving
    BY <1>0, <2>2, Facts DEF Order, Numbering
  <2> QED BY <2>1, <2>2
<1>3. Numbering'
  <2>1. \A j \in DOMAIN old' :
          old'[j].engine <= engine' /\ (old'[j].engine = engine' => old'[j].seq <= seq')
    BY <1>0, <1>1, <1>2, Facts
  <2>2. \A e \in Range(log) \cup lost :
          e.engine <= engine' /\ (e.engine = engine' => e.seq <= seq')
    <3> SUFFICES ASSUME NEW e \in Range(log) \cup lost
                 PROVE  e.engine <= engine' /\ e.engine # engine'
      OBVIOUS
    <3>1. e.engine \in Nat /\ e.engine <= engine
      BY Facts DEF Order, Numbering
    <3> QED BY <1>0, <1>1, <3>1
  <2>3. posting' \in {0, seq'} /\ pending' \cup todo' \subseteq 1..seq'
    BY <1>0
  <2>4. \A i \in DOMAIN wire' : wire'[i] # Hello => wire'[i].engine = engine' /\ wire'[i].seq <= seq'
    BY <1>0
  <2> QED BY <1>0, <2>1, <2>2, <2>3, <2>4 DEF Numbering
<1>4. Connections' /\ SentAll' /\ WireOrder' /\ WaitsOrder' /\ WireAfterOld' /\ WireBelow'
      /\ PendingAfterOld' /\ PendingBelow'
  BY <1>0 DEF Connections, SentAll, WireOrder, WaitsOrder, Waits, WireAfterOld, WireBelow,
              PendingAfterOld, PendingBelow
<1>5. Top' /\ LossesExplained'
  BY <1>0 DEF Order, Top, LossesExplained
<1>6. OldOrder'
  <2>1. CASE serving
    <3>1. old' = wire /\ \A j \in DOMAIN wire : wire[j] # Hello /\ Counted(j)
      BY <1>0, <2>1 DEF Base, OneHello, Counted
    <3> QED BY <1>0, <3>1 DEF Order, WireOrder, OldOrder
  <2>2. CASE ~serving
    BY <1>0, <2>2 DEF Order, OldOrder
  <2> QED BY <2>1, <2>2
<1>7. OldBelow'
  <2>1. \A f : (\E j \in DOMAIN old' : old'[j] = f) => Below(f)
    <3>1. CASE serving
      <4>1. old' = wire /\ \A j \in DOMAIN wire : wire[j] # Hello /\ Counted(j)
        BY <1>0, <3>1 DEF Base, OneHello, Counted
      <4> QED BY <4>1 DEF Order, WireBelow
    <3>2. CASE ~serving
      BY <1>0, <3>2 DEF Order, OldBelow
    <3> QED BY <3>1, <3>2
  <2>2. \A f : Below(f) => Below(f)'
    BY <1>0 DEF Below, Alone, Accounted
  <2>3. \A f : (\E j \in DOMAIN old' : old'[j] = f) => Below(f)'
    BY <2>1, <2>2
  <2> QED BY <2>3 DEF OldBelow
<1> QED BY <1>3, <1>4, <1>5, <1>6, <1>7 DEF Order

\* The server may still read a prefix of what a broken connection carried.
LEMMA OrderBreak ==
  ASSUME Base, Order, Break
  PROVE  Order'
<1> USE DEF client, thread, net, server, history
<1>0. /\ UNCHANGED <<engine, seq, pending, posting, pc, todo, last, log, lost, numbered, crossed, cut>>
      /\ link /\ ~link' /\ wire' = <<>> /\ ~serving'
  BY DEF Break
<1>n. PICK n \in 0..Len(wire) : old' = IF serving THEN SubSeq(wire, 1, n) ELSE old
  BY DEF Break
<1>1. \A m : EventOf(m)' = EventOf(m)
  BY <1>0 DEF EventOf
<1>2. \A f : (Accounted(f) <=> Accounted(f)') /\ (Below(f) <=> Below(f)')
  BY <1>0 DEF Accounted, Below, Alone
<1>3. Connections'
  BY <1>0 DEF Order, Connections
<1>4. SentAll' /\ WireOrder' /\ WaitsOrder' /\ WireAfterOld' /\ WireBelow'
  BY <1>0 DEF SentAll, WireOrder, WaitsOrder, WireAfterOld, WireBelow
<1>5. Top' /\ LossesExplained'
  BY <1>0 DEF Order, Top, LossesExplained
<1>6. PendingBelow'
  BY <1>0, <1>1, <1>2 DEF Order, PendingBelow
<1>7. CASE ~serving
  <2>0. old' = old
    BY <1>7, <1>n
  <2>1. Numbering' /\ OldOrder'
    BY <1>0, <2>0 DEF Order, Numbering, OldOrder
  <2>2. OldBelow'
    BY <1>2, <1>7, <2>0 DEF Order, OldBelow
  <2>3. PendingAfterOld'
    <3>1. \A f : OldFirst(f) => OldFirst(f)'
      BY <1>0, <2>0 DEF OldFirst, Accounted
    <3> QED BY <1>0, <1>1, <3>1 DEF Order, PendingAfterOld
  <2> QED BY <1>3, <1>4, <1>5, <1>6, <2>1, <2>2, <2>3 DEF Order
<1>8. CASE serving
  <2>p. /\ \A i \in DOMAIN old' : i \in DOMAIN wire /\ old'[i] = wire[i]
        /\ \A i \in DOMAIN old', j \in DOMAIN wire : j < i => j \in DOMAIN old' /\ old'[j] = wire[j]
        /\ DOMAIN wire \subseteq Nat
    <3>1. wire \in Seq(Event \cup {Hello}) /\ old' = SubSeq(wire, 1, n)
      BY <1>8, <1>n, Facts
    <3> QED BY <3>1, PrefixPlaces
  <2>0. \A i \in DOMAIN wire : wire[i] # Hello /\ Counted(i) /\ wire[i] \in Event
    BY <1>8, Facts DEF Base, OneHello, Counted
  <2>1. Numbering'
    <3>1. \A j \in DOMAIN old' :
            old'[j].engine <= engine /\ (old'[j].engine = engine => old'[j].seq <= seq)
      BY <2>0, <2>p, Facts DEF Order, Numbering
    <3> QED BY <1>0, <3>1 DEF Order, Numbering
  <2>2. OldOrder'
    BY <1>0, <2>0, <2>p DEF Order, WireOrder, OldOrder
  <2>3. OldBelow'
    <3>1. \A f : (\E j \in DOMAIN old' : old'[j] = f) => Below(f)
      BY <2>0, <2>p DEF Order, WireBelow
    <3>2. \A f : (\E j \in DOMAIN old' : old'[j] = f) => Below(f)'
      BY <1>2, <3>1
    <3> QED BY <3>2 DEF OldBelow
  <2>4. PendingAfterOld'
    <3> SUFFICES ASSUME NEW m \in pending \cup todo, NEW j \in DOMAIN old', m < old'[j].seq
                 PROVE  \/ Accounted(EventOf(m))
                        \/ \E i \in DOMAIN old' : i < j /\ old'[i] = EventOf(m)
      BY <1>0, <1>1, <1>2, Facts DEF PendingAfterOld, OldFirst
    <3>0. j \in DOMAIN wire /\ old'[j] = wire[j] /\ wire[j].seq <= seq /\ m < wire[j].seq
      BY <2>0, <2>p DEF Order, Numbering
    <3>1. CASE m \in Waits
      BY <2>0, <3>0, <3>1 DEF Order, WaitsOrder, Accounted
    <3>2. CASE m \notin Waits
      <4>1. pc \in {"resend", "read"} /\ m \in pending
        <5>1. pc \in {"wait", "open", "greeted", "resend", "read", "dead"}
          BY DEF Base, Types, ClientTypes
        <5>2. pc \notin {"wait", "dead", "open"} /\ (pc # "resend" => todo = {})
          BY <1>0, <1>8 DEF Order, Connections, Base, OneHello
        <5>3. pc # "greeted"
          <6> SUFFICES ASSUME pc = "greeted" PROVE FALSE
            OBVIOUS
          <6>1. Waits = pending /\ todo = {}
            BY <5>2 DEF Waits
          <6> QED BY <3>2, <6>1
        <5>4. pc = "resend" => Waits = todo
          BY DEF Waits
        <5> QED BY <3>2, <5>1, <5>2, <5>3, <5>4
      <4>2. m # posting
        <5>1. wire[j].seq \in Nat /\ seq \in Nat /\ m \in Nat \ {0}
          BY <2>0, <3>0, Facts
        <5>2. m < seq
          BY <3>0, <5>1
        <5> QED BY <5>1, <5>2 DEF Order, Numbering
      <4>3. CASE EventOf(m) \in Range(log) \cup lost
        BY <4>3 DEF Accounted
      <4>4. CASE \E i \in DOMAIN wire : Counted(i) /\ wire[i] = EventOf(m)
        <5>1. PICK i \in DOMAIN wire : wire[i] = EventOf(m)
          BY <4>4
        <5>2. CASE i < j
          BY <2>p, <3>0, <5>1, <5>2
        <5>3. CASE j < i
          <6>1. wire[i].seq = m
            BY <5>1, Facts
          <6> QED BY <2>0, <3>0, <5>1, <5>3, <6>1 DEF Order, WireOrder, Accounted
        <5>4. i # j
          BY <3>0, <5>1, Facts
        <5> QED BY <2>p, <3>0, <5>2, <5>3, <5>4
      <4> QED BY <1>0, <3>2, <4>1, <4>2, <4>3, <4>4 DEF Order, SentAll
    <3> QED BY <3>1, <3>2
  <2> QED BY <1>3, <1>4, <1>5, <1>6, <2>1, <2>2, <2>3, <2>4 DEF Order
<1> QED BY <1>7, <1>8

\* The HELLO is handled: what follows it counts as before.
LEMMA OrderServeHello ==
  ASSUME Base, Order, ServeHello
  PROVE  Order'
<1> USE DEF client, thread, net, server, history
<1>0. /\ UNCHANGED <<engine, seq, pending, posting, pc, todo, link, old, last, log, lost, numbered,
                     crossed, cut>>
      /\ ~serving /\ serving' /\ wire # <<>> /\ Head(wire) = Hello /\ wire' = Tail(wire)
  BY DEF ServeHello
<1>p. /\ 1 \in DOMAIN wire /\ wire[1] = Hello
      /\ \A i \in DOMAIN wire' : i \in Nat /\ i >= 1 /\ i + 1 \in DOMAIN wire /\ wire'[i] = wire[i + 1]
      /\ \A i \in DOMAIN wire : i \in Nat /\ i >= 1
      /\ \A i \in DOMAIN wire : i # 1 => i - 1 \in DOMAIN wire' /\ wire'[i - 1] = wire[i]
  BY <1>0, Facts, TailPlaces
<1>1. \A m : EventOf(m)' = EventOf(m)
  BY <1>0 DEF EventOf
<1>2. \A f : /\ Accounted(f) <=> Accounted(f)'
             /\ Below(f) <=> Below(f)'
             /\ OldFirst(f) <=> OldFirst(f)'
  BY <1>0 DEF Accounted, Below, OldFirst, Alone
<1>3. \A i \in DOMAIN wire' : Counted(i + 1) /\ wire'[i] = wire[i + 1] /\ i + 1 \in DOMAIN wire
  BY <1>p DEF Counted
<1>4. link
  BY <1>0 DEF Order, Connections
<1>5. Connections'
  BY <1>0, <1>4 DEF Order, Connections
<1>6. Numbering'
  BY <1>0, <1>3 DEF Order, Numbering
<1>7. Top' /\ OldOrder' /\ LossesExplained' /\ OldBelow'
  BY <1>0 DEF Order, Top, OldOrder, LossesExplained, OldBelow
<1>8. WireOrder'
  <2> SUFFICES ASSUME NEW i \in DOMAIN wire', NEW j \in DOMAIN wire', i < j,
                      wire'[i] # Hello, wire'[j] # Hello, wire'[j].seq < wire'[i].seq
               PROVE  wire'[j] \in crossed
    BY <1>0 DEF WireOrder
  <2>1. i + 1 < j + 1
    BY <1>p
  <2> QED BY <1>3, <2>1 DEF Order, WireOrder
<1>9. Waits' = Waits
  BY <1>0 DEF Waits
<1>10. WaitsOrder'
  BY <1>0, <1>1, <1>3, <1>9 DEF Order, WaitsOrder
<1>11. SentAll'
  <2> SUFFICES ASSUME pc \in {"resend", "read"}, NEW m \in pending \ (Waits \cup {posting})
               PROVE  \E i \in DOMAIN wire' : Counted(i)' /\ wire'[i] = EventOf(m)
    BY <1>0, <1>1, <1>9 DEF SentAll
  <2>1. PICK i \in DOMAIN wire : wire[i] = EventOf(m)
    BY <1>0, <1>4 DEF Order, SentAll
  <2>2. EventOf(m) # Hello
    BY Facts DEF Hello
  <2>3. i - 1 \in DOMAIN wire' /\ wire'[i - 1] = EventOf(m)
    BY <1>p, <2>1, <2>2
  <2>4. \A h : Counted(h)'
    BY <1>0 DEF Counted
  <2> QED BY <2>3, <2>4
<1>12. PendingAfterOld' /\ PendingBelow'
  BY <1>0, <1>1, <1>2 DEF Order, PendingAfterOld, PendingBelow
<1>13. WireAfterOld'
  <2>1. \A f : (\E i \in DOMAIN wire' : wire'[i] = f /\ f # Hello) => OldFirst(f)'
    BY <1>2, <1>3 DEF Order, WireAfterOld
  <2> QED BY <2>1 DEF WireAfterOld
<1>14. WireBelow'
  <2>1. \A f : (\E i \in DOMAIN wire' : wire'[i] = f /\ f # Hello) => Below(f)'
    BY <1>2, <1>3 DEF Order, WireBelow
  <2> QED BY <2>1 DEF WireBelow
<1> QED BY <1>5, <1>6, <1>7, <1>8, <1>10, <1>11, <1>12, <1>13, <1>14 DEF Order

\* A refused event did not count.
LEMMA OrderRefuse ==
  ASSUME Base, Order, RefuseEvent
  PROVE  Order'
<1> USE DEF client, thread, net, server, history
<1>0. /\ UNCHANGED <<engine, seq, pending, posting, pc, todo, link, old, serving, last, log, lost,
                     numbered, crossed, cut>>
      /\ ~serving /\ wire # <<>> /\ Head(wire) # Hello /\ wire' = Tail(wire)
  BY DEF RefuseEvent
<1>p. /\ 1 \in DOMAIN wire /\ wire[1] # Hello
      /\ \A i \in DOMAIN wire' : i \in Nat /\ i >= 1 /\ i + 1 \in DOMAIN wire /\ wire'[i] = wire[i + 1]
      /\ \A i \in DOMAIN wire : i \in Nat /\ i >= 1
      /\ \A i \in DOMAIN wire : i # 1 => i - 1 \in DOMAIN wire' /\ wire'[i - 1] = wire[i]
  BY <1>0, Facts, TailPlaces
<1>1. \A m : EventOf(m)' = EventOf(m)
  BY <1>0 DEF EventOf
<1>2. \A f : /\ Accounted(f) <=> Accounted(f)'
             /\ Below(f) <=> Below(f)'
             /\ OldFirst(f) <=> OldFirst(f)'
  BY <1>0 DEF Accounted, Below, OldFirst, Alone
<1>3. \A i \in DOMAIN wire' :
        i + 1 \in DOMAIN wire /\ wire'[i] = wire[i + 1] /\ (Counted(i)' => Counted(i + 1))
  <2> SUFFICES ASSUME NEW i \in DOMAIN wire', NEW h \in DOMAIN wire', h < i, wire'[h] = Hello
               PROVE  h + 1 \in DOMAIN wire /\ h + 1 < i + 1 /\ wire[h + 1] = Hello
    BY <1>0, <1>p DEF Counted
  <2> QED BY <1>p
<1>4. Connections'
  <2>1. (\E h \in DOMAIN wire : wire[h] = Hello) => \E h \in DOMAIN wire' : wire'[h] = Hello
    BY <1>p
  <2>2. link
    BY <1>0 DEF Order, Connections
  <2> QED BY <1>0, <2>1, <2>2 DEF Order, Connections
<1>5. Numbering'
  BY <1>0, <1>3 DEF Order, Numbering
<1>6. Top' /\ OldOrder' /\ LossesExplained'
  BY <1>0 DEF Order, Top, OldOrder, LossesExplained
<1>7. OldBelow'
  BY <1>0, <1>2 DEF Order, OldBelow
<1>8. WireOrder'
  <2> SUFFICES ASSUME NEW i \in DOMAIN wire', NEW j \in DOMAIN wire', i < j, Counted(i)',
                      wire'[i] # Hello, wire'[j] # Hello, wire'[j].seq < wire'[i].seq
               PROVE  wire'[j] \in crossed
    BY <1>0 DEF WireOrder
  <2>1. i + 1 < j + 1
    BY <1>p
  <2> QED BY <1>3, <2>1 DEF Order, WireOrder
<1>9. Waits' = Waits
  BY <1>0 DEF Waits
<1>10. WaitsOrder'
  BY <1>0, <1>1, <1>3, <1>9 DEF Order, WaitsOrder
<1>11. SentAll'
  <2> SUFFICES ASSUME link, pc \in {"resend", "read"}, NEW m \in pending \ (Waits \cup {posting})
               PROVE  \E i \in DOMAIN wire' : Counted(i)' /\ wire'[i] = EventOf(m)
    BY <1>0, <1>1, <1>9 DEF SentAll
  <2>1. PICK i \in DOMAIN wire : Counted(i) /\ wire[i] = EventOf(m)
    BY <1>0 DEF Order, SentAll
  <2>2. PICK h \in DOMAIN wire : h < i /\ wire[h] = Hello
    BY <1>0, <2>1 DEF Counted
  <2>3. h - 1 \in DOMAIN wire' /\ wire'[h - 1] = Hello /\ h - 1 < i - 1
    BY <1>p, <2>2
  <2>4. i - 1 \in DOMAIN wire' /\ wire'[i - 1] = EventOf(m)
    BY <1>p, <2>1, <2>2
  <2>5. \A g : g = i - 1 => Counted(g)'
    BY <2>3 DEF Counted
  <2> QED BY <2>4, <2>5
<1>12. PendingAfterOld' /\ PendingBelow'
  BY <1>0, <1>1, <1>2 DEF Order, PendingAfterOld, PendingBelow
<1>13. WireAfterOld'
  <2>1. \A f : (\E i \in DOMAIN wire' : wire'[i] = f /\ f # Hello) => OldFirst(f)'
    BY <1>2, <1>3 DEF Order, WireAfterOld
  <2> QED BY <2>1 DEF WireAfterOld
<1>14. WireBelow'
  <2>1. \A f : (\E i \in DOMAIN wire' : Counted(i)' /\ wire'[i] = f /\ f # Hello) => Below(f)'
    BY <1>2, <1>3 DEF Order, WireBelow
  <2> QED BY <2>1 DEF WireBelow
<1> QED BY <1>4, <1>5, <1>6, <1>7, <1>8, <1>10, <1>11, <1>12, <1>13, <1>14 DEF Order

-----------------------------------------------------------------------------
\* The server takes an event: what it settles without a relay is explained,
\* and whatever is below the new number was accounted for already.
LEMMA Recorded ==
  ASSUME Base, Order, NEW e \in Event, RecordAndRelay(e) => Below(e),
         (RecordAndRelay(e) /\ cut' = cut) \/ (RecordOnly(e) /\ (Seen(e) => cut' = cut)),
         UNCHANGED <<engine, seq, crossed>>,
         e.engine <= engine, e.engine = engine => e.seq <= seq
  PROVE  /\ Range(log) \cup lost \subseteq (Range(log) \cup lost)'
         /\ RecordAndRelay(e) => e \in (Range(log) \cup lost)'
         /\ \A f \in (Range(log) \cup lost)' :
              f.engine <= engine /\ (f.engine = engine => f.seq <= seq)
         /\ Top' /\ LossesExplained'
         /\ \A f : Accounted(f) => Accounted(f)'
         /\ \A f : Below(f) /\ (f.engine = e.engine /\ f.seq < e.seq => Accounted(f)') => Below(f)'
<1>0. /\ log \in Seq(Event) /\ lost \subseteq Event /\ last \in Nat /\ e.seq \in Nat \ {0}
      /\ Range(log) \subseteq Event
  BY Facts DEF Base, Types, ServerTypes
<1>1. CASE Seen(e)
  <2>1. UNCHANGED <<last, log, numbered, cut>> /\ (lost' = lost \/ lost' = lost \cup {e})
        /\ (RecordAndRelay(e) => e \in Range(log) \cup lost')
        /\ (lost' # lost => e \notin Range(log) /\ RecordAndRelay(e))
    BY <1>1 DEF RecordAndRelay, RecordOnly
  <2>2. Range(log)' = Range(log)
    BY <2>1 DEF Range
  <2>3. \A f : Accounted(f) => Accounted(f)'
    BY <2>1, <2>2 DEF Accounted
  <2>4. \A f : Below(f) => Below(f)'
    BY <2>1, <2>3 DEF Below, Alone
  <2>5. Top'
    BY <2>1, <2>2 DEF Order, Top
  <2>6. \A f \in (Range(log) \cup lost)' :
          f.engine <= engine /\ (f.engine = engine => f.seq <= seq)
    BY <2>1, <2>2 DEF Order, Numbering
  <2>7. RecordAndRelay(e) /\ e \notin Range(log)
          => e \in crossed \cup cut \/ numbered \ {e.engine} # {}
    <3> SUFFICES ASSUME Below(e), e \notin Range(log), e \notin crossed, Alone(e)
                 PROVE  e \in cut
      BY DEF Alone
    <3>1. CASE e.seq < last
      <4>1. e \in lost
        BY <3>1 DEF Below, Accounted
      <4> QED BY <4>1 DEF Order, LossesExplained, Alone
    <3>2. CASE e.seq = last
      <4>1. last # 0
        BY <1>0, <3>2
      <4>2. PICK k \in numbered, f \in Range(log) \cup (lost \cap cut) : f.engine = k /\ f.seq = last
        BY <4>1 DEF Order, Top
      <4>3. f \in Event /\ f.engine = e.engine /\ f.seq = e.seq
        BY <1>0, <3>2, <4>2 DEF Alone
      <4>4. f = e
        BY <4>3 DEF Event
      <4> QED BY <4>2, <4>4
    <3> QED BY <1>0, <1>1, <3>1, <3>2 DEF Seen
  <2>8. LossesExplained'
    BY <2>1, <2>7 DEF Order, LossesExplained
  <2> QED BY <2>1, <2>2, <2>3, <2>4, <2>5, <2>6, <2>8
<1>2. CASE ~Seen(e)
  <2>1. last' = e.seq /\ numbered' = numbered \cup {e.engine} /\ cut \subseteq cut'
    BY <1>2 DEF RecordAndRelay, RecordOnly
  <2>2. \/ RecordAndRelay(e) /\ Range(log)' = Range(log) \cup {e} /\ lost' = lost /\ cut' = cut
        \/ ~RecordAndRelay(e) /\ Range(log)' = Range(log) /\ lost' = lost \cup {e} /\ e \in cut'
    <3>1. CASE RecordAndRelay(e)
      <4>1. log' = Append(log, e) /\ lost' = lost
        BY <1>2, <3>1 DEF RecordAndRelay
      <4>2. Range(log)' = Range(log) \cup {e}
        BY <1>0, <4>1 DEF Range
      <4>3. cut' = cut \/ e \in cut'
        BY <1>2 DEF RecordOnly
      <4>4. cut' = cut \/ RecordOnly(e)
        OBVIOUS
      <4>5. ~RecordOnly(e)
        <5>1. log' # log
          BY <1>0, <4>1
        <5> QED BY <5>1 DEF RecordOnly
      <4> QED BY <3>1, <4>1, <4>2, <4>4, <4>5
    <3>2. CASE ~RecordAndRelay(e)
      BY <1>2, <3>2 DEF RecordOnly, Range
    <3> QED BY <3>1, <3>2
  <2>3. Range(log) \cup lost \subseteq (Range(log) \cup lost)' /\ e \in (Range(log) \cup lost)'
    BY <2>2
  <2>4. \A f : Accounted(f) => Accounted(f)'
    BY <2>3 DEF Accounted
  <2>5. \A f \in (Range(log) \cup lost)' : f \in Range(log) \cup lost \/ f = e
    BY <2>2
  <2>6. \A f \in (Range(log) \cup lost)' :
          f.engine <= engine /\ (f.engine = engine => f.seq <= seq)
    BY <2>5 DEF Order, Numbering
  <2>7. Top'
    <3>1. e \in Range(log)' \cup (lost' \cap cut')
      BY <2>2
    <3> QED BY <2>1, <3>1 DEF Top
  <2>8. LossesExplained'
    BY <2>1, <2>2 DEF Order, LossesExplained
  <2>9. \A f : Below(f) /\ (f.engine = e.engine /\ f.seq < e.seq => Accounted(f)') => Below(f)'
    BY <2>1 DEF Below, Alone
  <2> QED BY <2>3, <2>4, <2>6, <2>7, <2>8, <2>9
<1> QED BY <1>1, <1>2

\* What an engine has not sent yet on this connection, or has sent before its
\* event e, is marked when e is taken.
LEMMA OrderServeEvent ==
  ASSUME Base, Order, ServeEvent
  PROVE  Order'
<1> USE DEF client, thread, net, server, history
<1> DEFINE e == Head(wire)
<1>0. /\ UNCHANGED <<engine, seq, pending, posting, pc, todo, link, old, serving, crossed, cut>>
      /\ serving /\ wire # <<>> /\ RecordAndRelay(e) /\ wire' = Tail(wire)
  BY DEF ServeEvent
<1>p. /\ 1 \in DOMAIN wire /\ wire[1] = e
      /\ \A i \in DOMAIN wire' : i \in Nat /\ i >= 1 /\ i + 1 \in DOMAIN wire /\ wire'[i] = wire[i + 1]
      /\ \A i \in DOMAIN wire : i \in Nat /\ i >= 1
      /\ \A i \in DOMAIN wire : i # 1 => i - 1 \in DOMAIN wire' /\ wire'[i - 1] = wire[i]
  BY <1>0, Facts, TailPlaces
<1>c. \A i : Counted(i) /\ Counted(i)'
  BY <1>0 DEF Counted
<1>h. \A i \in DOMAIN wire : wire[i] # Hello /\ wire[i] \in Event
  BY <1>0, Facts DEF Base, OneHello
<1>e. e \in Event /\ e.engine = engine /\ e.seq <= seq /\ e.engine <= engine
  BY <1>h, <1>p, Facts DEF Order, Numbering
<1>b. Below(e)
  BY <1>c, <1>h, <1>p DEF Order, WireBelow
<1>r. /\ Range(log) \cup lost \subseteq (Range(log) \cup lost)'
      /\ e \in (Range(log) \cup lost)'
      /\ \A f \in (Range(log) \cup lost)' :
           f.engine <= engine /\ (f.engine = engine => f.seq <= seq)
      /\ Top' /\ LossesExplained'
      /\ \A f : Accounted(f) => Accounted(f)'
      /\ \A f : Below(f) /\ (f.engine = e.engine /\ f.seq < e.seq => Accounted(f)') => Below(f)'
  <2> HIDE DEF e
  <2> QED BY <1>0, <1>b, <1>e, Recorded
<1> HIDE DEF e
<1>1. \A m : EventOf(m)' = EventOf(m)
  BY <1>0 DEF EventOf
<1>2. \A f : OldFirst(f) => OldFirst(f)'
  BY <1>0, <1>r DEF OldFirst
<1>3. \A i \in DOMAIN wire' : i + 1 \in DOMAIN wire /\ wire'[i] = wire[i + 1] /\ 1 < i + 1
  BY <1>p
<1>4. link
  BY <1>0 DEF Order, Connections
<1>5. Connections'
  BY <1>0, <1>4 DEF Order, Connections
<1>6. Numbering'
  <2>1. \A i \in DOMAIN wire' : wire'[i] # Hello => wire'[i].engine = engine /\ wire'[i].seq <= seq
    BY <1>3 DEF Order, Numbering
  <2> QED BY <1>0, <1>r, <2>1 DEF Order, Numbering
<1>7. OldOrder' /\ OldBelow'
  BY <1>0 DEF Order, OldOrder, OldBelow
<1>8. WireOrder'
  <2> SUFFICES ASSUME NEW i \in DOMAIN wire', NEW j \in DOMAIN wire', i < j,
                      wire'[j].seq < wire'[i].seq
               PROVE  wire'[j] \in crossed
    BY <1>0 DEF WireOrder
  <2>1. i + 1 < j + 1
    BY <1>p
  <2> QED BY <1>3, <1>c, <1>h, <2>1 DEF Order, WireOrder
<1>9. Waits' = Waits
  BY <1>0 DEF Waits
<1>10. WaitsOrder'
  BY <1>0, <1>1, <1>3, <1>9, <1>c DEF Order, WaitsOrder
<1>11. SentAll'
  <2> SUFFICES ASSUME pc \in {"resend", "read"}, NEW m \in pending \ (Waits \cup {posting})
               PROVE  \/ \E i \in DOMAIN wire' : wire'[i] = EventOf(m)
                      \/ EventOf(m) \in (Range(log) \cup lost)'
    BY <1>0, <1>1, <1>9, <1>c DEF SentAll
  <2>1. CASE EventOf(m) \in Range(log) \cup lost
    BY <1>r, <2>1
  <2>2. CASE \E i \in DOMAIN wire : Counted(i) /\ wire[i] = EventOf(m)
    <3>1. PICK i \in DOMAIN wire : wire[i] = EventOf(m)
      BY <2>2
    <3>2. CASE i = 1
      BY <1>p, <1>r, <3>1, <3>2
    <3>3. CASE i # 1
      BY <1>p, <3>1, <3>3
    <3> QED BY <3>2, <3>3
  <2> QED BY <1>4, <2>1, <2>2 DEF Order, SentAll
<1>12. PendingAfterOld'
  BY <1>0, <1>1, <1>2 DEF Order, PendingAfterOld
<1>13. WireAfterOld'
  <2>1. \A f : (\E i \in DOMAIN wire' : wire'[i] = f /\ f # Hello) => OldFirst(f)'
    BY <1>2, <1>3 DEF Order, WireAfterOld
  <2> QED BY <2>1 DEF WireAfterOld
<1>14. WireBelow'
  <2>1. \A f : (\E i \in DOMAIN wire' : wire'[i] = f) => Below(f) /\ (f.seq < e.seq => f \in crossed)
    <3> SUFFICES ASSUME NEW i \in DOMAIN wire'
                 PROVE  Below(wire'[i]) /\ (wire'[i].seq < e.seq => wire'[i] \in crossed)
      OBVIOUS
    <3>1. i + 1 \in DOMAIN wire /\ wire'[i] = wire[i + 1] /\ 1 < i + 1
      BY <1>3
    <3>2. Below(wire[i + 1])
      BY <1>c, <1>h, <3>1 DEF Order, WireBelow
    <3>3. wire[i + 1].seq < e.seq => wire[i + 1] \in crossed
      BY <1>c, <1>h, <1>p, <3>1 DEF Order, WireOrder
    <3> QED BY <3>1, <3>2, <3>3
  <2>2. \A f : f \in crossed => Accounted(f)'
    BY <1>0 DEF Accounted
  <2>3. \A f : (\E i \in DOMAIN wire' : wire'[i] = f) => Below(f)'
    BY <1>r, <2>1, <2>2
  <2> QED BY <2>3 DEF WireBelow
<1>15. PendingBelow'
  <2>1. ASSUME NEW m \in pending \cup todo, m < e.seq
        PROVE  Accounted(EventOf(m))
    <3>1. CASE m \in Waits
      <4>1. EventOf(m) \in crossed
        BY <1>c, <1>h, <1>p, <2>1, <3>1 DEF Order, WaitsOrder
      <4> QED BY <4>1 DEF Accounted
    <3>2. CASE m \notin Waits
      <4>1. pc \in {"resend", "read"} /\ m \in pending
        <5>1. pc \in {"wait", "open", "greeted", "resend", "read", "dead"}
          BY DEF Base, Types, ClientTypes
        <5>2. pc \notin {"wait", "dead", "open"} /\ (pc # "resend" => todo = {})
          BY <1>0, <1>4 DEF Order, Connections, Base, OneHello
        <5>3. pc # "greeted"
          <6> SUFFICES ASSUME pc = "greeted" PROVE FALSE
            OBVIOUS
          <6>1. Waits = pending /\ todo = {}
            BY <5>2 DEF Waits
          <6> QED BY <3>2, <6>1
        <5>4. pc = "resend" => Waits = todo
          BY DEF Waits
        <5> QED BY <3>2, <5>1, <5>2, <5>3, <5>4
      <4>2. m # posting
        <5>1. e.seq \in Nat /\ seq \in Nat /\ m \in Nat \ {0}
          BY <1>e, Facts
        <5>2. m < seq
          BY <1>e, <2>1, <5>1
        <5> QED BY <5>1, <5>2 DEF Order, Numbering
      <4>3. CASE EventOf(m) \in Range(log) \cup lost
        BY <4>3 DEF Accounted
      <4>4. CASE \E i \in DOMAIN wire : Counted(i) /\ wire[i] = EventOf(m)
        <5>1. PICK i \in DOMAIN wire : wire[i] = EventOf(m)
          BY <4>4
        <5>2. wire[i].seq = m
          BY <5>1, Facts
        <5>3. i # 1
          BY <1>e, <1>p, <2>1, <5>2, Facts
        <5>4. 1 < i
          BY <1>p, <5>3
        <5>5. wire[i] \in crossed
          BY <1>c, <1>h, <1>p, <2>1, <5>2, <5>4 DEF Order, WireOrder
        <5> QED BY <5>1, <5>5 DEF Accounted
      <4> QED BY <1>4, <3>2, <4>1, <4>2, <4>3, <4>4 DEF Order, SentAll
    <3> QED BY <3>1, <3>2
  <2>2. ASSUME NEW m \in pending \cup todo
        PROVE  Below(EventOf(m))'
    <3>1. Below(EventOf(m)) /\ EventOf(m).seq = m
      BY Facts DEF Order, PendingBelow
    <3> DEFINE f == EventOf(m)
    <3>2. Below(f) /\ (f.seq < e.seq => Accounted(f))
      BY <2>1, <3>1
    <3>3. f' = f
      BY <1>1
    <3> HIDE DEF f
    <3>4. \A g : g = f => Below(g)'
      BY <1>r, <3>2
    <3>5. \A g : g = EventOf(m) => Below(g)'
      BY <3>4 DEF f
    <3> QED BY <1>1, <3>5 DEF Below, Alone, Accounted
  <2> QED BY <1>0, <2>2 DEF PendingBelow
<1> QED BY <1>5, <1>6, <1>7, <1>8, <1>10, <1>11, <1>12, <1>13, <1>14, <1>15, <1>r DEF Order

\* A broken connection's event is taken: what it goes past was left behind
\* before it, or is marked.
LEMMA OrderServeOld ==
  ASSUME Base, Order, ServeOld \/ OldDies
  PROVE  Order'
<1> USE DEF client, thread, net, server, history
<1> DEFINE e == Head(old)
<1>0. /\ UNCHANGED <<engine, seq, pending, posting, pc, todo, link, wire, serving, crossed>>
      /\ old # <<>>
      /\ \/ RecordAndRelay(e) /\ cut' = cut /\ ~serving /\ old' = Tail(old)
         \/ RecordOnly(e) /\ (Seen(e) => cut' = cut) /\ old' = <<>>
  BY DEF ServeOld, OldDies, RecordOnly
<1>p. /\ 1 \in DOMAIN old /\ old[1] = e
      /\ \A i \in DOMAIN old : i \in Nat /\ i >= 1
      /\ \A i \in DOMAIN old' : i \in Nat /\ i + 1 \in DOMAIN old /\ old'[i] = old[i + 1] /\ 1 < i + 1
  <2>1. /\ 1 \in DOMAIN old /\ old[1] = e
        /\ \A i \in DOMAIN old : i \in Nat /\ i >= 1
    BY <1>0, Facts, TailPlaces
  <2>2. CASE old' = Tail(old)
    <3>1. \A i \in DOMAIN Tail(old) :
            i \in Nat /\ i >= 1 /\ i + 1 \in DOMAIN old /\ Tail(old)[i] = old[i + 1]
      BY <1>0, Facts, TailPlaces
    <3> QED BY <2>1, <2>2, <3>1
  <2>3. CASE old' = <<>>
    BY <2>1, <2>3
  <2> QED BY <1>0, <2>2, <2>3
<1>t. old' = Tail(old) => \A i \in DOMAIN old : i # 1 => i - 1 \in DOMAIN old' /\ old'[i - 1] = old[i]
  BY <1>0, Facts, TailPlaces
<1>e. e \in Event /\ e.engine <= engine /\ (e.engine = engine => e.seq <= seq)
  BY <1>p, Facts DEF Order, Numbering
<1> HIDE DEF e
<1>s. UNCHANGED engine /\ (\A m : EventOf(m)' = EventOf(m))
  BY <1>0 DEF EventOf
\* A frame on its way, or an event kept, with a lower number is accounted for.
<1>f. ASSUME NEW f, OldFirst(f), f.engine = engine, f.engine = e.engine, f.seq < e.seq
      PROVE  Accounted(f)
  <2>1. old[1].engine = engine /\ f.seq < old[1].seq
    BY <1>f, <1>p
  <2>2. Accounted(f) \/ \E i \in DOMAIN old : i < 1 /\ old[i] = f
    BY <1>f, <1>p, <2>1 DEF OldFirst
  <2> QED BY <1>p, <2>2
<1>c. \A i : Counted(i)' <=> Counted(i)
  BY <1>0 DEF Counted
<1>b. RecordAndRelay(e) /\ ~serving => Below(e)
  BY <1>p DEF Order, OldBelow
<1>r. /\ Range(log) \cup lost \subseteq (Range(log) \cup lost)'
      /\ RecordAndRelay(e) => e \in (Range(log) \cup lost)'
      /\ \A f \in (Range(log) \cup lost)' :
           f.engine <= engine /\ (f.engine = engine => f.seq <= seq)
      /\ Top' /\ LossesExplained'
      /\ \A f : Accounted(f) => Accounted(f)'
      /\ \A f : Below(f) /\ (f.engine = e.engine /\ f.seq < e.seq => Accounted(f)') => Below(f)'
  <2>1. CASE ~serving
    BY <1>0, <1>b, <1>e, <2>1, Recorded
  <2>2. CASE serving /\ ~RecordAndRelay(e)
    BY <1>0, <1>e, <2>2, Recorded
  <2>3. CASE serving /\ RecordAndRelay(e)
    <3>1. RecordOnly(e)
      BY <1>0, <2>3
    <3>2. UNCHANGED log /\ log \in Seq(Event)
      BY <3>1, Facts DEF RecordOnly
    <3>3. Seen(e)
      <4>1. Append(log, e) # log
        BY <3>2
      <4> QED BY <2>3, <3>2, <4>1 DEF RecordAndRelay
    <3>4. UNCHANGED <<last, log, lost, numbered, cut>>
      BY <3>1, <3>2, <3>3 DEF RecordOnly
    <3>5. e \in Range(log) \cup lost
      BY <2>3, <3>3, <3>4 DEF RecordAndRelay
    <3>6. Range(log)' = Range(log)
      BY <3>4 DEF Range
    <3>7. Top' /\ LossesExplained'
      BY <1>0, <3>4 DEF Order, Top, LossesExplained
    <3>8. \A f : (Accounted(f) <=> Accounted(f)') /\ (Below(f) <=> Below(f)')
      BY <1>0, <3>4 DEF Accounted, Below, Alone
    <3> QED BY <1>0, <3>4, <3>5, <3>6, <3>7, <3>8 DEF Order, Numbering
  <2> QED BY <2>1, <2>2, <2>3
<1>2. \A f : OldFirst(f) => OldFirst(f)'
  <2> SUFFICES ASSUME NEW f, OldFirst(f), NEW j \in DOMAIN old', old'[j].engine = engine,
                      f.seq < old'[j].seq
               PROVE  Accounted(f)' \/ \E i \in DOMAIN old' : i < j /\ old'[i] = f
    BY <1>0 DEF OldFirst
  <2>1. RecordAndRelay(e) /\ old' = Tail(old)
    BY <1>0
  <2>2. Accounted(f) \/ \E i \in DOMAIN old : i < j + 1 /\ old[i] = f
    BY <1>p DEF OldFirst
  <2>3. CASE Accounted(f)
    BY <1>r, <2>3
  <2>4. CASE \E i \in DOMAIN old : i < j + 1 /\ old[i] = f
    <3>1. PICK i \in DOMAIN old : i < j + 1 /\ old[i] = f
      BY <2>4
    <3>2. CASE i = 1
      <4>1. f \in (Range(log) \cup lost)'
        BY <1>p, <1>r, <2>1, <3>1, <3>2
      <4> QED BY <4>1 DEF Accounted
    <3>3. CASE i # 1
      <4>1. i - 1 \in DOMAIN old' /\ old'[i - 1] = f
        BY <1>t, <2>1, <3>1, <3>3
      <4>2. i \in Nat /\ j \in Nat
        BY <1>p
      <4>3. i - 1 < j
        BY <3>1, <4>2
      <4> QED BY <4>1, <4>3
    <3> QED BY <3>2, <3>3
  <2> QED BY <2>2, <2>3, <2>4
<1>3. Connections'
  BY <1>0 DEF Order, Connections
<1>4. Numbering'
  <2>1. \A i \in DOMAIN old' :
          old'[i].engine <= engine /\ (old'[i].engine = engine => old'[i].seq <= seq)
    BY <1>p DEF Order, Numbering
  <2> QED BY <1>0, <1>r, <2>1 DEF Order, Numbering
<1>5. WireOrder'
  BY <1>0, <1>c DEF Order, WireOrder
<1>6. OldOrder'
  <2> SUFFICES ASSUME NEW i \in DOMAIN old', NEW j \in DOMAIN old', i < j,
                      old'[i].engine = old'[j].engine, old'[j].seq < old'[i].seq
               PROVE  old'[j] \in crossed
    BY <1>0 DEF OldOrder
  <2>1. i + 1 < j + 1
    BY <1>p
  <2> QED BY <1>p, <2>1 DEF Order, OldOrder
<1>7. Waits' = Waits
  BY <1>0 DEF Waits
<1>8. WaitsOrder' /\ SentAll'
  <2>1. WaitsOrder'
    BY <1>0, <1>c, <1>s, <1>7 DEF Order, WaitsOrder
  <2>2. SentAll'
    BY <1>0, <1>c, <1>r, <1>s, <1>7 DEF Order, SentAll
  <2> QED BY <2>1, <2>2
<1>9. PendingAfterOld'
  BY <1>0, <1>2, <1>s DEF Order, PendingAfterOld
<1>10. WireAfterOld'
  BY <1>0, <1>2 DEF Order, WireAfterOld
<1>11. WireBelow'
  <2>1. \A f : (\E i \in DOMAIN wire : Counted(i) /\ wire[i] = f /\ f # Hello) => Below(f)'
    <3> SUFFICES ASSUME NEW i \in DOMAIN wire, Counted(i), wire[i] # Hello,
                        NEW f, f = wire[i]
                 PROVE  Below(f)'
      OBVIOUS
    <3>1. Below(f) /\ OldFirst(f) /\ f.engine = engine
      BY DEF Order, WireBelow, WireAfterOld, Numbering
    <3>2. f.engine = e.engine /\ f.seq < e.seq => Accounted(f)'
      BY <1>f, <1>r, <3>1
    <3> QED BY <1>r, <3>1, <3>2
  <2> QED BY <1>0, <1>c, <2>1 DEF WireBelow
<1>12. PendingBelow'
  <2>1. \A f : (\E m \in pending \cup todo : EventOf(m) = f) => Below(f)'
    <3> SUFFICES ASSUME NEW m \in pending \cup todo, NEW f, f = EventOf(m)
                 PROVE  Below(f)'
      OBVIOUS
    <3>1. Below(f) /\ OldFirst(f) /\ f.engine = engine
      BY Facts DEF Order, PendingBelow, PendingAfterOld
    <3>2. f.engine = e.engine /\ f.seq < e.seq => Accounted(f)'
      BY <1>f, <1>r, <3>1
    <3> QED BY <1>r, <3>1, <3>2
  <2> QED BY <1>0, <1>s, <2>1 DEF PendingBelow
<1>13. OldBelow'
  <2> SUFFICES ASSUME ~serving PROVE \A f : (\E j \in DOMAIN old' : old'[j] = f) => Below(f)'
    BY <1>0 DEF OldBelow
  <2> SUFFICES ASSUME NEW j \in DOMAIN old', NEW f, f = old'[j]
               PROVE  Below(f)'
    OBVIOUS
  <2>1. Below(f)
    BY <1>p DEF Order, OldBelow
  <2>2. f.engine = e.engine /\ f.seq < e.seq => f \in crossed
    BY <1>p DEF Order, OldOrder
  <2>3. f \in crossed => Accounted(f)'
    BY <1>0 DEF Accounted
  <2> QED BY <1>r, <2>1, <2>2, <2>3
<1> QED BY <1>3, <1>4, <1>5, <1>6, <1>8, <1>9, <1>10, <1>11, <1>12, <1>13, <1>r DEF Order

\* A new record owes nothing.
LEMMA OrderEvict ==
  ASSUME Base, Order, Evict
  PROVE  Order'
<1> USE DEF client, thread, net, server, history
<1>0. /\ UNCHANGED <<engine, seq, pending, posting, pc, todo, link, wire, old, serving, crossed, cut>>
      /\ last' = 0 /\ log' = <<>> /\ lost' = {} /\ numbered' = {} /\ ~serving /\ old = <<>>
  BY DEF Evict
<1>1. \A i : Counted(i)' <=> Counted(i)
  BY <1>0 DEF Counted
<1>2. \A m : EventOf(m)' = EventOf(m)
  BY <1>0 DEF EventOf
<1>3. Connections'
  BY <1>0 DEF Order, Connections
<1>4. Numbering'
  <2>1. Range(log)' \cup lost' = {}
    BY <1>0 DEF Range
  <2> QED BY <1>0, <2>1 DEF Order, Numbering
<1>5. Top' /\ LossesExplained' /\ OldOrder' /\ OldBelow'
  BY <1>0 DEF Top, LossesExplained, OldOrder, OldBelow
<1>6. WireOrder'
  BY <1>0, <1>1 DEF Order, WireOrder
<1>7. WaitsOrder'
  BY <1>0, <1>1, <1>2 DEF Order, WaitsOrder, Waits
<1>8. SentAll'
  BY <1>0, <1>1, <1>2 DEF Order, SentAll, Waits
<1>9. PendingAfterOld' /\ WireAfterOld'
  <2>1. \A f : OldFirst(f)'
    BY <1>0 DEF OldFirst
  <2> QED BY <2>1 DEF PendingAfterOld, WireAfterOld
<1>10. WireBelow' /\ PendingBelow'
  <2>1. \A f : f.seq \in Nat => Below(f)'
    BY <1>0 DEF Below
  <2>2. \A i \in DOMAIN wire : wire[i] # Hello => wire[i].seq \in Nat
    BY Facts
  <2>3. \A f : (\E i \in DOMAIN wire : wire[i] = f /\ f # Hello) => Below(f)'
    BY <2>1, <2>2
  <2>4. \A m \in pending \cup todo : EventOf(m).seq \in Nat
    BY Facts
  <2>5. \A f : (\E m \in pending \cup todo : EventOf(m) = f) => Below(f)'
    BY <2>1, <2>4
  <2>6. WireBelow'
    BY <1>0, <2>3 DEF WireBelow
  <2>7. PendingBelow'
    BY <1>0, <1>2, <2>5 DEF PendingBelow
  <2> QED BY <2>6, <2>7
<1> QED BY <1>3, <1>4, <1>5, <1>6, <1>7, <1>8, <1>9, <1>10 DEF Order

LEMMA OrderStep ==
  ASSUME Base, Order, [EventsNext]_vars
  PROVE  Order'
<1>1. CASE PostEvent
  BY <1>1, OrderPostEvent
<1>2. CASE PostSend
  BY <1>2, OrderPostSend, OrderClientQuiet
<1>3. CASE Restart
  BY <1>3, OrderRestart
<1>4. CASE Open \/ SendHello
  BY <1>4, OrderOpen, OrderSendHello, OrderClientQuiet
<1>5. CASE Resend
  BY <1>5, OrderResend, OrderClientQuiet
<1>6. CASE PostFails \/ HelloFails \/ ListPending \/ ResendDone \/ TrackAck \/ Notice
  BY <1>6, OrderClientQuiet
<1>7. CASE Break
  BY <1>7, OrderBreak
<1>8. CASE ServeHello \/ RefuseEvent
  BY <1>8, OrderServeHello, OrderRefuse
<1>9. CASE ServeEvent
  BY <1>9, OrderServeEvent
<1>10. CASE ServeOld \/ OldDies
  BY <1>10, OrderServeOld
<1>11. CASE Evict
  BY <1>11, OrderEvict
<1>12. CASE UNCHANGED vars
  <2> USE <1>12 DEF vars, client, thread, net, server, history
  <2>1. Connections' /\ SentAll'
    BY DEF Order, Connections, SentAll, Counted, EventOf, Waits
  <2>2. Waits' = Waits
    BY DEF Waits
  <2> QED BY <2>1, <2>2, OrderQuiet DEF Order, Numbering
<1> QED BY <1>1, <1>2, <1>3, <1>4, <1>5, <1>6, <1>7, <1>8, <1>9, <1>10, <1>11, <1>12
        DEF EventsNext, EngineNext, ServerNext

\* The server settles an event without a relay for one of three reasons only,
\* however long the engines run and wherever their connections break: the
\* re-send of _resend_pending was overtaken, the acknowledgement of
\* _handle_event could not be written, or two engines numbered one record.
THEOREM LossesAreExplained == Spec => []LossesExplained
<1>1. Base /\ Order /\ [EventsNext]_vars => Order'
  BY OrderStep
<1>2. Order => LossesExplained
  BY DEF Order
<1> QED BY <1>1, <1>2, InitBase, BaseKept, OrderInit, PTL DEF Spec

-----------------------------------------------------------------------------
\* Acknowledgements.  Under the first engine a number means one event, so what
\* was settled was relayed, or is one of the losses explained above.
Excused == relayed \cup crossed \cup cut

FirstEngine ==
  engine = 1 =>
    /\ numbered \subseteq {1}
    /\ Range(log) \subseteq relayed
    /\ settled \subseteq Excused
    /\ \A i \in DOMAIN acks : acks[i].engine = 1 /\ acks[i] \in Excused

LEMMA FirstEngineInit == Init => FirstEngine
<1> SUFFICES ASSUME Init PROVE FirstEngine
  OBVIOUS
<1>1. Range(log) = {} /\ acks = <<>> /\ settled = {} /\ numbered = {}
  BY DEF Init, Range
<1> QED BY <1>1 DEF FirstEngine

\* An event taken under the first engine is relayed or excused.
LEMMA TakenFirst ==
  ASSUME Base, Order', FirstEngine, engine = 1, NEW e \in Event, e.engine = 1,
         (RecordAndRelay(e) /\ cut' = cut) \/ (RecordOnly(e) /\ (Seen(e) => cut' = cut)),
         crossed' = crossed
  PROVE  /\ numbered' \subseteq {1} /\ Range(log)' \subseteq relayed'
         /\ Excused \subseteq Excused'
         /\ RecordAndRelay(e) => e \in Excused'
<1>0. log \in Seq(Event)
  BY Facts
<1>1. numbered' \subseteq {1}
  BY DEF FirstEngine, RecordAndRelay, RecordOnly
<1>2. Range(log)' \subseteq relayed' /\ relayed \subseteq relayed'
  <2>1. CASE RecordOnly(e)
    BY <2>1 DEF FirstEngine, RecordOnly, Range
  <2>2. CASE RecordAndRelay(e) /\ Seen(e)
    BY <2>2 DEF FirstEngine, RecordAndRelay, Range
  <2>3. CASE RecordAndRelay(e) /\ ~Seen(e)
    <3>1. log' = Append(log, e) /\ relayed' = relayed \cup {e}
      BY <2>3 DEF RecordAndRelay
    <3>2. Range(log)' = Range(log) \cup {e}
      BY <1>0, <3>1 DEF Range
    <3> QED BY <3>1, <3>2 DEF FirstEngine
  <2> QED BY <2>1, <2>2, <2>3
<1>3. cut \subseteq cut'
  BY DEF RecordOnly
<1>4. Excused \subseteq Excused'
  BY <1>2, <1>3 DEF Excused
<1>5. RecordAndRelay(e) => e \in Excused'
  <2> SUFFICES ASSUME RecordAndRelay(e) PROVE e \in Excused'
    OBVIOUS
  <2>1. CASE ~Seen(e)
    BY <2>1 DEF RecordAndRelay, Excused
  <2>2. CASE Seen(e)
    <3>1. CASE e \in Range(log)
      BY <1>2, <3>1 DEF Excused, FirstEngine
    <3>2. CASE e \notin Range(log)
      <4>1. e \in lost'
        BY <2>2, <3>2 DEF RecordAndRelay
      <4>2. e \in crossed' \cup cut' \/ numbered' \ {e.engine} # {}
        BY <4>1 DEF Order, LossesExplained
      <4>3. numbered' \ {e.engine} = {}
        BY <1>1
      <4> QED BY <4>2, <4>3 DEF Excused
    <3> QED BY <3>1, <3>2
  <2> QED BY <2>1, <2>2
<1> QED BY <1>1, <1>2, <1>4, <1>5

LEMMA FirstEngineStep ==
  ASSUME Base, Base', Order, Order', FirstEngine, [EventsNext]_vars
  PROVE  FirstEngine'
<1> SUFFICES ASSUME engine' = 1 PROVE FirstEngine'
  BY DEF FirstEngine
<1>1. engine \in Nat \ {0} /\ acks \in Seq(Event)
  BY EventConstants DEF Base, Types, ClientTypes, NetTypes
<1> USE DEF client, thread, net, server, history
<1>2. CASE ServeEvent
  <2>1. Head(wire) \in Event /\ Head(wire).engine = engine
    <3>1. 1 \in DOMAIN wire /\ Head(wire) = wire[1]
      BY <1>2, Facts, TailPlaces DEF ServeEvent
    <3>2. wire[1] # Hello
      BY <1>2, <3>1 DEF ServeEvent, Base, OneHello
    <3> QED BY <3>1, <3>2, Facts DEF Order, Numbering
  <2>2. /\ engine = 1 /\ UNCHANGED <<crossed, cut, settled>>
        /\ RecordAndRelay(Head(wire)) /\ acks' = Append(acks, Head(wire))
    BY <1>2 DEF ServeEvent
  <2>3. /\ numbered' \subseteq {1} /\ Range(log)' \subseteq relayed'
        /\ Excused \subseteq Excused' /\ Head(wire) \in Excused'
    BY <2>1, <2>2, TakenFirst
  <2>4. \A i \in DOMAIN acks' : acks'[i].engine = 1 /\ acks'[i] \in Excused'
    BY <1>1, <2>1, <2>2, <2>3 DEF FirstEngine
  <2> QED BY <2>2, <2>3, <2>4 DEF FirstEngine
<1>3. CASE ServeOld \/ OldDies
  <2>1. Head(old) \in Event /\ Head(old).engine <= engine
    <3>1. 1 \in DOMAIN old /\ Head(old) = old[1]
      BY <1>3, Facts, TailPlaces DEF ServeOld, OldDies
    <3> QED BY <3>1, Facts DEF Order, Numbering
  <2>2. /\ engine = 1 /\ UNCHANGED <<crossed, settled, acks>>
        /\ \/ RecordAndRelay(Head(old)) /\ cut' = cut
           \/ RecordOnly(Head(old)) /\ (Seen(Head(old)) => cut' = cut)
    BY <1>3 DEF ServeOld, OldDies, RecordOnly
  <2>3. Head(old).engine = 1
    BY <2>1, <2>2, EventConstants DEF Event
  <2>4. /\ numbered' \subseteq {1} /\ Range(log)' \subseteq relayed'
        /\ Excused \subseteq Excused'
    BY <2>1, <2>2, <2>3, TakenFirst
  <2> QED BY <2>2, <2>4 DEF FirstEngine
<1>4. CASE TrackAck
  <2>1. /\ UNCHANGED <<engine, relayed, crossed, cut, numbered, log>> /\ acks # <<>>
        /\ acks' = Tail(acks) /\ settled' = settled \cup {EventOf(Head(acks).seq)}
    BY <1>4 DEF TrackAck, Answers
  <2>2. Head(acks) = acks[1] /\ 1 \in DOMAIN acks
    BY <1>1, <2>1
  <2>3. Head(acks) \in Event /\ Head(acks).engine = 1 /\ Head(acks) \in Excused
    BY <1>1, <2>1, <2>2 DEF FirstEngine
  <2>4. EventOf(Head(acks).seq) = Head(acks)
    BY <2>1, <2>3 DEF EventOf, Event
  <2>5. \A i \in DOMAIN acks' : i + 1 \in DOMAIN acks /\ acks'[i] = acks[i + 1]
    BY <1>1, <2>1
  <2>6. Excused' = Excused
    BY <2>1 DEF Excused
  <2> QED BY <2>1, <2>3, <2>4, <2>5, <2>6 DEF FirstEngine, Range
<1>5. CASE Evict
  <2>1. /\ UNCHANGED <<engine, relayed, crossed, cut, settled, acks>>
        /\ numbered' = {} /\ log' = <<>>
    BY <1>5 DEF Evict
  <2>2. Range(log)' = {}
    BY <2>1 DEF Range
  <2> QED BY <2>1, <2>2 DEF FirstEngine, Excused
<1>6. CASE Restart
  BY <1>1, <1>6 DEF Restart
<1>7. CASE PostSend
  BY <1>7 DEF PostSend, FirstEngine, Excused, Range
<1>8. CASE Open \/ Break
  BY <1>8 DEF Open, Break, FirstEngine, Excused, Range
<1>9. CASE \/ PostEvent \/ PostFails \/ SendHello \/ HelloFails \/ ListPending \/ Resend \/ ResendDone
           \/ Notice \/ ServeHello \/ RefuseEvent \/ UNCHANGED vars
  <2>1. UNCHANGED <<engine, relayed, crossed, cut, settled, acks, numbered, log>>
    BY <1>9 DEF PostEvent, PostFails, SendHello, HelloFails, ListPending, Resend, ResendDone, Notice,
                ServeHello, RefuseEvent, vars
  <2> QED BY <2>1 DEF FirstEngine, Excused, Range
<1> QED BY <1>2, <1>3, <1>4, <1>5, <1>6, <1>7, <1>8, <1>9 DEF EventsNext, EngineNext, ServerNext

\* What a client's only engine takes for settled was relayed to the room, or is
\* a loss that the overtaken re-send or the failed acknowledgement explains.
THEOREM AcknowledgedWasRelayed == Spec => []AckedIsSettled
<1>1. Base /\ Base' /\ Order /\ Order' /\ FirstEngine /\ [EventsNext]_vars => FirstEngine'
  BY FirstEngineStep
<1>2. Base /\ Order /\ [EventsNext]_vars => Order'
  BY OrderStep
<1>3. Base /\ FirstEngine => AckedIsSettled
  <2> SUFFICES ASSUME Base, FirstEngine, NEW e \in settled, e \notin relayed \cup crossed \cup cut
               PROVE  e \in Event /\ engine > 1
    BY DEF AckedIsSettled
  <2>1. engine # 1 /\ engine \in 1..MaxEngine
    BY DEF FirstEngine, Excused, Base, Types, ClientTypes
  <2>2. engine > 1
    BY <2>1, EventConstants
  <2> QED BY <2>2 DEF Base, Types, HistoryTypes
<1> QED BY <1>1, <1>2, <1>3, InitBase, BaseKept, OrderInit, FirstEngineInit, PTL DEF Spec
=============================================================================
