-------------------------- MODULE RoomStreams_proofs --------------------------
(***************************************************************************)
(* The two streams that a room's server forwards one frame at a time: the  *)
(* speed of the clock, and the save files.  First the speed, for any       *)
(* members, speeds and changes: why the games agree on it, and where it    *)
(* comes from.  Then the saves, for any players, slots, sizes and number   *)
(* of pushes: why a written file is one push, and why the latest arrives.  *)
(***************************************************************************)
EXTENDS RoomSpeed, SaveTransfer, FiniteSetTheorems, SequenceTheorems, TLAPS

\* The frames on their way.
UpFrame == [type : {"HELLO", "TIME_READY", "TIME_SPEED", "DEEP_RELAY"}, arg : Speed]
DownFrame ==
  [type : {"WELCOME", "DEEP_RELAY"}, arg : Speed]
    \cup [type : {"ROOM_STATE", "PLAYER_JOINED", "PLAYER_LEFT"}, arg : SUBSET Member]
    \cup [type : {"TIME_SYNC"}, arg : [gate : BOOLEAN, speed : Speed]]

Wires == outgoing \in [Member -> Seq(UpFrame)] /\ incoming \in [Member -> Seq(DownFrame)]

Plain ==
  /\ online \subseteq Member /\ primed \subseteq Member /\ pace \in Speed
  /\ handler \in [Member -> {"idle", "hello", "leave"}]
  /\ connected \subseteq Member /\ gate \in [Member -> BOOLEAN]
  /\ known \in [Member -> SUBSET Member] /\ reported \subseteq Member
  /\ speed \in [Member -> Speed] /\ local \in [Member -> Speed]
  /\ opened \subseteq Member /\ echo \subseteq Member
  /\ acts \in 0..MaxActs /\ chosen \subseteq Speed /\ hasty \subseteq Member

\* Who counts as ready is there, and a connection begins with its HELLO.
Silent(s) == \A i \in DOMAIN s : s[i].type # "HELLO"
Greets(s) == s # <<>> /\ s[1].type = "HELLO" /\ \A i \in DOMAIN s : s[i].type = "HELLO" => i = 1

ConnOf(p) ==
  /\ handler[p] = "hello" => p \in online /\ p \notin primed
  /\ handler[p] = "leave" => p \notin online
  /\ p \in online => Silent(outgoing[p])
  /\ p \notin online => /\ p \in connected \/ outgoing[p] # <<>> => Greets(outgoing[p])
                        /\ p \in connected => incoming[p] = <<>>

Conns == primed \subseteq online /\ \A p \in Member : ConnOf(p)

Base == Plain /\ Wires /\ Conns

\* Of the first n frames of s the last that moves the gate shuts it, or none
\* does and it is g.
Shuts(f) == f.type = "WELCOME" \/ (f.type = "TIME_SYNC" /\ f.arg.gate = TRUE)
Opens(f) == f.type = "TIME_SYNC" /\ f.arg.gate = FALSE

ShutAt(s, g, n) ==
  \E i \in 0..n : /\ IF i = 0 THEN g = TRUE ELSE Shuts(s[i])
                  /\ \A j \in (i + 1)..n : ~Opens(s[j])

\* While a member is gone the others hear that the gate is shut before they can
\* hear of anybody that comes: a roster never ends a hold.
Grows(f) == f.type \in {"ROOM_STATE", "PLAYER_JOINED"}

GateOf(q) ==
  /\ \A x \in Member : x \notin online /\ handler[x] = "idle" =>
       ShutAt(incoming[q], gate[q], Len(incoming[q]))
  /\ \A i \in DOMAIN incoming[q] : Grows(incoming[q][i]) => ShutAt(incoming[q], gate[q], i - 1)

GateInv == \A q \in connected \cap online : GateOf(q)

\* Until somebody publishes before its WELCOME, every speed that can become the
\* room's is one somebody picked.
SentChosen(p) ==
  \A i \in DOMAIN outgoing[p] :
    outgoing[p][i].type \in {"TIME_SPEED", "DEEP_RELAY"} => outgoing[p][i].arg \in chosen

HeardChosen(p) ==
  \A i \in DOMAIN incoming[p] :
    /\ incoming[p][i].type = "DEEP_RELAY" => incoming[p][i].arg \in chosen
    /\ Opens(incoming[p][i]) => incoming[p][i].arg.speed \in chosen

PlayedChosen(p) ==
  /\ gate[p] = FALSE => speed[p] \in chosen
  /\ p \in connected /\ Welcomed(p) /\ gate[p] = FALSE /\ ~Short(p, known[p]) => local[p] \in chosen

ChosenInv ==
  hasty = {} => /\ pace \in chosen
                /\ \A p \in Member : SentChosen(p) /\ HeardChosen(p) /\ PlayedChosen(p)

\* The roster a member comes to has everybody that is there.
Brings(f, x) == f.type \in {"ROOM_STATE", "PLAYER_JOINED"} /\ x \in f.arg
Drops(f, x) == (f.type = "PLAYER_LEFT" /\ x \in f.arg) \/ (f.type = "ROOM_STATE" /\ x \notin f.arg)

There(s, in, x) ==
  \E i \in 0..Len(s) : /\ IF i = 0 THEN x \in in ELSE Brings(s[i], x)
                       /\ \A j \in (i + 1)..Len(s) : ~Drops(s[j], x)

RosterInv == \A q \in connected \cap online : \A x \in online : There(incoming[q], known[q], x)

\* A client that reported after its WELCOME counts, or its report is on its way.
Reports(s) == \E i \in DOMAIN s : s[i].type = "TIME_READY"

ReadyInv ==
  \A p \in connected \cap online \cap reported :
    Welcomed(p) => p \in primed \/ Reports(outgoing[p])

\* What a TIME_SYNC would say now is the last thing everybody hears, or has
\* heard, but for a speed of its own on its way to the server.
Open == Cardinality(online) >= MinMembers /\ primed = Member
Now == [gate |-> ~Open, speed |-> IF Open THEN pace ELSE 0]
Moves(f) == f.type \in {"WELCOME", "TIME_SYNC"}
Publishes(s) == \E i \in DOMAIN s : s[i].type = "TIME_SPEED"

Told(s, out, g, v, now) ==
  \E i \in 0..Len(s) :
     /\ IF i = 0 THEN g = now.gate /\ (v = now.speed \/ Publishes(out))
        ELSE s[i].type = "TIME_SYNC" /\ s[i].arg = now
     /\ \A j \in (i + 1)..Len(s) : ~Moves(s[j])

ToldInv ==
  (\A x \in Member : handler[x] = "idle") =>
     \A q \in connected \cap online : Told(incoming[q], outgoing[q], gate[q], speed[q], Now)

IInv == Base /\ GateInv /\ ChosenInv /\ RosterInv /\ ReadyInv /\ ToldInv

-----------------------------------------------------------------------------
LEMMA Constant ==
  /\ IsFiniteSet(Member) /\ Host \in Member /\ 0 \in Speed /\ 1 \in Speed
  /\ MinMembers \in 0..Cardinality(Member) /\ MaxActs \in Nat
BY SpeedConstants DEF SpeedConstants

\* Queues.
LEMMA QueueFacts ==
  ASSUME NEW S, NEW s \in Seq(S)
  PROVE  /\ Len(s) \in Nat /\ DOMAIN s = 1..Len(s)
         /\ \A i \in 1..Len(s) : s[i] \in S
         /\ s # <<>> => Len(s) > 0 /\ Head(s) = s[1] /\ s[1] \in S
         /\ Len(s) = 0 => s = <<>>
OBVIOUS

LEMMA Appended ==
  ASSUME NEW S, NEW s \in Seq(S), NEW f \in S
  PROVE  /\ Append(s, f) \in Seq(S) /\ Len(Append(s, f)) = Len(s) + 1
         /\ \A i \in 1..Len(s) : Append(s, f)[i] = s[i]
         /\ Append(s, f)[Len(s) + 1] = f
         /\ DOMAIN Append(s, f) = 1..(Len(s) + 1) /\ Append(s, f) # <<>>
OBVIOUS

LEMMA Tailed ==
  ASSUME NEW S, NEW s \in Seq(S), s # <<>>
  PROVE  /\ Tail(s) \in Seq(S) /\ Len(Tail(s)) = Len(s) - 1 /\ Len(s) \in Nat /\ Len(s) > 0
         /\ \A i \in 1..(Len(s) - 1) : Tail(s)[i] = s[i + 1]
         /\ DOMAIN Tail(s) = 1..(Len(s) - 1)
OBVIOUS

\* The gate a queue leads to.
LEMMA ShutOld ==
  ASSUME NEW s \in Seq(DownFrame), NEW f \in DownFrame, NEW g, NEW n \in 0..Len(s), ShutAt(s, g, n)
  PROVE  ShutAt(Append(s, f), g, n)
<1> DEFINE t == Append(s, f)
<1>1. Len(s) \in Nat /\ \A i \in 1..Len(s) : t[i] = s[i]
  BY QueueFacts, Appended
<1> HIDE DEF t
<1>2. PICK i \in 0..n : /\ IF i = 0 THEN g = TRUE ELSE Shuts(s[i])
                        /\ \A j \in (i + 1)..n : ~Opens(s[j])
  BY DEF ShutAt
<1>3. IF i = 0 THEN g = TRUE ELSE Shuts(t[i])
  BY <1>1, <1>2
<1>4. \A j \in (i + 1)..n : ~Opens(t[j])
  BY <1>1, <1>2
<1>5. ShutAt(t, g, n)
  BY <1>3, <1>4 DEF ShutAt
<1> QED
  BY <1>5 DEF t

LEMMA ShutNew ==
  ASSUME NEW s \in Seq(DownFrame), NEW f \in DownFrame, NEW g,
         Shuts(f) \/ (ShutAt(s, g, Len(s)) /\ ~Opens(f))
  PROVE  ShutAt(Append(s, f), g, Len(s) + 1)
<1> DEFINE t == Append(s, f)
           m == Len(s) + 1
<1>1. Len(s) \in Nat /\ m \in Nat /\ t[m] = f
  BY QueueFacts, Appended
<1>2. CASE Shuts(f)
  <2>1. m \in 0..m /\ m # 0 /\ Shuts(t[m]) /\ \A j \in (m + 1)..m : ~Opens(t[j])
    BY <1>1, <1>2
  <2> HIDE DEF t, m
  <2>2. ShutAt(t, g, m)
    BY <2>1 DEF ShutAt
  <2> QED
    BY <2>2 DEF t, m
<1>3. CASE ShutAt(s, g, Len(s)) /\ ~Opens(f)
  <2>1. ShutAt(t, g, Len(s))
    BY <1>1, <1>3, ShutOld
  <2> HIDE DEF t
  <2>2. PICK i \in 0..Len(s) : /\ IF i = 0 THEN g = TRUE ELSE Shuts(t[i])
                               /\ \A j \in (i + 1)..Len(s) : ~Opens(t[j])
    BY <2>1 DEF ShutAt
  <2>3. \A j \in (i + 1)..m : j \in (i + 1)..Len(s) \/ j = m
    BY <1>1
  <2>4. i \in 0..m /\ \A j \in (i + 1)..m : ~Opens(t[j])
    BY <1>1, <1>3, <2>2, <2>3
  <2>5. ShutAt(t, g, m)
    BY <2>2, <2>4 DEF ShutAt
  <2> QED
    BY <2>5 DEF t
<1> QED
  BY <1>2, <1>3

LEMMA ShutTail ==
  ASSUME NEW s \in Seq(DownFrame), s # <<>>, NEW g, NEW h, NEW n \in 1..Len(s), ShutAt(s, g, n),
         Shuts(s[1]) => h = TRUE, g = TRUE /\ ~Opens(s[1]) => h = TRUE
  PROVE  ShutAt(Tail(s), h, n - 1)
<1> DEFINE t == Tail(s)
<1>1. Len(s) \in Nat /\ \A i \in 1..(Len(s) - 1) : t[i] = s[i + 1]
  BY Tailed
<1> HIDE DEF t
<1>2. PICK i \in 0..n : /\ IF i = 0 THEN g = TRUE ELSE Shuts(s[i])
                        /\ \A j \in (i + 1)..n : ~Opens(s[j])
  BY DEF ShutAt
<1>3. \A j \in 1..(n - 1) : j + 1 \in 1..n /\ t[j] = s[j + 1]
  BY <1>1
<1>4. CASE i \in {0, 1}
  <2>1. h = TRUE
    BY <1>2, <1>4
  <2>2. \A j \in 1..(n - 1) : ~Opens(t[j])
    BY <1>2, <1>3, <1>4
  <2>3. 0 \in 0..(n - 1) /\ \A j \in (0 + 1)..(n - 1) : ~Opens(t[j])
    BY <2>2
  <2>4. ShutAt(t, h, n - 1)
    BY <2>1, <2>3 DEF ShutAt
  <2> QED
    BY <2>4 DEF t
<1>5. CASE i \notin {0, 1}
  <2>1. i - 1 \in 1..(n - 1) /\ t[i - 1] = s[i]
    BY <1>1, <1>5
  <2>2. Shuts(t[i - 1])
    BY <1>2, <1>5, <2>1
  <2>3. \A j \in ((i - 1) + 1)..(n - 1) : ~Opens(t[j])
    BY <1>2, <1>3, <2>1
  <2>4. ShutAt(t, h, n - 1)
    BY <2>1, <2>2, <2>3 DEF ShutAt
  <2> QED
    BY <2>4 DEF t
<1> QED
  BY <1>4, <1>5

\* The roster it leads to.
LEMMA ThereNew ==
  ASSUME NEW s \in Seq(DownFrame), NEW f \in DownFrame, NEW in, NEW x,
         Brings(f, x) \/ (There(s, in, x) /\ ~Drops(f, x))
  PROVE  There(Append(s, f), in, x)
<1> DEFINE t == Append(s, f)
           m == Len(s) + 1
<1>1. Len(s) \in Nat /\ m \in Nat /\ t[m] = f /\ Len(t) = m /\ \A i \in 1..Len(s) : t[i] = s[i]
  BY QueueFacts, Appended
<1> HIDE DEF t
<1>2. CASE Brings(f, x)
  <2>1. m \in 0..m /\ m # 0 /\ Brings(t[m], x) /\ \A j \in (m + 1)..m : ~Drops(t[j], x)
    BY <1>1, <1>2
  <2> HIDE DEF m
  <2>2. There(t, in, x)
    BY <1>1, <2>1 DEF There
  <2> QED
    BY <2>2 DEF t
<1>3. CASE There(s, in, x) /\ ~Drops(f, x)
  <2>2. PICK i \in 0..Len(s) : /\ IF i = 0 THEN x \in in ELSE Brings(s[i], x)
                               /\ \A j \in (i + 1)..Len(s) : ~Drops(s[j], x)
    BY <1>3 DEF There
  <2>3. \A j \in (i + 1)..m : (j \in (i + 1)..Len(s) /\ t[j] = s[j]) \/ j = m
    BY <1>1
  <2>4. i \in 0..m /\ \A j \in (i + 1)..m : ~Drops(t[j], x)
    BY <1>1, <1>3, <2>2, <2>3
  <2>5. IF i = 0 THEN x \in in ELSE Brings(t[i], x)
    BY <1>1, <2>2
  <2> HIDE DEF m
  <2>6. There(t, in, x)
    BY <1>1, <2>4, <2>5 DEF There
  <2> QED
    BY <2>6 DEF t
<1> QED
  BY <1>2, <1>3

LEMMA ThereTail ==
  ASSUME NEW s \in Seq(DownFrame), s # <<>>, NEW in, NEW on, NEW x, There(s, in, x),
         Brings(s[1], x) => x \in on, x \in in /\ ~Drops(s[1], x) => x \in on
  PROVE  There(Tail(s), on, x)
<1> DEFINE t == Tail(s)
           n == Len(s)
<1>1. n \in Nat /\ n > 0 /\ Len(t) = n - 1 /\ \A i \in 1..(n - 1) : t[i] = s[i + 1]
  BY Tailed
<1> HIDE DEF t
<1>2. PICK i \in 0..n : /\ IF i = 0 THEN x \in in ELSE Brings(s[i], x)
                        /\ \A j \in (i + 1)..n : ~Drops(s[j], x)
  BY DEF There
<1>3. \A j \in 1..(n - 1) : j + 1 \in 1..n /\ t[j] = s[j + 1]
  BY <1>1
<1> HIDE DEF n
<1>4. CASE i \in {0, 1}
  <2>1. x \in on
    BY <1>1, <1>2, <1>4
  <2>2. \A j \in 1..(n - 1) : ~Drops(t[j], x)
    BY <1>1, <1>2, <1>3, <1>4
  <2>3. 0 \in 0..(n - 1) /\ \A j \in (0 + 1)..(n - 1) : ~Drops(t[j], x)
    BY <1>1, <2>2
  <2>4. There(t, on, x)
    BY <1>1, <2>1, <2>3 DEF There
  <2> QED
    BY <2>4 DEF t
<1>5. CASE i \notin {0, 1}
  <2>1. i - 1 \in 1..(n - 1) /\ t[i - 1] = s[i]
    BY <1>1, <1>5
  <2>2. Brings(t[i - 1], x)
    BY <1>2, <1>5, <2>1
  <2>3. \A j \in ((i - 1) + 1)..(n - 1) : ~Drops(t[j], x)
    BY <1>1, <1>2, <1>3, <2>1
  <2>4. There(t, on, x)
    BY <1>1, <2>1, <2>2, <2>3 DEF There
  <2> QED
    BY <2>4 DEF t
<1> QED
  BY <1>4, <1>5

\* What it says of the gate and the speed.
LEMMA ToldNew ==
  ASSUME NEW s \in Seq(DownFrame), NEW f \in DownFrame, NEW out, NEW g, NEW v, NEW now,
         (f.type = "TIME_SYNC" /\ f.arg = now) \/ (Told(s, out, g, v, now) /\ ~Moves(f))
  PROVE  Told(Append(s, f), out, g, v, now)
<1> DEFINE t == Append(s, f)
           m == Len(s) + 1
<1>1. Len(s) \in Nat /\ m \in Nat /\ t[m] = f /\ Len(t) = m /\ \A i \in 1..Len(s) : t[i] = s[i]
  BY QueueFacts, Appended
<1> HIDE DEF t
<1>2. CASE f.type = "TIME_SYNC" /\ f.arg = now
  <2>1. m \in 0..m /\ m # 0 /\ t[m].type = "TIME_SYNC" /\ t[m].arg = now /\ \A j \in (m + 1)..m : ~Moves(t[j])
    BY <1>1, <1>2
  <2> HIDE DEF m
  <2>2. Told(t, out, g, v, now)
    BY <1>1, <2>1 DEF Told
  <2> QED
    BY <2>2 DEF t
<1>3. CASE Told(s, out, g, v, now) /\ ~Moves(f)
  <2>2. PICK i \in 0..Len(s) :
          /\ IF i = 0 THEN g = now.gate /\ (v = now.speed \/ Publishes(out))
             ELSE s[i].type = "TIME_SYNC" /\ s[i].arg = now
          /\ \A j \in (i + 1)..Len(s) : ~Moves(s[j])
    BY <1>3 DEF Told
  <2>3. \A j \in (i + 1)..m : (j \in (i + 1)..Len(s) /\ t[j] = s[j]) \/ j = m
    BY <1>1
  <2>4. i \in 0..m /\ \A j \in (i + 1)..m : ~Moves(t[j])
    BY <1>1, <1>3, <2>2, <2>3
  <2>5. IF i = 0 THEN g = now.gate /\ (v = now.speed \/ Publishes(out))
        ELSE t[i].type = "TIME_SYNC" /\ t[i].arg = now
    BY <1>1, <2>2
  <2> HIDE DEF m
  <2>6. Told(t, out, g, v, now)
    BY <1>1, <2>4, <2>5 DEF Told
  <2> QED
    BY <2>6 DEF t
<1> QED
  BY <1>2, <1>3

LEMMA ToldTail ==
  ASSUME NEW s \in Seq(DownFrame), s # <<>>, NEW out, NEW g, NEW v, NEW h, NEW w, NEW now,
         Told(s, out, g, v, now),
         s[1].type = "TIME_SYNC" /\ s[1].arg = now => h = now.gate /\ w = now.speed,
         ~Moves(s[1]) => h = g /\ w = v
  PROVE  Told(Tail(s), out, h, w, now)
<1> DEFINE t == Tail(s)
           n == Len(s)
<1>1. n \in Nat /\ n > 0 /\ Len(t) = n - 1 /\ \A i \in 1..(n - 1) : t[i] = s[i + 1]
  BY Tailed
<1> HIDE DEF t
<1>2. PICK i \in 0..n : /\ IF i = 0 THEN g = now.gate /\ (v = now.speed \/ Publishes(out))
                           ELSE s[i].type = "TIME_SYNC" /\ s[i].arg = now
                        /\ \A j \in (i + 1)..n : ~Moves(s[j])
  BY DEF Told
<1>3. \A j \in 1..(n - 1) : j + 1 \in 1..n /\ t[j] = s[j + 1]
  BY <1>1
<1> HIDE DEF n
<1>4. CASE i \in {0, 1}
  <2>1. h = now.gate /\ (w = now.speed \/ Publishes(out))
    BY <1>1, <1>2, <1>4
  <2>2. \A j \in 1..(n - 1) : ~Moves(t[j])
    BY <1>1, <1>2, <1>3, <1>4
  <2>3. 0 \in 0..(n - 1) /\ \A j \in (0 + 1)..(n - 1) : ~Moves(t[j])
    BY <1>1, <2>2
  <2>4. Told(t, out, h, w, now)
    BY <1>1, <2>1, <2>3 DEF Told
  <2> QED
    BY <2>4 DEF t
<1>5. CASE i \notin {0, 1}
  <2>1. i - 1 \in 1..(n - 1) /\ t[i - 1] = s[i]
    BY <1>1, <1>5
  <2>2. t[i - 1].type = "TIME_SYNC" /\ t[i - 1].arg = now
    BY <1>2, <1>5, <2>1
  <2>3. \A j \in ((i - 1) + 1)..(n - 1) : ~Moves(t[j])
    BY <1>1, <1>2, <1>3, <2>1
  <2>4. Told(t, out, h, w, now)
    BY <1>1, <2>1, <2>2, <2>3 DEF Told
  <2> QED
    BY <2>4 DEF t
<1> QED
  BY <1>4, <1>5

LEMMA ToldOut ==
  ASSUME NEW s, NEW out, NEW more, NEW g, NEW v, NEW w, NEW now, Told(s, out, g, v, now),
         v = now.speed \/ Publishes(out) => w = now.speed \/ Publishes(more)
  PROVE  Told(s, more, g, w, now)
BY DEF Told

-----------------------------------------------------------------------------
\* The frames.
LEMMA DownTypes ==
  ASSUME NEW f \in DownFrame
  PROVE  /\ f.type \in {"WELCOME", "DEEP_RELAY", "ROOM_STATE", "PLAYER_JOINED", "PLAYER_LEFT", "TIME_SYNC"}
         /\ f.type \in {"WELCOME", "DEEP_RELAY"} => f.arg \in Speed
         /\ f.type \in {"ROOM_STATE", "PLAYER_JOINED", "PLAYER_LEFT"} => f.arg \in SUBSET Member
         /\ f.type = "TIME_SYNC" => /\ f.arg \in [gate : BOOLEAN, speed : Speed]
                                    /\ f.arg.gate \in BOOLEAN /\ f.arg.speed \in Speed
BY DEF DownFrame

LEMMA UpTypes ==
  ASSUME NEW f \in UpFrame
  PROVE  f.type \in {"HELLO", "TIME_READY", "TIME_SPEED", "DEEP_RELAY"} /\ f.arg \in Speed
BY DEF UpFrame

LEMMA Fields ==
  ASSUME NEW type, NEW arg
  PROVE  SpeedFrame(type, arg).type = type /\ SpeedFrame(type, arg).arg = arg
BY DEF SpeedFrame

LEMMA UpFrames ==
  ASSUME NEW s \in Speed
  PROVE  /\ SpeedFrame("HELLO", 0) \in UpFrame /\ SpeedFrame("TIME_READY", 0) \in UpFrame
         /\ SpeedFrame("TIME_SPEED", s) \in UpFrame /\ SpeedFrame("DEEP_RELAY", s) \in UpFrame
BY Constant DEF UpFrame, SpeedFrame

LEMMA DownFrames ==
  /\ SpeedFrame("WELCOME", 0) \in DownFrame
  /\ \A S \in SUBSET Member : /\ SpeedFrame("ROOM_STATE", S) \in DownFrame
                              /\ SpeedFrame("PLAYER_JOINED", S) \in DownFrame
                              /\ SpeedFrame("PLAYER_LEFT", S) \in DownFrame
  /\ \A s \in Speed : SpeedFrame("DEEP_RELAY", s) \in DownFrame
  /\ \A v \in [gate : BOOLEAN, speed : Speed] : SpeedFrame("TIME_SYNC", v) \in DownFrame
BY Constant DEF DownFrame, SpeedFrame

LEMMA NowTyped == pace \in Speed => /\ Now \in [gate : BOOLEAN, speed : Speed]
                                    /\ Now.gate = ~Open /\ Now.speed = IF Open THEN pace ELSE 0
BY Constant DEF Now

\* A client's queue to the server begins with its HELLO, which nothing follows.
LEMMA SilentMore ==
  ASSUME NEW s \in Seq(UpFrame), NEW f \in UpFrame, f.type # "HELLO"
  PROVE  /\ Silent(s) => Silent(Append(s, f))
         /\ Greets(s) => Greets(Append(s, f))
<1> DEFINE t == Append(s, f)
<1>1. /\ Len(s) \in Nat /\ DOMAIN s = 1..Len(s) /\ DOMAIN t = 1..(Len(s) + 1) /\ t # <<>>
      /\ \A i \in 1..Len(s) : t[i] = s[i]
      /\ t[Len(s) + 1] = f
      /\ s # <<>> => Len(s) > 0
  BY QueueFacts, Appended
<1> HIDE DEF t
<1>2. \A i \in DOMAIN t : (i \in DOMAIN s /\ t[i] = s[i]) \/ t[i] = f
  BY <1>1
<1>3. Silent(s) => Silent(t)
  BY <1>2 DEF Silent
<1>4. ASSUME Greets(s) PROVE Greets(t)
  <2>1. t[1] = s[1]
    BY <1>1, <1>4 DEF Greets
  <2> QED
    BY <1>1, <1>2, <1>4, <2>1 DEF Greets
<1> QED
  BY <1>3, <1>4 DEF t

LEMMA SilentLess ==
  ASSUME NEW s \in Seq(UpFrame), s # <<>>, Silent(s) \/ Greets(s)
  PROVE  Silent(Tail(s))
<1> DEFINE t == Tail(s)
<1>1. /\ Len(s) \in Nat /\ DOMAIN s = 1..Len(s) /\ DOMAIN t = 1..(Len(s) - 1)
      /\ \A i \in 1..(Len(s) - 1) : t[i] = s[i + 1]
  BY QueueFacts, Tailed
<1> HIDE DEF t
<1>2. \A i \in DOMAIN t : i + 1 \in DOMAIN s /\ i + 1 # 1 /\ t[i] = s[i + 1]
  BY <1>1
<1>3. Silent(t)
  BY <1>2 DEF Silent, Greets
<1> QED
  BY <1>3 DEF t

LEMMA Shortened ==
  ASSUME NEW s \in Seq(UpFrame), NEW n \in 0..Len(s)
  PROVE  /\ SubSeq(s, 1, n) \in Seq(UpFrame)
         /\ \A i \in DOMAIN SubSeq(s, 1, n) : i \in DOMAIN s /\ SubSeq(s, 1, n)[i] = s[i]
         /\ SubSeq(s, 1, n) # <<>> => s # <<>> /\ SubSeq(s, 1, n)[1] = s[1]
<1>1. Len(s) \in Nat /\ DOMAIN s = 1..Len(s) /\ \A i \in 1..Len(s) : s[i] \in UpFrame
  BY QueueFacts
<1>2. SubSeq(s, 1, n) = [i \in 1..n |-> s[i]] /\ \A i \in 1..n : i \in 1..Len(s)
  BY <1>1
<1>3. SubSeq(s, 1, n) \in Seq(UpFrame) /\ DOMAIN SubSeq(s, 1, n) = 1..n /\ Len(SubSeq(s, 1, n)) = n
  BY <1>1, <1>2
<1>4. ASSUME SubSeq(s, 1, n) # <<>> PROVE s # <<>> /\ SubSeq(s, 1, n)[1] = s[1]
  <2>1. n > 0
    BY <1>2, <1>3, <1>4
  <2> QED
    BY <1>1, <1>2, <2>1
<1> QED
  BY <1>2, <1>3, <1>4

-----------------------------------------------------------------------------
\* What the actions do, entry by entry.
LEMMA Sends ==
  ASSUME Wires, NEW p \in Member, NEW f \in UpFrame, outgoing' = [outgoing EXCEPT ![p] = Append(@, f)]
  PROVE  /\ outgoing' \in [Member -> Seq(UpFrame)] /\ outgoing[p] \in Seq(UpFrame)
         /\ outgoing'[p] = Append(outgoing[p], f) /\ \A q \in Member \ {p} : outgoing'[q] = outgoing[q]
<1>1. outgoing[p] \in Seq(UpFrame) /\ Append(outgoing[p], f) \in Seq(UpFrame)
  BY Appended DEF Wires
<1> QED
  BY <1>1 DEF Wires

LEMMA Handles ==
  ASSUME Base, NEW p \in Member, NEW type, Handle(p, type)
  PROVE  /\ handler[p] = "idle"
         /\ outgoing[p] \in Seq(UpFrame) /\ outgoing[p] # <<>> /\ Len(outgoing[p]) \in Nat
         /\ DOMAIN outgoing[p] = 1..Len(outgoing[p]) /\ 1 \in DOMAIN outgoing[p]
         /\ Head(outgoing[p]) = outgoing[p][1] /\ outgoing[p][1] \in UpFrame
         /\ outgoing[p][1].type = type
         /\ outgoing' \in [Member -> Seq(UpFrame)] /\ outgoing'[p] = Tail(outgoing[p])
         /\ \A q \in Member \ {p} : outgoing'[q] = outgoing[q]
         /\ UNCHANGED <<connected, gate, known, reported, speed, local, opened, echo, acts, chosen, hasty>>
         /\ type # "HELLO" => p \in online
         /\ type = "HELLO" => p \notin online
         /\ Silent(outgoing'[p])
<1>1. /\ handler[p] = "idle" /\ outgoing[p] # <<>> /\ Head(outgoing[p]).type = type
      /\ outgoing' = [outgoing EXCEPT ![p] = Tail(@)]
      /\ UNCHANGED <<connected, gate, known, reported, speed, local, opened, echo, acts, chosen, hasty>>
  BY DEF Handle, speedClient
<1>2. outgoing \in [Member -> Seq(UpFrame)] /\ outgoing[p] \in Seq(UpFrame) /\ ConnOf(p)
  BY DEF Base, Wires, Conns
<1>3. /\ Len(outgoing[p]) \in Nat /\ DOMAIN outgoing[p] = 1..Len(outgoing[p]) /\ 1 \in DOMAIN outgoing[p]
      /\ Head(outgoing[p]) = outgoing[p][1] /\ outgoing[p][1] \in UpFrame
  BY <1>1, <1>2, QueueFacts
<1>4. Tail(outgoing[p]) \in Seq(UpFrame)
  BY <1>1, <1>2, Tailed
<1>5. /\ outgoing' \in [Member -> Seq(UpFrame)] /\ outgoing'[p] = Tail(outgoing[p])
      /\ \A q \in Member \ {p} : outgoing'[q] = outgoing[q]
  BY <1>1, <1>2, <1>4
<1>6. Silent(outgoing[p]) \/ Greets(outgoing[p])
  BY <1>1, <1>2 DEF ConnOf
<1>7. (type # "HELLO" => p \in online) /\ (type = "HELLO" => p \notin online)
  BY <1>1, <1>2, <1>3 DEF ConnOf, Silent, Greets
<1>8. Silent(outgoing'[p])
  BY <1>1, <1>2, <1>5, <1>6, SilentLess
<1> QED
  BY <1>1, <1>2, <1>3, <1>5, <1>7, <1>8

\* A frame to everybody of a set.
LEMMA Posts ==
  ASSUME incoming \in [Member -> Seq(DownFrame)], NEW S \in SUBSET Member, NEW f \in DownFrame,
         incoming' = [q \in Member |-> IF q \in S THEN Append(incoming[q], f) ELSE incoming[q]]
  PROVE  /\ incoming' \in [Member -> Seq(DownFrame)]
         /\ \A q \in S : incoming'[q] = Append(incoming[q], f)
         /\ \A q \in Member \ S : incoming'[q] = incoming[q]
<1>1. \A q \in Member : Append(incoming[q], f) \in Seq(DownFrame)
  BY Appended
<1> QED
  BY <1>1

\* The three handlers that end in sync_clock.
Syncs(p) == Finish(p) \/ HandleReady(p) \/ HandleSpeed(p)

LEMMA Announces ==
  ASSUME Base, NEW p \in Member, Syncs(p)
  PROVE  /\ UNCHANGED <<online, connected, gate, known, reported, speed, local, opened, echo, acts, chosen,
                        hasty>>
         /\ primed' \subseteq online /\ pace' \in Speed
         /\ SpeedFrame("TIME_SYNC", Now') \in DownFrame
         /\ incoming' \in [Member -> Seq(DownFrame)]
         /\ \A q \in online : incoming'[q] = Append(incoming[q], SpeedFrame("TIME_SYNC", Now'))
         /\ \A q \in Member \ online : incoming'[q] = incoming[q]
         /\ \A x \in Member \ {p} : handler'[x] = handler[x] /\ outgoing'[x] = outgoing[x]
         /\ handler' \in [Member -> {"idle", "hello", "leave"}]
         /\ outgoing' \in [Member -> Seq(UpFrame)]
<1>1. incoming' = [q \in Member |-> IF q \in online' THEN Append(incoming[q], SpeedFrame("TIME_SYNC", Now'))
                                    ELSE incoming[q]]
  BY DEF Syncs, Finish, HandleReady, HandleSpeed, SyncClock, TimeSync, GateOpen, Now, Open
<1>2. /\ Plain /\ Wires /\ primed \subseteq online /\ online \subseteq Member
      /\ handler \in [Member -> {"idle", "hello", "leave"}]
  BY DEF Base, Conns, Plain
<1>3. /\ UNCHANGED <<online, connected, gate, known, reported, speed, local, opened, echo, acts, chosen, hasty>>
      /\ primed' \subseteq online /\ pace' \in Speed
      /\ \A x \in Member \ {p} : handler'[x] = handler[x] /\ outgoing'[x] = outgoing[x]
      /\ handler' \in [Member -> {"idle", "hello", "leave"}]
      /\ outgoing' \in [Member -> Seq(UpFrame)]
  <2>1. CASE Finish(p)
    BY <1>2, <2>1 DEF Finish, speedClient, Plain, Wires
  <2>2. CASE HandleReady(p)
    <3>1. Handle(p, "TIME_READY")
      BY <2>2 DEF HandleReady
    <3>2. UNCHANGED <<online, pace, handler>> /\ primed' = primed \cup {p}
      BY <2>2 DEF HandleReady
    <3> QED
      BY <1>2, <3>1, <3>2, Handles DEF Plain
  <2>3. CASE HandleSpeed(p)
    <3>1. Handle(p, "TIME_SPEED")
      BY <2>3 DEF HandleSpeed
    <3>2. UNCHANGED <<online, primed, handler>> /\ pace' = Head(outgoing[p]).arg
      BY <2>3 DEF HandleSpeed
    <3>3. pace' \in Speed
      BY <3>1, <3>2, Handles, UpTypes
    <3> QED
      BY <1>2, <3>1, <3>2, <3>3, Handles DEF Plain
  <2> QED
    BY <2>1, <2>2, <2>3 DEF Syncs
<1>4. Now' \in [gate : BOOLEAN, speed : Speed]
  BY <1>3, Constant DEF Now
<1>5. SpeedFrame("TIME_SYNC", Now') \in DownFrame
  BY <1>4, DownFrames
<1> DEFINE f == SpeedFrame("TIME_SYNC", Now')
<1>6. f \in DownFrame /\ incoming' = [q \in Member |-> IF q \in online THEN Append(incoming[q], f) ELSE incoming[q]]
  BY <1>1, <1>3, <1>5
<1>7. incoming \in [Member -> Seq(DownFrame)] /\ online \in SUBSET Member
  BY <1>2 DEF Wires
<1> HIDE DEF f
<1>8. /\ incoming' \in [Member -> Seq(DownFrame)]
      /\ \A q \in online : incoming'[q] = Append(incoming[q], f)
      /\ \A q \in Member \ online : incoming'[q] = incoming[q]
  BY <1>6, <1>7, Posts
<1> QED
  BY <1>3, <1>5, <1>8 DEF f

LEMMA Greeted ==
  ASSUME Base, NEW p \in Member, HandleHello(p)
  PROVE  /\ p \notin online /\ online' = online \cup {p} /\ UNCHANGED <<primed, pace>> /\ p \notin primed
         /\ UNCHANGED <<connected, gate, known, reported, speed, local, opened, echo, acts, chosen, hasty>>
         /\ handler' = [handler EXCEPT ![p] = "hello"] /\ handler[p] = "idle"
         /\ incoming' \in [Member -> Seq(DownFrame)]
         /\ incoming'[p] = <<SpeedFrame("WELCOME", 0), SpeedFrame("ROOM_STATE", online \cup {p})>>
         /\ \A q \in online : incoming'[q] = Append(incoming[q], SpeedFrame("PLAYER_JOINED", {p}))
         /\ \A q \in Member : q # p /\ q \notin online => incoming'[q] = incoming[q]
<1>1. Handle(p, "HELLO")
  BY DEF HandleHello
<1>2. /\ Plain /\ Wires /\ primed \subseteq online /\ online \subseteq Member
  BY DEF Base, Conns, Plain
<1>3. /\ p \notin online /\ online' = online \cup {p} /\ UNCHANGED <<primed, pace>> /\ p \notin primed
      /\ UNCHANGED <<connected, gate, known, reported, speed, local, opened, echo, acts, chosen, hasty>>
      /\ handler' = [handler EXCEPT ![p] = "hello"] /\ handler[p] = "idle"
  <2>1. online' = online \cup {p} /\ handler' = [handler EXCEPT ![p] = "hello"] /\ UNCHANGED <<primed, pace>>
    BY DEF HandleHello
  <2>2. /\ p \notin online /\ handler[p] = "idle"
        /\ UNCHANGED <<connected, gate, known, reported, speed, local, opened, echo, acts, chosen, hasty>>
    BY <1>1, Handles
  <2> QED
    BY <1>2, <2>1, <2>2
<1> DEFINE f == SpeedFrame("WELCOME", 0)
           r == SpeedFrame("ROOM_STATE", online \cup {p})
           j == SpeedFrame("PLAYER_JOINED", {p})
<1>4. f \in DownFrame /\ r \in DownFrame /\ j \in DownFrame
  BY <1>2, DownFrames
<1>5. incoming' = [q \in Member |-> IF q = p THEN <<f, r>>
                                    ELSE IF q \in online THEN Append(incoming[q], j) ELSE incoming[q]]
  BY <1>3 DEF HandleHello
<1> HIDE DEF f, r, j
<1>6. <<f, r>> \in Seq(DownFrame) /\ \A q \in Member : Append(incoming[q], j) \in Seq(DownFrame)
  BY <1>2, <1>4, Appended DEF Wires
<1>7. /\ incoming' \in [Member -> Seq(DownFrame)] /\ incoming'[p] = <<f, r>>
      /\ \A q \in online : incoming'[q] = Append(incoming[q], j)
      /\ \A q \in Member : q # p /\ q \notin online => incoming'[q] = incoming[q]
  BY <1>2, <1>3, <1>5, <1>6 DEF Wires
<1> QED
  BY <1>3, <1>7 DEF f, r, j

LEMMA Departs ==
  ASSUME Base, NEW p \in Member, Leave(p)
  PROVE  /\ p \in online /\ p \notin connected /\ online' = online \ {p} /\ primed' = primed \ {p}
         /\ UNCHANGED <<pace, outgoing>>
         /\ UNCHANGED <<connected, gate, known, reported, speed, local, opened, echo, acts, chosen, hasty>>
         /\ handler' = [handler EXCEPT ![p] = "leave"] /\ handler[p] = "idle" /\ outgoing[p] = <<>>
         /\ incoming' \in [Member -> Seq(DownFrame)]
         /\ \A q \in online \ {p} : incoming'[q] = Append(incoming[q], SpeedFrame("PLAYER_LEFT", {p}))
         /\ \A q \in Member \ (online \ {p}) : incoming'[q] = incoming[q]
<1>1. /\ p \in online /\ p \notin connected /\ online' = online \ {p} /\ primed' = primed \ {p}
      /\ UNCHANGED <<pace, outgoing>>
      /\ UNCHANGED <<connected, gate, known, reported, speed, local, opened, echo, acts, chosen, hasty>>
      /\ handler' = [handler EXCEPT ![p] = "leave"] /\ handler[p] = "idle" /\ outgoing[p] = <<>>
  BY DEF Leave, speedClient
<1> DEFINE f == SpeedFrame("PLAYER_LEFT", {p})
           S == online \ {p}
<1>2. f \in DownFrame /\ S \in SUBSET Member /\ incoming \in [Member -> Seq(DownFrame)]
  BY DownFrames DEF Base, Plain, Wires
<1>3. incoming' = [q \in Member |-> IF q \in S THEN Append(incoming[q], f) ELSE incoming[q]]
  BY DEF Leave
<1> HIDE DEF f, S
<1>4. /\ incoming' \in [Member -> Seq(DownFrame)]
      /\ \A q \in S : incoming'[q] = Append(incoming[q], f)
      /\ \A q \in Member \ S : incoming'[q] = incoming[q]
  BY <1>2, <1>3, Posts
<1> QED
  BY <1>1, <1>4 DEF f, S

LEMMA Forwards ==
  ASSUME Base, NEW p \in Member, DeepRelay(p)
  PROVE  /\ UNCHANGED <<online, primed, pace, handler>>
         /\ UNCHANGED <<connected, gate, known, reported, speed, local, opened, echo, acts, chosen, hasty>>
         /\ Handle(p, "DEEP_RELAY")
         /\ outgoing[p][1].type = "DEEP_RELAY" /\ outgoing[p][1].arg \in Speed
         /\ outgoing[p][1] \in DownFrame
         /\ incoming' \in [Member -> Seq(DownFrame)]
         /\ \A q \in Member : incoming'[q] \in {incoming[q], Append(incoming[q], outgoing[p][1])}
         /\ \A q \in Member \ online : incoming'[q] = incoming[q]
<1>1. Handle(p, "DEEP_RELAY") /\ UNCHANGED <<online, primed, pace, handler>>
  BY DEF DeepRelay, speedServer
<1>2. /\ UNCHANGED <<connected, gate, known, reported, speed, local, opened, echo, acts, chosen, hasty>>
      /\ Head(outgoing[p]) = outgoing[p][1] /\ outgoing[p][1] \in UpFrame
      /\ outgoing[p][1].type = "DEEP_RELAY"
  BY <1>1, Handles
<1>3. outgoing[p][1].arg \in Speed
  BY <1>2, UpTypes
<1> DEFINE f == outgoing[p][1]
           S == {Host} \cap online
<1>4. f \in DownFrame
  BY <1>2, <1>3 DEF UpFrame, DownFrame
<1>5. S \in SUBSET Member /\ incoming \in [Member -> Seq(DownFrame)]
  BY DEF Base, Plain, Wires
<1>6. incoming' = [q \in Member |-> IF q \in S THEN Append(incoming[q], f) ELSE incoming[q]]
  BY <1>2 DEF DeepRelay
<1> HIDE DEF f
<1>7. /\ incoming' \in [Member -> Seq(DownFrame)]
      /\ \A q \in S : incoming'[q] = Append(incoming[q], f)
      /\ \A q \in Member \ S : incoming'[q] = incoming[q]
  BY <1>4, <1>5, <1>6, Posts
<1> QED
  BY <1>1, <1>2, <1>3, <1>4, <1>7 DEF f

LEMMA ReadsNext ==
  ASSUME Base, NEW p \in Member, NEW types, Read(p, types)
  PROVE  /\ p \in connected /\ p \in online
         /\ incoming[p] \in Seq(DownFrame) /\ incoming[p] # <<>> /\ Len(incoming[p]) \in Nat
         /\ DOMAIN incoming[p] = 1..Len(incoming[p]) /\ Len(incoming[p]) > 0
         /\ Head(incoming[p]) = incoming[p][1] /\ incoming[p][1] \in DownFrame
         /\ incoming[p][1].type \in types
         /\ incoming' \in [Member -> Seq(DownFrame)] /\ incoming'[p] = Tail(incoming[p])
         /\ \A q \in Member \ {p} : incoming'[q] = incoming[q]
         /\ UNCHANGED <<online, primed, pace, handler, outgoing, connected, echo, acts, chosen, hasty>>
<1>1. /\ p \in connected /\ incoming[p] # <<>> /\ Head(incoming[p]).type \in types
      /\ incoming' = [incoming EXCEPT ![p] = Tail(@)]
      /\ UNCHANGED <<online, primed, pace, handler, outgoing, connected, echo, acts, chosen, hasty>>
  BY DEF Read, speedServer
<1>2. incoming \in [Member -> Seq(DownFrame)] /\ incoming[p] \in Seq(DownFrame) /\ ConnOf(p)
  BY DEF Base, Wires, Conns
<1>3. p \in online
  BY <1>1, <1>2 DEF ConnOf
<1>4. /\ Len(incoming[p]) \in Nat /\ DOMAIN incoming[p] = 1..Len(incoming[p]) /\ Len(incoming[p]) > 0
      /\ Head(incoming[p]) = incoming[p][1] /\ incoming[p][1] \in DownFrame
  BY <1>1, <1>2, QueueFacts
<1>5. Tail(incoming[p]) \in Seq(DownFrame)
  BY <1>1, <1>2, Tailed
<1>6. /\ incoming' \in [Member -> Seq(DownFrame)] /\ incoming'[p] = Tail(incoming[p])
      /\ \A q \in Member \ {p} : incoming'[q] = incoming[q]
  BY <1>1, <1>2, <1>5
<1> QED
  BY <1>1, <1>2, <1>3, <1>4, <1>6

\* What a client does without the server: it says at most one thing.
Alone(p) ==
  \/ TickHolds(p) \/ TickPlays(p) \/ TickReports(p) \/ OpenedEnds(p) \/ EchoEnds(p)
  \/ \E s \in Speed : PickInGame(p, s) \/ PickByCommand(p, s)

Says(p, f) ==
  /\ p \in connected /\ f.type # "HELLO"
  /\ outgoing'[p] = Append(outgoing[p], f)
  /\ speed'[p] = speed[p] \/ f.type = "TIME_SPEED"
  /\ reported' = reported \/ f.type = "TIME_READY"

SaysLittle(p) ==
  /\ UNCHANGED <<online, primed, pace, handler, incoming, connected, gate, known>>
  /\ outgoing' \in [Member -> Seq(UpFrame)]
  /\ \A q \in Member \ {p} : outgoing'[q] = outgoing[q] /\ speed'[q] = speed[q]
  /\ reported \subseteq reported' /\ reported' \subseteq reported \cup {p}
  /\ \/ UNCHANGED <<outgoing, reported>> /\ speed'[p] = speed[p]
     \/ \E f \in UpFrame : Says(p, f)

LEMMA SaysOnce ==
  ASSUME Base, NEW p \in Member, NEW f \in UpFrame, outgoing' = [outgoing EXCEPT ![p] = Append(@, f)],
         p \in connected, f.type # "HELLO", speed'[p] = speed[p] \/ f.type = "TIME_SPEED",
         reported' = reported \/ f.type = "TIME_READY"
  PROVE  /\ outgoing' \in [Member -> Seq(UpFrame)] /\ \A q \in Member \ {p} : outgoing'[q] = outgoing[q]
         /\ Says(p, f)
BY Sends DEF Base, Says

LEMMA AloneSteps ==
  ASSUME Base, NEW p \in Member, Alone(p)
  PROVE  Plain' /\ SaysLittle(p)
<1> DEFINE ready == SpeedFrame("TIME_READY", 0)
<1>0. ready \in UpFrame /\ ready.type = "TIME_READY"
  BY UpFrames, Fields, Constant
<1>p. Plain /\ Wires
  BY DEF Base
<1>z. 0 \in Speed
  BY Constant
<1> HIDE DEF ready
<1>1. CASE TickHolds(p)
  <2>1. /\ UNCHANGED <<online, primed, pace, handler, incoming, connected, gate, known, speed, opened,
                        echo, acts, chosen, hasty>>
        /\ local' = [local EXCEPT ![p] = 0] /\ reported' = reported \cup ({p} \cap connected)
    BY <1>1 DEF TickHolds, speedServer
  <2>2. Plain'
    BY <1>p, <1>z, <2>1 DEF Plain
  <2>3. CASE p \in connected \ reported
    <3>1. outgoing' = [outgoing EXCEPT ![p] = Append(@, ready)]
      BY <1>1, <2>3 DEF TickHolds, ready
    <3> QED
      BY <1>0, <2>1, <2>2, <2>3, <3>1, SaysOnce DEF SaysLittle
  <2>4. CASE p \notin connected \ reported
    <3>1. outgoing' = outgoing /\ reported' = reported
      BY <1>1, <2>1, <2>4 DEF TickHolds
    <3> QED
      BY <1>p, <2>1, <2>2, <3>1 DEF Wires, SaysLittle
  <2> QED
    BY <2>3, <2>4
<1>2. CASE TickPlays(p)
  <2>1. /\ UNCHANGED <<online, primed, pace, handler, incoming, connected, gate, known, reported, opened,
                        acts, chosen>>
        /\ p \in connected
    BY <1>2 DEF TickPlays, speedServer, Held
  <2>2. CASE local' = [local EXCEPT ![p] = speed[p]] /\ UNCHANGED <<outgoing, speed, echo, hasty>>
    <3>1. Plain'
      BY <1>p, <2>1, <2>2 DEF Plain
    <3> QED
      BY <1>p, <2>1, <2>2, <3>1 DEF Wires, SaysLittle
  <2>3. CASE /\ outgoing' = Publish(p, local[p]) /\ speed' = [speed EXCEPT ![p] = local[p]]
             /\ echo' = echo \cup {p} /\ hasty' = (IF Welcomed(p) THEN hasty ELSE hasty \cup {p})
             /\ UNCHANGED local
    <3>1. Plain'
      BY <1>p, <2>1, <2>3 DEF Plain
    <3>2. local[p] \in Speed /\ \A q \in Member \ {p} : speed'[q] = speed[q]
      BY <1>p, <2>3 DEF Plain
    <3> DEFINE f == SpeedFrame("TIME_SPEED", local[p])
    <3>3. f \in UpFrame /\ f.type = "TIME_SPEED" /\ outgoing' = [outgoing EXCEPT ![p] = Append(@, f)]
      BY <2>3, <3>2, UpFrames, Fields DEF Publish
    <3> HIDE DEF f
    <3> QED
      BY <2>1, <3>1, <3>2, <3>3, SaysOnce DEF SaysLittle
  <2> QED
    BY <1>2, <2>2, <2>3 DEF TickPlays
<1>3. CASE TickReports(p)
  <2>1. /\ UNCHANGED <<online, primed, pace, handler, incoming, connected, gate, known, speed, local,
                        opened, echo, acts, chosen, hasty>>
        /\ p \in connected /\ reported' = reported \cup {p}
        /\ outgoing' = [outgoing EXCEPT ![p] = Append(@, ready)]
    BY <1>3 DEF TickReports, speedServer, Held, ready
  <2>2. Plain'
    BY <1>p, <2>1 DEF Plain
  <2> QED
    BY <1>0, <2>1, <2>2, SaysOnce DEF SaysLittle
<1>4. CASE OpenedEnds(p) \/ EchoEnds(p)
  <2>1. /\ UNCHANGED <<online, primed, pace, handler, incoming, connected, gate, known, speed, local,
                        outgoing, reported, acts, chosen, hasty>>
        /\ opened' \subseteq opened /\ echo' \subseteq echo
    BY <1>4 DEF OpenedEnds, EchoEnds, speedServer
  <2>2. Plain'
    BY <1>p, <2>1 DEF Plain
  <2> QED
    BY <1>p, <2>1, <2>2 DEF Wires, SaysLittle
<1>5. ASSUME NEW s \in Speed, PickInGame(p, s) PROVE Plain' /\ SaysLittle(p)
  <2>1. /\ UNCHANGED <<online, primed, pace, handler, incoming, connected, gate, known, reported, speed,
                        opened, echo, hasty>>
        /\ local' = [local EXCEPT ![p] = s] /\ chosen' = chosen \cup {s} /\ acts < MaxActs /\ acts' = acts + 1
    BY <1>5 DEF PickInGame, Pick, Act, speedServer
  <2>2. Plain'
    BY <1>p, <2>1, Constant DEF Plain
  <2>3. CASE p \in connected \ {Host}
    <3> DEFINE f == SpeedFrame("DEEP_RELAY", s)
    <3>1. f \in UpFrame /\ f.type = "DEEP_RELAY" /\ outgoing' = [outgoing EXCEPT ![p] = Append(@, f)]
      BY <1>5, <2>3, UpFrames, Fields DEF PickInGame
    <3> HIDE DEF f
    <3> QED
      BY <2>1, <2>2, <2>3, <3>1, SaysOnce DEF SaysLittle
  <2>4. CASE p \notin connected \ {Host}
    <3>1. outgoing' = outgoing
      BY <1>5, <2>4 DEF PickInGame
    <3> QED
      BY <1>p, <2>1, <2>2, <3>1 DEF Wires, SaysLittle
  <2> QED
    BY <2>3, <2>4
<1>6. ASSUME NEW s \in Speed, PickByCommand(p, s) PROVE Plain' /\ SaysLittle(p)
  <2>1. /\ UNCHANGED <<online, primed, pace, handler, incoming, connected, gate, known, reported,
                        opened, hasty>>
        /\ p \in connected /\ chosen' = chosen \cup {s} /\ acts < MaxActs /\ acts' = acts + 1
        /\ speed' = [speed EXCEPT ![p] = s]
    BY <1>6 DEF PickByCommand, Pick, Act, speedServer
  <2>2. local' \in {local, [local EXCEPT ![p] = s]} /\ echo' \in {echo, echo \cup {p}}
    BY <1>6 DEF PickByCommand
  <2>3. local' \in [Member -> Speed] /\ echo' \subseteq Member /\ speed' \in [Member -> Speed]
    BY <1>p, <2>1, <2>2 DEF Plain
  <2>4. Plain'
    BY <1>p, <2>1, <2>3, Constant DEF Plain
  <2>5. \A q \in Member \ {p} : speed'[q] = speed[q]
    BY <1>p, <2>1 DEF Plain
  <2> DEFINE f == SpeedFrame("TIME_SPEED", s)
  <2>6. f \in UpFrame /\ f.type = "TIME_SPEED" /\ outgoing' = [outgoing EXCEPT ![p] = Append(@, f)]
    BY <1>6, UpFrames, Fields DEF PickByCommand, Publish
  <2> HIDE DEF f
  <2> QED
    BY <2>1, <2>4, <2>5, <2>6, SaysOnce DEF SaysLittle
<1> QED
  BY <1>1, <1>2, <1>3, <1>4, <1>5, <1>6 DEF Alone
LEMMA Dials ==
  ASSUME Base, NEW p \in Member, Dial(p)
  PROVE  /\ p \notin connected /\ p \notin online /\ connected' = connected \cup {p}
         /\ UNCHANGED <<online, primed, pace, handler, gate, known, reported, speed, local, opened, echo,
                        acts, chosen, hasty>>
         /\ outgoing' \in [Member -> Seq(UpFrame)] /\ incoming' \in [Member -> Seq(DownFrame)]
         /\ outgoing'[p] = <<SpeedFrame("HELLO", 0)>> /\ incoming'[p] = <<>>
         /\ \A q \in Member \ {p} : outgoing'[q] = outgoing[q] /\ incoming'[q] = incoming[q]
<1>1. /\ p \notin connected /\ p \notin online /\ connected' = connected \cup {p}
      /\ UNCHANGED <<online, primed, pace, handler, gate, known, reported, speed, local, opened, echo,
                     acts, chosen, hasty>>
      /\ outgoing' = [outgoing EXCEPT ![p] = <<SpeedFrame("HELLO", 0)>>]
      /\ incoming' = [incoming EXCEPT ![p] = <<>>]
  BY DEF Dial, speedServer
<1>2. <<SpeedFrame("HELLO", 0)>> \in Seq(UpFrame) /\ <<>> \in Seq(DownFrame)
  BY UpFrames, Constant
<1> QED
  BY <1>1, <1>2 DEF Base, Wires

LEMMA Breaks ==
  ASSUME Base, NEW p \in Member, Break(p)
  PROVE  /\ p \in connected /\ connected' = connected \ {p} /\ acts < MaxActs /\ acts' = acts + 1
         /\ UNCHANGED <<online, primed, pace, handler, gate, known, reported, speed, local, opened, echo,
                        chosen, hasty>>
         /\ outgoing' \in [Member -> Seq(UpFrame)] /\ incoming' \in [Member -> Seq(DownFrame)]
         /\ incoming'[p] = <<>>
         /\ \A i \in DOMAIN outgoing'[p] : i \in DOMAIN outgoing[p] /\ outgoing'[p][i] = outgoing[p][i]
         /\ outgoing'[p] # <<>> => outgoing[p] # <<>> /\ outgoing'[p][1] = outgoing[p][1]
         /\ \A q \in Member \ {p} : outgoing'[q] = outgoing[q] /\ incoming'[q] = incoming[q]
<1>1. /\ p \in connected /\ connected' = connected \ {p} /\ acts < MaxActs /\ acts' = acts + 1
      /\ UNCHANGED <<online, primed, pace, handler, gate, known, reported, speed, local, opened, echo,
                     chosen, hasty>>
      /\ incoming' = [incoming EXCEPT ![p] = <<>>]
  BY DEF Break, Act, speedServer
<1>2. PICK n \in 0..Len(outgoing[p]) : outgoing' = [outgoing EXCEPT ![p] = SubSeq(@, 1, n)]
  BY DEF Break
<1>3. outgoing \in [Member -> Seq(UpFrame)] /\ outgoing[p] \in Seq(UpFrame)
  BY DEF Base, Wires
<1> DEFINE t == SubSeq(outgoing[p], 1, n)
<1>4. /\ t \in Seq(UpFrame)
      /\ \A i \in DOMAIN t : i \in DOMAIN outgoing[p] /\ t[i] = outgoing[p][i]
      /\ t # <<>> => outgoing[p] # <<>> /\ t[1] = outgoing[p][1]
  BY <1>3, Shortened
<1>5. outgoing' = [outgoing EXCEPT ![p] = t]
  BY <1>2
<1> HIDE DEF t
<1>6. outgoing'[p] = t /\ \A q \in Member \ {p} : outgoing'[q] = outgoing[q]
  BY <1>3, <1>5
<1>7. outgoing' \in [Member -> Seq(UpFrame)]
  BY <1>3, <1>4, <1>5
<1>8. /\ incoming' \in [Member -> Seq(DownFrame)] /\ incoming'[p] = <<>>
      /\ \A q \in Member \ {p} : incoming'[q] = incoming[q]
  BY <1>1 DEF Base, Wires
<1>9. /\ \A i \in DOMAIN outgoing'[p] : i \in DOMAIN outgoing[p] /\ outgoing'[p][i] = outgoing[p][i]
      /\ outgoing'[p] # <<>> => outgoing[p] # <<>> /\ outgoing'[p][1] = outgoing[p][1]
  BY <1>4, <1>6
<1> QED
  BY <1>1, <1>6, <1>7, <1>8, <1>9

LEMMA ReadTypes ==
  ASSUME Base, NEW p \in Member, Reads(p)
  PROVE  Plain' /\ \E types : Read(p, types)
<1>1. Plain
  BY DEF Base
<1>2. CASE ReadWelcome(p)
  <2>1. /\ Read(p, {"WELCOME"}) /\ gate' = [gate EXCEPT ![p] = TRUE] /\ reported' = reported \ {p}
        /\ UNCHANGED <<known, speed, local, opened>>
    BY <1>2 DEF ReadWelcome, WelcomeGate
  <2>2. UNCHANGED <<online, primed, pace, handler, connected, echo, acts, chosen, hasty>>
    BY <2>1, ReadsNext
  <2> QED
    BY <1>1, <2>1, <2>2 DEF Plain
<1>3. CASE ReadRoster(p)
  <2> DEFINE f == Head(incoming[p])
             in == CASE f.type = "ROOM_STATE" -> f.arg
                     [] f.type = "PLAYER_JOINED" -> known[p] \cup f.arg
                     [] f.type = "PLAYER_LEFT" -> known[p] \ f.arg
  <2>1. /\ Read(p, {"ROOM_STATE", "PLAYER_JOINED", "PLAYER_LEFT"})
        /\ known' = [known EXCEPT ![p] = in]
        /\ UNCHANGED <<gate, reported, speed, local, opened>>
    BY <1>3 DEF ReadRoster
  <2>2. /\ UNCHANGED <<online, primed, pace, handler, connected, echo, acts, chosen, hasty>>
        /\ f \in DownFrame /\ f.type \in {"ROOM_STATE", "PLAYER_JOINED", "PLAYER_LEFT"}
    BY <2>1, ReadsNext
  <2>3. f.arg \in SUBSET Member /\ known[p] \in SUBSET Member
    BY <1>1, <2>2, DownTypes DEF Plain
  <2>4. in \in SUBSET Member
    BY <2>2, <2>3
  <2> HIDE DEF in
  <2>5. known' \in [Member -> SUBSET Member]
    BY <1>1, <2>1, <2>4 DEF Plain
  <2> QED
    BY <1>1, <2>1, <2>2, <2>5 DEF Plain
<1>4. CASE ReadTimeSync(p)
  <2> DEFINE f == Head(incoming[p]).arg
             hold == f.gate \/ Short(p, known[p])
  <2>1. /\ Read(p, {"TIME_SYNC"})
        /\ speed' = [speed EXCEPT ![p] = f.speed]
        /\ gate' = [gate EXCEPT ![p] = f.gate]
        /\ local' = [local EXCEPT ![p] = IF hold THEN 0 ELSE speed'[p]]
        /\ opened' \subseteq opened \cup {p}
        /\ UNCHANGED <<known, reported>>
    BY <1>4 DEF ReadTimeSync, Obeyed
  <2>2. /\ UNCHANGED <<online, primed, pace, handler, connected, echo, acts, chosen, hasty>>
        /\ f.gate \in BOOLEAN /\ f.speed \in Speed
    BY <2>1, ReadsNext, DownTypes
  <2>3. speed' \in [Member -> Speed] /\ speed'[p] \in Speed /\ gate' \in [Member -> BOOLEAN]
    BY <1>1, <2>1, <2>2 DEF Plain
  <2>4. (IF hold THEN 0 ELSE speed'[p]) \in Speed
    BY <2>3, Constant
  <2> HIDE DEF hold
  <2>5. local' \in [Member -> Speed]
    BY <1>1, <2>1, <2>4 DEF Plain
  <2> QED
    BY <1>1, <2>1, <2>2, <2>3, <2>5 DEF Plain
<1>5. CASE ReadRelay(p)
  <2>1. /\ Read(p, {"DEEP_RELAY"})
        /\ local' = [local EXCEPT ![p] = Head(incoming[p]).arg]
        /\ UNCHANGED <<gate, known, reported, speed, opened>>
    BY <1>5 DEF ReadRelay
  <2>2. /\ UNCHANGED <<online, primed, pace, handler, connected, echo, acts, chosen, hasty>>
        /\ Head(incoming[p]).arg \in Speed
    BY <2>1, ReadsNext, DownTypes
  <2> QED
    BY <1>1, <2>1, <2>2 DEF Plain
<1> QED
  BY <1>2, <1>3, <1>4, <1>5 DEF Reads

-----------------------------------------------------------------------------
\* Types and connections.
LEMMA BaseInit == SpeedInit => Base
<1> SUFFICES ASSUME SpeedInit PROVE Base
  OBVIOUS
<1>1. Plain
  BY Constant DEF SpeedInit, Plain
<1>2. Wires
  BY DEF SpeedInit, Wires
<1>3. primed \subseteq online
  BY DEF SpeedInit
<1>4. ASSUME NEW p \in Member PROVE ConnOf(p)
  <2>1. handler[p] = "idle" /\ outgoing[p] = <<>> /\ p \in online
    BY DEF SpeedInit
  <2>2. Silent(<<>>)
    BY DEF Silent
  <2> QED
    BY <2>1, <2>2 DEF ConnOf
<1> QED
  BY <1>1, <1>2, <1>3, <1>4 DEF Base, Conns

\* Whose connection an action of p leaves alone.
LEMMA ConnKept ==
  ASSUME NEW q, ConnOf(q), handler'[q] = handler[q], outgoing'[q] = outgoing[q],
         q \in online' <=> q \in online, q \in connected' <=> q \in connected,
         q \in primed' => q \in primed, incoming'[q] = incoming[q] \/ q \in online
  PROVE  ConnOf(q)'
BY DEF ConnOf

LEMMA ServeBase ==
  ASSUME Base, NEW p \in Member, Serve(p)
  PROVE  Base'
<1>0. Plain /\ Wires /\ primed \subseteq online /\ \A q \in Member : ConnOf(q)
  BY DEF Base, Conns
<1>1. CASE Syncs(p)
  <2>1. /\ UNCHANGED <<online, connected, gate, known, reported, speed, local, opened, echo, acts, chosen, hasty>>
        /\ primed' \subseteq online /\ pace' \in Speed
        /\ incoming' \in [Member -> Seq(DownFrame)]
        /\ \A q \in Member \ online : incoming'[q] = incoming[q]
        /\ \A x \in Member \ {p} : handler'[x] = handler[x] /\ outgoing'[x] = outgoing[x]
        /\ handler' \in [Member -> {"idle", "hello", "leave"}]
        /\ outgoing' \in [Member -> Seq(UpFrame)]
    BY <1>1, Announces
  <2>2. Plain' /\ Wires' /\ primed' \subseteq online'
    BY <1>0, <2>1 DEF Plain, Wires
  <2>3. \A q \in Member \ {p} : q \in primed' => q \in primed
    BY <1>1 DEF Syncs, Finish, HandleReady, HandleSpeed
  <2>4. ASSUME NEW q \in Member, q # p PROVE ConnOf(q)'
    BY <1>0, <2>1, <2>3, <2>4, ConnKept
  <2>5. ConnOf(p)'
    <3>1. CASE Finish(p)
      <4>1. handler'[p] = "idle" /\ outgoing' = outgoing
        BY <1>0, <3>1 DEF Finish, Plain
      <4> QED
        BY <1>0, <2>1, <4>1 DEF ConnOf
    <3>2. ASSUME NEW type, Handle(p, type), type # "HELLO", handler' = handler PROVE ConnOf(p)'
      <4>1. handler[p] = "idle" /\ p \in online /\ Silent(outgoing'[p])
        BY <3>2, Handles
      <4> QED
        BY <2>1, <3>2, <4>1 DEF ConnOf
    <3> QED
      BY <1>1, <3>1, <3>2 DEF Syncs, HandleReady, HandleSpeed
  <2> QED
    BY <2>2, <2>4, <2>5 DEF Base, Conns
<1>2. CASE HandleHello(p)
  <2>1. /\ p \notin online /\ online' = online \cup {p} /\ UNCHANGED <<primed, pace>> /\ p \notin primed
        /\ UNCHANGED <<connected, gate, known, reported, speed, local, opened, echo, acts, chosen, hasty>>
        /\ handler' = [handler EXCEPT ![p] = "hello"]
        /\ incoming' \in [Member -> Seq(DownFrame)]
        /\ \A q \in Member : q # p /\ q \notin online => incoming'[q] = incoming[q]
    BY <1>2, Greeted
  <2>2. /\ outgoing' \in [Member -> Seq(UpFrame)] /\ Silent(outgoing'[p])
        /\ \A q \in Member \ {p} : outgoing'[q] = outgoing[q]
    BY <1>2, Handles DEF HandleHello
  <2>3. Plain' /\ Wires' /\ primed' \subseteq online'
    BY <1>0, <2>1, <2>2 DEF Plain, Wires
  <2>4. ASSUME NEW q \in Member, q # p PROVE ConnOf(q)'
    <3>1. handler'[q] = handler[q]
      BY <1>0, <2>1, <2>4 DEF Plain
    <3> QED
      BY <1>0, <2>1, <2>2, <2>4, <3>1, ConnKept
  <2>5. ConnOf(p)'
    <3>1. handler'[p] = "hello"
      BY <1>0, <2>1 DEF Plain
    <3> QED
      BY <2>1, <2>2, <3>1 DEF ConnOf
  <2> QED
    BY <2>3, <2>4, <2>5 DEF Base, Conns
<1>3. CASE Leave(p)
  <2>1. /\ p \in online /\ p \notin connected /\ online' = online \ {p} /\ primed' = primed \ {p}
        /\ UNCHANGED <<pace, outgoing>>
        /\ UNCHANGED <<connected, gate, known, reported, speed, local, opened, echo, acts, chosen, hasty>>
        /\ handler' = [handler EXCEPT ![p] = "leave"] /\ outgoing[p] = <<>>
        /\ incoming' \in [Member -> Seq(DownFrame)]
        /\ \A q \in Member \ (online \ {p}) : incoming'[q] = incoming[q]
    BY <1>3, Departs
  <2>2. Plain' /\ Wires' /\ primed' \subseteq online'
    BY <1>0, <2>1 DEF Plain, Wires
  <2>3. ASSUME NEW q \in Member, q # p PROVE ConnOf(q)'
    <3>1. handler'[q] = handler[q]
      BY <1>0, <2>1, <2>3 DEF Plain
    <3> QED
      BY <1>0, <2>1, <2>3, <3>1, ConnKept
  <2>4. ConnOf(p)'
    <3>1. handler'[p] = "leave"
      BY <1>0, <2>1 DEF Plain
    <3> QED
      BY <2>1, <3>1 DEF ConnOf
  <2> QED
    BY <2>2, <2>3, <2>4 DEF Base, Conns
<1>4. CASE DeepRelay(p)
  <2>1. /\ UNCHANGED <<online, primed, pace, handler>>
        /\ UNCHANGED <<connected, gate, known, reported, speed, local, opened, echo, acts, chosen, hasty>>
        /\ Handle(p, "DEEP_RELAY")
        /\ incoming' \in [Member -> Seq(DownFrame)]
        /\ \A q \in Member \ online : incoming'[q] = incoming[q]
    BY <1>4, Forwards
  <2>2. /\ outgoing' \in [Member -> Seq(UpFrame)] /\ Silent(outgoing'[p]) /\ handler[p] = "idle" /\ p \in online
        /\ \A q \in Member \ {p} : outgoing'[q] = outgoing[q]
    BY <2>1, Handles
  <2>3. Plain' /\ Wires' /\ primed' \subseteq online'
    BY <1>0, <2>1, <2>2 DEF Plain, Wires
  <2>4. ASSUME NEW q \in Member, q # p PROVE ConnOf(q)'
    BY <1>0, <2>1, <2>2, <2>4, ConnKept
  <2>5. ConnOf(p)'
    BY <2>1, <2>2 DEF ConnOf
  <2> QED
    BY <2>3, <2>4, <2>5 DEF Base, Conns
<1> QED
  BY <1>1, <1>2, <1>3, <1>4 DEF Serve, Syncs

LEMMA ClientBase ==
  ASSUME Base, NEW p \in Member, Reads(p) \/ Alone(p) \/ Dial(p) \/ Break(p)
  PROVE  Base'
<1>0. Plain /\ Wires /\ primed \subseteq online /\ \A q \in Member : ConnOf(q)
  BY DEF Base, Conns
<1>1. CASE Reads(p)
  <2>1. Plain'
    BY <1>1, ReadTypes
  <2>2. PICK types : Read(p, types)
    BY <1>1, ReadTypes
  <2>3. /\ incoming' \in [Member -> Seq(DownFrame)] /\ p \in online
        /\ \A q \in Member \ {p} : incoming'[q] = incoming[q]
        /\ UNCHANGED <<online, primed, pace, handler, outgoing, connected, echo, acts, chosen, hasty>>
    BY <2>2, ReadsNext
  <2>4. \A q \in Member : ConnOf(q)'
    BY <1>0, <2>3, ConnKept
  <2> QED
    BY <1>0, <2>1, <2>3, <2>4 DEF Base, Wires, Conns
<1>2. CASE Alone(p)
  <2>1. Plain' /\ SaysLittle(p)
    BY <1>2, AloneSteps
  <2>2. /\ UNCHANGED <<online, primed, pace, handler, incoming, connected, gate, known>>
        /\ outgoing' \in [Member -> Seq(UpFrame)]
        /\ \A q \in Member \ {p} : outgoing'[q] = outgoing[q]
        /\ outgoing' = outgoing \/ \E f \in UpFrame : Says(p, f)
    BY <2>1 DEF SaysLittle
  <2>3. \A q \in Member \ {p} : ConnOf(q)'
    BY <1>0, <2>2, ConnKept
  <2>4. ConnOf(p)'
    <3>1. CASE outgoing' = outgoing
      BY <1>0, <2>2, <3>1, ConnKept
    <3>2. ASSUME NEW f \in UpFrame, Says(p, f) PROVE ConnOf(p)'
      <4>1. p \in connected /\ f.type # "HELLO" /\ outgoing'[p] = Append(outgoing[p], f) /\ outgoing[p] \in Seq(UpFrame)
        BY <1>0, <3>2 DEF Says, Wires
      <4>2. /\ Silent(outgoing[p]) => Silent(outgoing'[p])
            /\ Greets(outgoing[p]) => Greets(outgoing'[p])
        BY <4>1, SilentMore
      <4> QED
        BY <1>0, <2>2, <4>1, <4>2 DEF ConnOf
    <3> QED
      BY <2>2, <3>1, <3>2
  <2> QED
    BY <1>0, <2>1, <2>2, <2>3, <2>4 DEF Base, Wires, Conns
<1>3. CASE Dial(p)
  <2>1. /\ p \notin connected /\ p \notin online /\ connected' = connected \cup {p}
        /\ UNCHANGED <<online, primed, pace, handler, gate, known, reported, speed, local, opened, echo,
                       acts, chosen, hasty>>
        /\ outgoing' \in [Member -> Seq(UpFrame)] /\ incoming' \in [Member -> Seq(DownFrame)]
        /\ outgoing'[p] = <<SpeedFrame("HELLO", 0)>> /\ incoming'[p] = <<>>
        /\ \A q \in Member \ {p} : outgoing'[q] = outgoing[q] /\ incoming'[q] = incoming[q]
    BY <1>3, Dials
  <2>2. Plain' /\ Wires'
    BY <1>0, <2>1 DEF Plain, Wires
  <2>3. \A q \in Member \ {p} : ConnOf(q)'
    BY <1>0, <2>1, ConnKept
  <2>4. Greets(outgoing'[p])
    BY <2>1, Fields DEF Greets
  <2>5. ConnOf(p)'
    BY <1>0, <2>1, <2>4 DEF ConnOf
  <2> QED
    BY <1>0, <2>1, <2>2, <2>3, <2>5 DEF Base, Conns
<1>4. CASE Break(p)
  <2>1. /\ p \in connected /\ connected' = connected \ {p} /\ acts < MaxActs /\ acts' = acts + 1
        /\ UNCHANGED <<online, primed, pace, handler, gate, known, reported, speed, local, opened, echo,
                       chosen, hasty>>
        /\ outgoing' \in [Member -> Seq(UpFrame)] /\ incoming' \in [Member -> Seq(DownFrame)]
        /\ \A i \in DOMAIN outgoing'[p] : i \in DOMAIN outgoing[p] /\ outgoing'[p][i] = outgoing[p][i]
        /\ outgoing'[p] # <<>> => outgoing[p] # <<>> /\ outgoing'[p][1] = outgoing[p][1]
        /\ \A q \in Member \ {p} : outgoing'[q] = outgoing[q] /\ incoming'[q] = incoming[q]
    BY <1>4, Breaks
  <2>2. Plain' /\ Wires'
    BY <1>0, <2>1, Constant DEF Plain, Wires
  <2>3. \A q \in Member \ {p} : ConnOf(q)'
    BY <1>0, <2>1, ConnKept
  <2>4. /\ Silent(outgoing[p]) => Silent(outgoing'[p])
        /\ outgoing'[p] # <<>> /\ Greets(outgoing[p]) => Greets(outgoing'[p])
    BY <2>1 DEF Silent, Greets
  <2>5. ConnOf(p)'
    BY <1>0, <2>1, <2>4 DEF ConnOf
  <2> QED
    BY <1>0, <2>1, <2>2, <2>3, <2>5 DEF Base, Conns
<1> QED
  BY <1>1, <1>2, <1>3, <1>4

LEMMA NextCases ==
  ASSUME SpeedNext
  PROVE  \E p \in Member : Serve(p) \/ Reads(p) \/ Alone(p) \/ Dial(p) \/ Break(p)
BY DEF SpeedNext, SpeedRuns, Ticks, Alone

-----------------------------------------------------------------------------
\* What the frame a client reads does to its gate, speed and roster.
LEMMA ReadEffects ==
  ASSUME Base, NEW p \in Member, Reads(p)
  PROVE  LET f == incoming[p][1]
         IN  /\ \E types : Read(p, types)
             /\ Shuts(f) => gate'[p] = TRUE
             /\ gate[p] = TRUE /\ ~Opens(f) => gate'[p] = TRUE
             /\ f.type = "TIME_SYNC" => gate'[p] = f.arg.gate /\ speed'[p] = f.arg.speed
             /\ ~Moves(f) => gate'[p] = gate[p]
             /\ f.type # "TIME_SYNC" => speed'[p] = speed[p]
             /\ \A x : (Brings(f, x) => x \in known'[p]) /\ (x \in known[p] /\ ~Drops(f, x) => x \in known'[p])
             /\ f.type = "WELCOME" => p \notin reported'
             /\ reported' \subseteq reported
             /\ \A q \in Member \ {p} : gate'[q] = gate[q] /\ speed'[q] = speed[q] /\ known'[q] = known[q]
<1>1. /\ gate \in [Member -> BOOLEAN] /\ speed \in [Member -> Speed]
      /\ known \in [Member -> SUBSET Member] /\ gate[p] \in BOOLEAN
  BY DEF Base, Plain
<1> DEFINE f == incoming[p][1]
<1>2. CASE ReadWelcome(p)
  <2>1. /\ Read(p, {"WELCOME"}) /\ gate' = [gate EXCEPT ![p] = TRUE] /\ reported' = reported \ {p}
        /\ UNCHANGED <<known, speed>>
    BY <1>2 DEF ReadWelcome, WelcomeGate
  <2>2. f.type = "WELCOME"
    BY <2>1, ReadsNext
  <2> HIDE DEF f
  <2>3. ~Brings(f, known) /\ Moves(f) /\ f.type # "TIME_SYNC" /\ \A x : ~Brings(f, x) /\ ~Drops(f, x)
    BY <2>2 DEF Brings, Drops, Moves
  <2>4. /\ gate'[p] = TRUE /\ \A q \in Member \ {p} : gate'[q] = gate[q]
    BY <1>1, <2>1
  <2> QED
    BY <2>1, <2>2, <2>3, <2>4 DEF f
<1>3. CASE ReadRoster(p)
  <2> DEFINE in == CASE f.type = "ROOM_STATE" -> f.arg
                     [] f.type = "PLAYER_JOINED" -> known[p] \cup f.arg
                     [] f.type = "PLAYER_LEFT" -> known[p] \ f.arg
  <2>1. Read(p, {"ROOM_STATE", "PLAYER_JOINED", "PLAYER_LEFT"})
    BY <1>3 DEF ReadRoster
  <2>2. f.type \in {"ROOM_STATE", "PLAYER_JOINED", "PLAYER_LEFT"} /\ Head(incoming[p]) = f
    BY <2>1, ReadsNext
  <2>3. known' = [known EXCEPT ![p] = in] /\ UNCHANGED <<gate, reported, speed>>
    BY <1>3, <2>2 DEF ReadRoster
  <2> HIDE DEF f
  <2>4. \A x : (Brings(f, x) => x \in in) /\ (x \in known[p] /\ ~Drops(f, x) => x \in in)
    BY <2>2 DEF Brings, Drops
  <2> HIDE DEF in
  <2>5. known'[p] = in /\ \A q \in Member \ {p} : known'[q] = known[q]
    BY <1>1, <2>3
  <2>6. ~Shuts(f) /\ f.type # "TIME_SYNC" /\ f.type # "WELCOME"
    BY <2>2 DEF Shuts
  <2> QED
    BY <2>1, <2>3, <2>4, <2>5, <2>6 DEF f
<1>4. CASE ReadTimeSync(p)
  <2>1. Read(p, {"TIME_SYNC"})
    BY <1>4 DEF ReadTimeSync
  <2>2. f.type = "TIME_SYNC" /\ Head(incoming[p]) = f /\ f.arg.gate \in BOOLEAN
    BY <2>1, ReadsNext, DownTypes
  <2>3. /\ speed' = [speed EXCEPT ![p] = f.arg.speed] /\ gate' = [gate EXCEPT ![p] = f.arg.gate]
        /\ UNCHANGED <<known, reported>>
    BY <1>4, <2>2 DEF ReadTimeSync, Obeyed
  <2> HIDE DEF f
  <2>4. /\ gate'[p] = f.arg.gate /\ speed'[p] = f.arg.speed
        /\ \A q \in Member \ {p} : gate'[q] = gate[q] /\ speed'[q] = speed[q]
    BY <1>1, <2>3
  <2>5. (Shuts(f) => f.arg.gate = TRUE) /\ (~Opens(f) => f.arg.gate = TRUE) /\ Moves(f)
    BY <2>2 DEF Shuts, Opens, Moves
  <2>6. \A x : ~Brings(f, x) /\ ~Drops(f, x)
    BY <2>2 DEF Brings, Drops
  <2> QED
    BY <2>1, <2>2, <2>3, <2>4, <2>5, <2>6 DEF f
<1>5. CASE ReadRelay(p)
  <2>1. Read(p, {"DEEP_RELAY"}) /\ UNCHANGED <<gate, known, reported, speed>>
    BY <1>5 DEF ReadRelay
  <2>2. f.type = "DEEP_RELAY"
    BY <2>1, ReadsNext
  <2> HIDE DEF f
  <2>3. ~Shuts(f) /\ f.type # "TIME_SYNC" /\ f.type # "WELCOME" /\ \A x : ~Brings(f, x) /\ ~Drops(f, x)
    BY <2>2 DEF Brings, Drops, Shuts
  <2> QED
    BY <2>1, <2>3 DEF f
<1> QED
  BY <1>2, <1>3, <1>4, <1>5 DEF Reads

-----------------------------------------------------------------------------
\* The gate a client is led to.
LEMMA GateKept ==
  ASSUME NEW q, GateOf(q), incoming'[q] = incoming[q], gate'[q] = gate[q],
         \A x \in Member : x \notin online' /\ handler'[x] = "idle" => x \notin online /\ handler[x] = "idle"
  PROVE  GateOf(q)'
BY DEF GateOf

LEMMA GateMore ==
  ASSUME NEW q, GateOf(q), incoming[q] \in Seq(DownFrame), NEW f \in DownFrame,
         incoming'[q] = Append(incoming[q], f), gate'[q] = gate[q],
         Grows(f) => ShutAt(incoming[q], gate[q], Len(incoming[q])),
         \A x \in Member : x \notin online' /\ handler'[x] = "idle" =>
           Shuts(f) \/ (ShutAt(incoming[q], gate[q], Len(incoming[q])) /\ ~Opens(f))
  PROVE  GateOf(q)'
<1> DEFINE s == incoming[q]
           t == Append(s, f)
           g == gate[q]
           m == Len(s) + 1
<1>1. /\ Len(s) \in Nat /\ DOMAIN s = 1..Len(s) /\ DOMAIN t = 1..m /\ Len(t) = m /\ t[m] = f
      /\ \A i \in 1..Len(s) : t[i] = s[i]
  BY QueueFacts, Appended
<1>2. ASSUME NEW x \in Member, x \notin online', handler'[x] = "idle" PROVE ShutAt(t, g, m)
  BY <1>2, ShutNew
<1>3. ASSUME NEW i \in DOMAIN t, Grows(t[i]) PROVE ShutAt(t, g, i - 1)
  <2>1. ShutAt(s, g, i - 1) /\ i - 1 \in 0..Len(s)
    <3>1. CASE i = m
      BY <1>1, <1>3, <3>1
    <3>2. CASE i # m
      <4>1. i \in DOMAIN s /\ t[i] = s[i] /\ i - 1 \in 0..Len(s)
        BY <1>1, <3>2
      <4> QED
        BY <1>3, <4>1 DEF GateOf
    <3> QED
      BY <3>1, <3>2
  <2> QED
    BY <2>1, ShutOld
<1>4. incoming'[q] = t /\ gate'[q] = g /\ Len(t) = m
  BY <1>1
<1> HIDE DEF t, g, m
<1> QED
  BY <1>2, <1>3, <1>4 DEF GateOf

LEMMA GateStep ==
  ASSUME Base, GateInv, NEW p \in Member, Serve(p) \/ Reads(p) \/ Alone(p) \/ Dial(p) \/ Break(p)
  PROVE  GateInv'
<1>0. /\ Plain /\ online \subseteq Member /\ connected \subseteq Member
      /\ handler \in [Member -> {"idle", "hello", "leave"}]
      /\ incoming \in [Member -> Seq(DownFrame)] /\ primed \subseteq online
  BY DEF Base, Plain, Wires, Conns
<1>1. CASE Syncs(p)
  <2> DEFINE f == SpeedFrame("TIME_SYNC", Now')
  <2>1. /\ UNCHANGED <<online, connected, gate>> /\ primed' \subseteq online /\ f \in DownFrame
        /\ \A q \in online : incoming'[q] = Append(incoming[q], f)
    BY <1>1, Announces
  <2>2. f.type = "TIME_SYNC" /\ f.arg.gate = ~Open'
    BY Fields DEF Now
  <2> HIDE DEF f
  <2>3. ~Grows(f)
    BY <2>2 DEF Grows
  <2>4. ASSUME NEW x \in Member, x \notin online' PROVE Shuts(f)
    <3>1. x \notin primed'
      BY <2>1, <2>4
    <3>2. ~Open'
      BY <3>1 DEF Open
    <3> QED
      BY <2>2, <3>2 DEF Shuts
  <2>5. ASSUME NEW q \in connected' \cap online' PROVE GateOf(q)'
    <3>1. q \in connected \cap online /\ GateOf(q) /\ incoming[q] \in Seq(DownFrame)
      BY <1>0, <2>1, <2>5 DEF GateInv
    <3>2. incoming'[q] = Append(incoming[q], f) /\ gate'[q] = gate[q]
      BY <2>1, <3>1
    <3> QED
      BY <2>1, <2>3, <2>4, <3>1, <3>2, GateMore
  <2> QED
    BY <2>5 DEF GateInv
<1>2. CASE HandleHello(p)
  <2>1. /\ p \notin online /\ online' = online \cup {p} /\ UNCHANGED <<connected, gate>>
        /\ handler' = [handler EXCEPT ![p] = "hello"] /\ handler[p] = "idle"
        /\ incoming'[p] = <<SpeedFrame("WELCOME", 0), SpeedFrame("ROOM_STATE", online \cup {p})>>
        /\ \A q \in online : incoming'[q] = Append(incoming[q], SpeedFrame("PLAYER_JOINED", {p}))
    BY <1>2, Greeted
  <2>2. \A x \in Member : x \notin online' /\ handler'[x] = "idle" => x \notin online /\ handler[x] = "idle"
    BY <1>0, <2>1
  <2> DEFINE j == SpeedFrame("PLAYER_JOINED", {p})
  <2>3. j \in DownFrame /\ j.type = "PLAYER_JOINED"
    BY DownFrames, Fields
  <2> HIDE DEF j
  <2>4. ASSUME NEW q \in connected' \cap online', q # p PROVE GateOf(q)'
    <3>1. q \in connected \cap online /\ GateOf(q) /\ incoming[q] \in Seq(DownFrame)
      BY <1>0, <2>1, <2>4 DEF GateInv
    <3>2. incoming'[q] = Append(incoming[q], j) /\ gate'[q] = gate[q]
      BY <2>1, <3>1 DEF j
    <3>3. ShutAt(incoming[q], gate[q], Len(incoming[q])) /\ ~Opens(j)
      BY <2>1, <2>3, <3>1 DEF GateOf, Opens
    <3> QED
      BY <2>3, <3>1, <3>2, <3>3, GateMore
  <2>5. GateOf(p)'
    <3> DEFINE t == incoming'[p]
    <3>1. /\ Len(t) = 2 /\ DOMAIN t = 1..2 /\ t[1].type = "WELCOME" /\ t[2].type = "ROOM_STATE"
      BY <2>1, Fields
    <3> HIDE DEF t
    <3>2. ~Grows(t[1]) /\ Shuts(t[1]) /\ ~Opens(t[2])
      BY <3>1 DEF Grows, Shuts, Opens
    <3>3. ShutAt(t, gate'[p], 1)
      <4>1. 1 \in 0..1 /\ Shuts(t[1]) /\ \A k \in (1 + 1)..1 : ~Opens(t[k])
        BY <3>2
      <4> QED
        BY <4>1 DEF ShutAt
    <3>4. ShutAt(t, gate'[p], 2)
      <4>1. 1 \in 0..2 /\ Shuts(t[1]) /\ \A k \in (1 + 1)..2 : ~Opens(t[k])
        BY <3>2
      <4> QED
        BY <4>1 DEF ShutAt
    <3>5. \A i \in DOMAIN t : Grows(t[i]) => ShutAt(t, gate'[p], i - 1)
      BY <3>1, <3>2, <3>3
    <3> QED
      BY <3>1, <3>4, <3>5 DEF t, GateOf
  <2> QED
    BY <2>4, <2>5 DEF GateInv
<1>3. CASE Leave(p)
  <2> DEFINE f == SpeedFrame("PLAYER_LEFT", {p})
  <2>1. /\ p \in online /\ online' = online \ {p} /\ UNCHANGED <<connected, gate>>
        /\ handler' = [handler EXCEPT ![p] = "leave"]
        /\ \A q \in online \ {p} : incoming'[q] = Append(incoming[q], f)
    BY <1>3, Departs
  <2>2. f \in DownFrame /\ f.type = "PLAYER_LEFT"
    BY DownFrames, Fields
  <2> HIDE DEF f
  <2>3. \A x \in Member : x \notin online' /\ handler'[x] = "idle" => x \notin online /\ handler[x] = "idle"
    BY <1>0, <2>1
  <2>4. ~Grows(f) /\ ~Opens(f)
    BY <2>2 DEF Grows, Opens
  <2>5. ASSUME NEW q \in connected' \cap online' PROVE GateOf(q)'
    <3>1. q \in connected \cap online /\ q # p /\ GateOf(q) /\ incoming[q] \in Seq(DownFrame)
      BY <1>0, <2>1, <2>5 DEF GateInv
    <3>2. incoming'[q] = Append(incoming[q], f) /\ gate'[q] = gate[q]
      BY <2>1, <3>1
    <3>3. \A x \in Member : x \notin online' /\ handler'[x] = "idle" =>
            ShutAt(incoming[q], gate[q], Len(incoming[q]))
      BY <2>3, <3>1 DEF GateOf
    <3> QED
      BY <2>2, <2>4, <3>1, <3>2, <3>3, GateMore
  <2> QED
    BY <2>5 DEF GateInv
<1>4. CASE DeepRelay(p)
  <2> DEFINE f == outgoing[p][1]
  <2>1. /\ UNCHANGED <<online, handler>> /\ UNCHANGED <<connected, gate>>
        /\ f.type = "DEEP_RELAY" /\ f \in DownFrame
        /\ \A q \in Member : incoming'[q] \in {incoming[q], Append(incoming[q], f)}
    BY <1>4, Forwards
  <2> HIDE DEF f
  <2>2. ~Grows(f) /\ ~Opens(f)
    BY <2>1 DEF Grows, Opens
  <2>3. ASSUME NEW q \in connected' \cap online' PROVE GateOf(q)'
    <3>1. q \in connected \cap online /\ GateOf(q) /\ incoming[q] \in Seq(DownFrame) /\ gate'[q] = gate[q]
      BY <1>0, <2>1, <2>3 DEF GateInv
    <3>2. CASE incoming'[q] = incoming[q]
      BY <2>1, <3>1, <3>2, GateKept
    <3>3. CASE incoming'[q] = Append(incoming[q], f)
      <4>1. \A x \in Member : x \notin online' /\ handler'[x] = "idle" =>
              ShutAt(incoming[q], gate[q], Len(incoming[q]))
        BY <2>1, <3>1 DEF GateOf
      <4> QED
        BY <2>1, <2>2, <3>1, <3>3, <4>1, GateMore
    <3> QED
      BY <1>0, <2>1, <2>3, <3>2, <3>3
  <2> QED
    BY <2>3 DEF GateInv
<1>5. CASE Reads(p)
  <2> DEFINE f == incoming[p][1]
  <2>1. PICK types : Read(p, types)
    BY <1>5, ReadEffects
  <2>2. /\ p \in connected /\ p \in online /\ incoming[p] \in Seq(DownFrame) /\ incoming[p] # <<>>
        /\ Len(incoming[p]) \in Nat /\ DOMAIN incoming[p] = 1..Len(incoming[p]) /\ Len(incoming[p]) > 0
        /\ incoming'[p] = Tail(incoming[p]) /\ \A q \in Member \ {p} : incoming'[q] = incoming[q]
        /\ UNCHANGED <<online, handler, connected>>
    BY <2>1, ReadsNext
  <2>3. /\ Shuts(f) => gate'[p] = TRUE
        /\ gate[p] = TRUE /\ ~Opens(f) => gate'[p] = TRUE
        /\ \A q \in Member \ {p} : gate'[q] = gate[q]
    BY <1>5, ReadEffects
  <2>4. ASSUME NEW q \in connected' \cap online', q # p PROVE GateOf(q)'
    <3>1. q \in Member /\ GateOf(q) /\ incoming'[q] = incoming[q] /\ gate'[q] = gate[q]
      BY <1>0, <2>2, <2>3, <2>4 DEF GateInv
    <3> QED
      BY <2>2, <3>1, GateKept
  <2>5. GateOf(p)'
    <3> DEFINE s == incoming[p]
               t == Tail(s)
               h == gate'[p]
    <3>1. GateOf(p) /\ s \in Seq(DownFrame) /\ s # <<>>
      BY <2>2 DEF GateInv
    <3>2. /\ Len(t) = Len(s) - 1 /\ DOMAIN t = 1..(Len(s) - 1) /\ \A i \in 1..(Len(s) - 1) : t[i] = s[i + 1]
      BY <3>1, Tailed
    <3>3. ASSUME NEW n \in 1..Len(s), ShutAt(s, gate[p], n) PROVE ShutAt(t, h, n - 1)
      BY <2>3, <3>1, <3>3, ShutTail
    <3>4. ASSUME NEW x \in Member, x \notin online', handler'[x] = "idle" PROVE ShutAt(t, h, Len(t))
      <4>1. ShutAt(s, gate[p], Len(s)) /\ Len(s) \in 1..Len(s)
        BY <2>2, <3>1, <3>4 DEF GateOf
      <4> QED
        BY <3>2, <3>3, <4>1
    <3>5. ASSUME NEW i \in DOMAIN t, Grows(t[i]) PROVE ShutAt(t, h, i - 1)
      <4>1. i \in 1..Len(s) /\ i + 1 \in DOMAIN s /\ t[i] = s[i + 1]
        BY <2>2, <3>2
      <4>2. ShutAt(s, gate[p], (i + 1) - 1) /\ (i + 1) - 1 = i
        BY <3>1, <3>5, <4>1 DEF GateOf
      <4> QED
        BY <3>3, <4>1, <4>2
    <3>6. incoming'[p] = t
      BY <2>2
    <3> HIDE DEF t
    <3> QED
      BY <3>4, <3>5, <3>6 DEF GateOf
  <2> QED
    BY <2>4, <2>5 DEF GateInv
<1>6. CASE Alone(p)
  <2>1. UNCHANGED <<online, handler, incoming, connected, gate>>
    BY <1>6, AloneSteps DEF SaysLittle
  <2> QED
    BY <2>1, GateKept DEF GateInv
<1>7. CASE Dial(p) \/ Break(p)
  <2>1. /\ UNCHANGED <<online, handler, gate>> /\ \A q \in Member \ {p} : incoming'[q] = incoming[q]
        /\ \A q \in connected' \cap online' : q # p /\ q \in connected
    BY <1>7, Dials, Breaks
  <2>2. ASSUME NEW q \in connected' \cap online' PROVE GateOf(q)'
    <3>1. q \in Member \ {p} /\ GateOf(q) /\ incoming'[q] = incoming[q]
      BY <1>0, <2>1, <2>2 DEF GateInv
    <3> QED
      BY <2>1, <3>1, GateKept
  <2> QED
    BY <2>2 DEF GateInv
<1> QED
  BY <1>1, <1>2, <1>3, <1>4, <1>5, <1>6, <1>7 DEF Serve, Syncs

-----------------------------------------------------------------------------
\* The roster a client is led to.
LEMMA RosterStep ==
  ASSUME Base, RosterInv, NEW p \in Member, Serve(p) \/ Reads(p) \/ Alone(p) \/ Dial(p) \/ Break(p)
  PROVE  RosterInv'
<1>0. /\ online \subseteq Member /\ connected \subseteq Member /\ incoming \in [Member -> Seq(DownFrame)]
  BY DEF Base, Plain, Wires
<1>s. SUFFICES ASSUME NEW q \in connected' \cap online', NEW x \in online'
               PROVE  There(incoming'[q], known'[q], x)
  BY DEF RosterInv
<1>1. CASE Syncs(p)
  <2> DEFINE f == SpeedFrame("TIME_SYNC", Now')
  <2>1. /\ UNCHANGED <<online, connected, known>> /\ f \in DownFrame
        /\ \A r \in online : incoming'[r] = Append(incoming[r], f)
    BY <1>1, Announces
  <2>2. f.type = "TIME_SYNC"
    BY Fields
  <2> HIDE DEF f
  <2>3. ~Drops(f, x)
    BY <2>2 DEF Drops
  <2>4. There(incoming[q], known[q], x) /\ incoming[q] \in Seq(DownFrame) /\ incoming'[q] = Append(incoming[q], f)
    BY <1>0, <2>1 DEF RosterInv
  <2> QED
    BY <2>1, <2>3, <2>4, ThereNew
<1>2. CASE HandleHello(p)
  <2> DEFINE j == SpeedFrame("PLAYER_JOINED", {p})
  <2>1. /\ p \notin online /\ online' = online \cup {p} /\ UNCHANGED <<connected, known>>
        /\ incoming'[p] = <<SpeedFrame("WELCOME", 0), SpeedFrame("ROOM_STATE", online \cup {p})>>
        /\ \A r \in online : incoming'[r] = Append(incoming[r], j)
    BY <1>2, Greeted
  <2>2. j \in DownFrame /\ j.type = "PLAYER_JOINED" /\ j.arg = {p}
    BY DownFrames, Fields
  <2> HIDE DEF j
  <2>3. CASE q = p
    <3> DEFINE t == incoming'[p]
    <3>1. Len(t) = 2 /\ t[2].type = "ROOM_STATE" /\ t[2].arg = online \cup {p}
      BY <2>1, Fields
    <3> HIDE DEF t
    <3>2. 2 \in 0..Len(t) /\ Brings(t[2], x) /\ \A k \in (2 + 1)..Len(t) : ~Drops(t[k], x)
      BY <2>1, <3>1 DEF Brings
    <3>3. There(t, known'[p], x)
      BY <3>2 DEF There
    <3> QED
      BY <2>3, <3>3 DEF t
  <2>4. CASE q # p
    <3>1. q \in connected \cap online /\ incoming[q] \in Seq(DownFrame) /\ incoming'[q] = Append(incoming[q], j)
      BY <1>0, <2>1, <2>4
    <3>2. Brings(j, x) \/ (There(incoming[q], known[q], x) /\ ~Drops(j, x))
      <4>1. CASE x = p
        BY <2>2, <4>1 DEF Brings
      <4>2. CASE x # p
        BY <2>1, <2>2, <3>1, <4>2 DEF RosterInv, Drops
      <4> QED
        BY <4>1, <4>2
    <3> QED
      BY <2>1, <2>2, <3>1, <3>2, ThereNew
  <2> QED
    BY <2>3, <2>4
<1>3. CASE Leave(p)
  <2> DEFINE f == SpeedFrame("PLAYER_LEFT", {p})
  <2>1. /\ p \in online /\ online' = online \ {p} /\ UNCHANGED <<connected, known>>
        /\ \A r \in online \ {p} : incoming'[r] = Append(incoming[r], f)
    BY <1>3, Departs
  <2>2. f \in DownFrame /\ f.type = "PLAYER_LEFT" /\ f.arg = {p}
    BY DownFrames, Fields
  <2> HIDE DEF f
  <2>3. There(incoming[q], known[q], x) /\ incoming[q] \in Seq(DownFrame) /\ incoming'[q] = Append(incoming[q], f)
    BY <1>0, <2>1 DEF RosterInv
  <2>4. ~Drops(f, x)
    BY <2>1, <2>2 DEF Drops
  <2> QED
    BY <2>1, <2>2, <2>3, <2>4, ThereNew
<1>4. CASE DeepRelay(p)
  <2> DEFINE f == outgoing[p][1]
  <2>1. /\ UNCHANGED <<online, connected, known>>
        /\ f.type = "DEEP_RELAY" /\ f \in DownFrame
        /\ \A r \in Member : incoming'[r] \in {incoming[r], Append(incoming[r], f)}
    BY <1>4, Forwards
  <2> HIDE DEF f
  <2>2. ~Drops(f, x)
    BY <2>1 DEF Drops
  <2>3. There(incoming[q], known[q], x) /\ incoming[q] \in Seq(DownFrame)
    BY <1>0, <2>1 DEF RosterInv
  <2>4. There(Append(incoming[q], f), known[q], x)
    BY <2>1, <2>2, <2>3, ThereNew
  <2>5. incoming'[q] \in {incoming[q], Append(incoming[q], f)} /\ known'[q] = known[q]
    BY <1>0, <2>1
  <2> QED
    BY <2>3, <2>4, <2>5
<1>5. CASE Reads(p)
  <2> DEFINE f == incoming[p][1]
  <2>1. PICK types : Read(p, types)
    BY <1>5, ReadEffects
  <2>2. /\ p \in connected /\ p \in online /\ incoming[p] \in Seq(DownFrame) /\ incoming[p] # <<>>
        /\ incoming'[p] = Tail(incoming[p]) /\ \A r \in Member \ {p} : incoming'[r] = incoming[r]
        /\ UNCHANGED <<online, connected>>
    BY <2>1, ReadsNext
  <2>3. /\ Brings(f, x) => x \in known'[p]
        /\ x \in known[p] /\ ~Drops(f, x) => x \in known'[p]
        /\ \A r \in Member \ {p} : known'[r] = known[r]
    BY <1>5, ReadEffects
  <2>4. There(incoming[q], known[q], x) /\ q \in Member
    BY <1>0, <2>2 DEF RosterInv
  <2>5. CASE q = p
    <3> DEFINE s == incoming[p]
               in == known[p]
    <3>1. /\ s \in Seq(DownFrame) /\ s # <<>> /\ There(s, in, x)
          /\ Brings(s[1], x) => x \in known'[p]
          /\ x \in in /\ ~Drops(s[1], x) => x \in known'[p]
      BY <2>2, <2>3, <2>4, <2>5
    <3>2. There(Tail(s), known'[p], x)
      <4> HIDE DEF s, in
      <4> QED
        BY <3>1, ThereTail
    <3> QED
      BY <2>2, <2>5, <3>2
  <2>6. CASE q # p
    BY <2>2, <2>3, <2>4, <2>6
  <2> QED
    BY <2>5, <2>6
<1>6. CASE Alone(p)
  <2>1. UNCHANGED <<online, incoming, connected, known>>
    BY <1>6, AloneSteps DEF SaysLittle
  <2> QED
    BY <2>1 DEF RosterInv
<1>7. CASE Dial(p) \/ Break(p)
  <2>1. /\ UNCHANGED <<online, known>> /\ \A r \in Member \ {p} : incoming'[r] = incoming[r]
        /\ \A r \in connected' \cap online' : r # p /\ r \in connected
    BY <1>7, Dials, Breaks
  <2>2. q \in connected \cap online /\ x \in online /\ q # p /\ q \in Member
    BY <1>0, <2>1
  <2> QED
    BY <2>1, <2>2 DEF RosterInv
<1> QED
  BY <1>1, <1>2, <1>3, <1>4, <1>5, <1>6, <1>7 DEF Serve, Syncs

-----------------------------------------------------------------------------
\* Readiness.
LEMMA StillReports ==
  ASSUME NEW s \in Seq(UpFrame)
  PROVE  /\ \A f \in UpFrame : /\ Reports(s) => Reports(Append(s, f))
                               /\ f.type = "TIME_READY" => Reports(Append(s, f))
                               /\ Publishes(s) => Publishes(Append(s, f))
                               /\ f.type = "TIME_SPEED" => Publishes(Append(s, f))
         /\ s # <<>> /\ s[1].type # "TIME_READY" /\ Reports(s) => Reports(Tail(s))
         /\ s # <<>> /\ s[1].type # "TIME_SPEED" /\ Publishes(s) => Publishes(Tail(s))
<1>1. Len(s) \in Nat /\ DOMAIN s = 1..Len(s)
  BY QueueFacts
<1>2. ASSUME NEW f \in UpFrame
      PROVE  /\ Reports(s) => Reports(Append(s, f))
             /\ f.type = "TIME_READY" => Reports(Append(s, f))
             /\ Publishes(s) => Publishes(Append(s, f))
             /\ f.type = "TIME_SPEED" => Publishes(Append(s, f))
  <2> DEFINE t == Append(s, f)
  <2>1. DOMAIN t = 1..(Len(s) + 1) /\ t[Len(s) + 1] = f /\ \A i \in 1..Len(s) : t[i] = s[i]
    BY Appended
  <2> HIDE DEF t
  <2>2. Len(s) + 1 \in DOMAIN t /\ \A i \in DOMAIN s : i \in DOMAIN t /\ t[i] = s[i]
    BY <1>1, <2>1
  <2>3. /\ Reports(s) => Reports(t)
        /\ f.type = "TIME_READY" => Reports(t)
        /\ Publishes(s) => Publishes(t)
        /\ f.type = "TIME_SPEED" => Publishes(t)
    BY <2>1, <2>2 DEF Reports, Publishes
  <2> QED
    BY <2>3 DEF t
<1>3. ASSUME s # <<>>
      PROVE  /\ s[1].type # "TIME_READY" /\ Reports(s) => Reports(Tail(s))
             /\ s[1].type # "TIME_SPEED" /\ Publishes(s) => Publishes(Tail(s))
  <2> DEFINE t == Tail(s)
  <2>1. DOMAIN t = 1..(Len(s) - 1) /\ \A i \in 1..(Len(s) - 1) : t[i] = s[i + 1]
    BY <1>3, Tailed
  <2> HIDE DEF t
  <2>2. \A i \in DOMAIN s : i # 1 => i - 1 \in DOMAIN t /\ t[i - 1] = s[i]
    BY <1>1, <2>1
  <2>3. /\ s[1].type # "TIME_READY" /\ Reports(s) => Reports(t)
        /\ s[1].type # "TIME_SPEED" /\ Publishes(s) => Publishes(t)
    BY <2>2 DEF Reports, Publishes
  <2> QED
    BY <2>3 DEF t
<1> QED
  BY <1>2, <1>3

\* Frames behind the others keep a WELCOME in the queue, and only its reading
\* takes it out.
Unwelcome(s) == \A i \in DOMAIN s : s[i].type # "WELCOME"

LEMMA WelcomeStays ==
  ASSUME NEW s \in Seq(DownFrame)
  PROVE  /\ \A f \in DownFrame : /\ Unwelcome(Append(s, f)) => Unwelcome(s)
         /\ s # <<>> /\ s[1].type # "WELCOME" /\ Unwelcome(Tail(s)) => Unwelcome(s)
<1>1. Len(s) \in Nat /\ DOMAIN s = 1..Len(s)
  BY QueueFacts
<1>2. ASSUME NEW f \in DownFrame, Unwelcome(Append(s, f)) PROVE Unwelcome(s)
  <2> DEFINE t == Append(s, f)
  <2>1. DOMAIN t = 1..(Len(s) + 1) /\ \A i \in 1..Len(s) : t[i] = s[i]
    BY Appended
  <2>2. Unwelcome(t)
    BY <1>2
  <2> HIDE DEF t
  <2>3. \A i \in DOMAIN s : i \in DOMAIN t /\ t[i] = s[i]
    BY <1>1, <2>1
  <2> QED
    BY <2>2, <2>3 DEF Unwelcome
<1>3. ASSUME s # <<>>, s[1].type # "WELCOME", Unwelcome(Tail(s)) PROVE Unwelcome(s)
  <2> DEFINE t == Tail(s)
  <2>1. DOMAIN t = 1..(Len(s) - 1) /\ \A i \in 1..(Len(s) - 1) : t[i] = s[i + 1]
    BY <1>3, Tailed
  <2>2. Unwelcome(t)
    BY <1>3
  <2> HIDE DEF t
  <2>3. \A i \in DOMAIN s : i # 1 => i - 1 \in DOMAIN t /\ t[i - 1] = s[i]
    BY <1>1, <2>1
  <2> QED
    BY <1>3, <2>2, <2>3 DEF Unwelcome
<1> QED
  BY <1>2, <1>3

LEMMA WelcomedFacts ==
  ASSUME NEW q
  PROVE  Welcomed(q) <=> q \in online /\ Unwelcome(incoming[q])
BY DEF Welcomed, Unwelcome

\* A member that is welcomed after a step but for its own reading was before.
LEMMA WelcomedBefore ==
  ASSUME Base, NEW p \in Member, NEW q \in connected' \cap online', Welcomed(q)',
         Serve(p) \/ Reads(p) \/ Alone(p) \/ Dial(p) \/ Break(p),
         Reads(p) => q # p \/ incoming[p][1].type # "WELCOME"
  PROVE  Welcomed(q) /\ q \in connected \cap online /\ (q = p => ~HandleHello(p) /\ ~Leave(p))
<1>0. /\ online \subseteq Member /\ connected \subseteq Member /\ incoming \in [Member -> Seq(DownFrame)]
  BY DEF Base, Plain, Wires
<1>w. q \in online' /\ Unwelcome(incoming'[q])
  BY DEF Welcomed, Unwelcome
<1>1. CASE Syncs(p)
  <2> DEFINE f == SpeedFrame("TIME_SYNC", Now')
  <2>1. /\ UNCHANGED <<online, connected>> /\ f \in DownFrame
        /\ \A r \in online : incoming'[r] = Append(incoming[r], f)
    BY <1>1, Announces
  <2> HIDE DEF f
  <2>2. q \in online /\ incoming[q] \in Seq(DownFrame) /\ incoming'[q] = Append(incoming[q], f)
    BY <1>0, <2>1
  <2>3. Unwelcome(incoming[q])
    BY <1>w, <2>1, <2>2, WelcomeStays
  <2>4. ~HandleHello(p) /\ ~(Leave(p) /\ q = p)
    <3>1. ASSUME HandleHello(p) PROVE FALSE
      BY <2>1, <3>1, Greeted
    <3>2. ASSUME Leave(p), q = p PROVE FALSE
      BY <2>1, <3>2, Departs
    <3> QED
      BY <3>1, <3>2
  <2> QED
    BY <2>1, <2>2, <2>3, <2>4, WelcomedFacts
<1>2. CASE HandleHello(p)
  <2> DEFINE j == SpeedFrame("PLAYER_JOINED", {p})
  <2>1. /\ p \notin online /\ online' = online \cup {p} /\ UNCHANGED connected
        /\ incoming'[p] = <<SpeedFrame("WELCOME", 0), SpeedFrame("ROOM_STATE", online \cup {p})>>
        /\ \A r \in online : incoming'[r] = Append(incoming[r], j)
    BY <1>2, Greeted
  <2>2. j \in DownFrame
    BY DownFrames
  <2> HIDE DEF j
  <2>3. q # p
    <3>1. 1 \in DOMAIN incoming'[p] /\ incoming'[p][1].type = "WELCOME"
      BY <2>1, Fields
    <3> QED
      BY <1>w, <3>1 DEF Unwelcome
  <2>4. q \in online /\ incoming[q] \in Seq(DownFrame) /\ incoming'[q] = Append(incoming[q], j)
    BY <1>0, <2>1, <2>3
  <2>5. Unwelcome(incoming[q])
    BY <1>w, <2>2, <2>4, WelcomeStays
  <2> QED
    BY <2>1, <2>3, <2>4, <2>5, WelcomedFacts
<1>3. CASE Leave(p)
  <2> DEFINE f == SpeedFrame("PLAYER_LEFT", {p})
  <2>1. /\ p \in online /\ online' = online \ {p} /\ UNCHANGED connected
        /\ \A r \in online \ {p} : incoming'[r] = Append(incoming[r], f)
    BY <1>3, Departs
  <2>2. f \in DownFrame
    BY DownFrames
  <2> HIDE DEF f
  <2>3. q \in online /\ q # p /\ incoming[q] \in Seq(DownFrame) /\ incoming'[q] = Append(incoming[q], f)
    BY <1>0, <2>1
  <2>4. Unwelcome(incoming[q])
    BY <1>w, <2>2, <2>3, WelcomeStays
  <2> QED
    BY <2>1, <2>3, <2>4, WelcomedFacts
<1>4. CASE DeepRelay(p)
  <2> DEFINE f == outgoing[p][1]
  <2>1. /\ UNCHANGED <<online, handler, connected>> /\ f \in DownFrame
        /\ \A r \in Member : incoming'[r] \in {incoming[r], Append(incoming[r], f)}
    BY <1>4, Forwards
  <2> HIDE DEF f
  <2>2. q \in online /\ q \in Member /\ incoming[q] \in Seq(DownFrame)
    BY <1>0, <2>1
  <2>3. incoming'[q] = incoming[q] \/ incoming'[q] = Append(incoming[q], f)
    BY <2>1, <2>2
  <2>4. Unwelcome(incoming[q])
    BY <1>w, <2>1, <2>2, <2>3, WelcomeStays
  <2>5. ~HandleHello(p) /\ ~(Leave(p) /\ q = p)
    <3>1. ASSUME HandleHello(p) PROVE FALSE
      BY <2>1, <3>1, Greeted
    <3>2. ASSUME Leave(p), q = p PROVE FALSE
      BY <2>1, <3>2, Departs
    <3> QED
      BY <3>1, <3>2
  <2> QED
    BY <2>1, <2>2, <2>4, <2>5, WelcomedFacts
<1>5. CASE Reads(p)
  <2>1. PICK types : Read(p, types)
    BY <1>5, ReadEffects
  <2>2. /\ p \in online /\ incoming[p] \in Seq(DownFrame) /\ incoming[p] # <<>>
        /\ incoming'[p] = Tail(incoming[p]) /\ \A r \in Member \ {p} : incoming'[r] = incoming[r]
        /\ UNCHANGED <<online, connected, handler>>
    BY <2>1, ReadsNext
  <2>3. q \in online /\ q \in Member
    BY <1>0, <2>2
  <2>4. Unwelcome(incoming[q])
    <3>1. CASE q = p
      BY <1>5, <1>w, <2>2, <3>1, WelcomeStays
    <3>2. CASE q # p
      BY <1>w, <2>2, <2>3, <3>2
    <3> QED
      BY <3>1, <3>2
  <2>5. ~HandleHello(p) /\ ~(Leave(p) /\ q = p)
    <3>1. ASSUME HandleHello(p) PROVE FALSE
      BY <2>2, <3>1, Greeted
    <3>2. ASSUME Leave(p), q = p PROVE FALSE
      BY <2>2, <2>3, <3>2, Departs
    <3> QED
      BY <3>1, <3>2
  <2> QED
    BY <2>2, <2>3, <2>4, <2>5, WelcomedFacts
<1>6. CASE Alone(p)
  <2>1. UNCHANGED <<online, incoming, connected>>
    BY <1>6, AloneSteps DEF SaysLittle
  <2>2. ~HandleHello(p) /\ ~(Leave(p) /\ q = p)
    <3>1. ASSUME HandleHello(p) PROVE FALSE
      BY <2>1, <3>1, Greeted
    <3>2. ASSUME Leave(p), q = p PROVE FALSE
      BY <2>1, <3>2, Departs
    <3> QED
      BY <3>1, <3>2
  <2> QED
    BY <1>w, <2>1, <2>2, WelcomedFacts
<1>7. CASE Dial(p) \/ Break(p)
  <2>1. /\ UNCHANGED online /\ \A r \in Member \ {p} : incoming'[r] = incoming[r]
        /\ \A r \in connected' \cap online' : r # p /\ r \in connected
    BY <1>7, Dials, Breaks
  <2>2. q \in connected \cap online /\ q # p /\ q \in Member
    BY <1>0, <2>1
  <2> QED
    BY <1>w, <2>1, <2>2, WelcomedFacts
<1> QED
  BY <1>1, <1>2, <1>3, <1>4, <1>5, <1>6, <1>7 DEF Serve, Syncs


LEMMA ReadyStep ==
  ASSUME Base, ReadyInv, NEW p \in Member, Serve(p) \/ Reads(p) \/ Alone(p) \/ Dial(p) \/ Break(p)
  PROVE  ReadyInv'
<1>0. /\ online \subseteq Member /\ connected \subseteq Member /\ outgoing \in [Member -> Seq(UpFrame)]
      /\ \A q \in Member : ConnOf(q)
  BY DEF Base, Plain, Wires, Conns
<1>s. SUFFICES ASSUME NEW q \in connected' \cap online', q \in reported', Welcomed(q)'
               PROVE  q \in primed' \/ Reports(outgoing'[q])
  BY DEF ReadyInv
<1>b. ASSUME ~(Reads(p) /\ q = p /\ incoming[p][1].type = "WELCOME")
      PROVE  /\ q \in connected \cap online /\ q \in Member /\ outgoing[q] \in Seq(UpFrame)
             /\ q = p => ~HandleHello(p) /\ ~Leave(p)
             /\ q \in reported => q \in primed \/ Reports(outgoing[q])
  <2>1. Welcomed(q) /\ q \in connected \cap online /\ (q = p => ~HandleHello(p) /\ ~Leave(p))
    BY <1>s, <1>b, WelcomedBefore
  <2> QED
    BY <1>0, <2>1 DEF ReadyInv
<1>1. CASE Syncs(p)
  <2>1. /\ UNCHANGED reported /\ \A x \in Member \ {p} : outgoing'[x] = outgoing[x]
    BY <1>1, Announces
  <2>0. ~(Reads(p) /\ q = p /\ incoming[p][1].type = "WELCOME")
    <3>1. ASSUME Reads(p), q = p, incoming[p][1].type = "WELCOME" PROVE FALSE
      BY <1>s, <2>1, <3>1, ReadEffects
    <3> QED
      BY <3>1
  <2>2. q \in Member /\ q \in online /\ outgoing[q] \in Seq(UpFrame) /\ (q \in primed \/ Reports(outgoing[q]))
    BY <1>s, <1>b, <2>0, <2>1
  <2>3. CASE Finish(p)
    <3>1. primed' = primed \ {p} /\ outgoing' = outgoing /\ handler[p] \in {"hello", "leave"}
      BY <2>3 DEF Finish
    <3>2. p \in primed => p \notin online
      BY <1>0, <3>1 DEF ConnOf
    <3> QED
      BY <2>2, <3>1, <3>2
  <2>4. CASE HandleReady(p)
    BY <2>1, <2>2, <2>4 DEF HandleReady
  <2>5. CASE HandleSpeed(p)
    <3>1. primed' = primed /\ Handle(p, "TIME_SPEED")
      BY <2>5 DEF HandleSpeed
    <3>2. outgoing[p] # <<>> /\ outgoing[p][1].type = "TIME_SPEED" /\ outgoing'[p] = Tail(outgoing[p])
      BY <3>1, Handles
    <3> QED
      BY <2>1, <2>2, <3>1, <3>2, StillReports
  <2> QED
    BY <1>1, <2>3, <2>4, <2>5 DEF Syncs
<1>2. CASE HandleHello(p) \/ Leave(p) \/ DeepRelay(p)
  <2>1. UNCHANGED reported
    BY <1>2, Greeted, Departs, Forwards
  <2>0. ~(Reads(p) /\ q = p /\ incoming[p][1].type = "WELCOME")
    <3>1. ASSUME Reads(p), q = p, incoming[p][1].type = "WELCOME" PROVE FALSE
      BY <1>s, <2>1, <3>1, ReadEffects
    <3> QED
      BY <3>1
  <2>2. /\ q \in Member /\ outgoing[q] \in Seq(UpFrame) /\ (q \in primed \/ Reports(outgoing[q]))
        /\ q = p => ~HandleHello(p) /\ ~Leave(p)
    BY <1>s, <1>b, <2>0, <2>1
  <2>3. CASE HandleHello(p)
    <3>1. Handle(p, "HELLO") /\ primed' = primed
      BY <2>3 DEF HandleHello
    <3>2. \A x \in Member \ {p} : outgoing'[x] = outgoing[x]
      BY <3>1, Handles
    <3> QED
      BY <2>2, <2>3, <3>1, <3>2
  <2>4. CASE Leave(p)
    <3>1. primed' = primed \ {p} /\ outgoing' = outgoing
      BY <2>4, Departs
    <3> QED
      BY <2>2, <2>4, <3>1
  <2>5. CASE DeepRelay(p)
    <3>1. primed' = primed /\ Handle(p, "DEEP_RELAY")
      BY <2>5, Forwards
    <3>2. /\ outgoing[p] # <<>> /\ outgoing[p][1].type = "DEEP_RELAY" /\ outgoing'[p] = Tail(outgoing[p])
          /\ \A x \in Member \ {p} : outgoing'[x] = outgoing[x]
      BY <3>1, Handles
    <3> QED
      BY <2>2, <3>1, <3>2, StillReports
  <2> QED
    BY <1>2, <2>3, <2>4, <2>5
<1>3. CASE Reads(p)
  <2>1. PICK types : Read(p, types)
    BY <1>3, ReadEffects
  <2>2. UNCHANGED <<primed, outgoing>>
    BY <2>1, ReadsNext
  <2>3. reported' \subseteq reported /\ (incoming[p][1].type = "WELCOME" => p \notin reported')
    BY <1>3, ReadEffects
  <2> QED
    BY <1>s, <1>b, <2>2, <2>3
<1>4. CASE Alone(p)
  <2>1. SaysLittle(p)
    BY <1>4, AloneSteps
  <2>2. /\ UNCHANGED <<primed, incoming>> /\ \A x \in Member \ {p} : outgoing'[x] = outgoing[x]
        /\ reported' \subseteq reported \cup {p}
        /\ \/ UNCHANGED <<outgoing, reported>>
           \/ \E f \in UpFrame : Says(p, f)
    BY <2>1 DEF SaysLittle
  <2>0. ~(Reads(p) /\ q = p /\ incoming[p][1].type = "WELCOME")
    <3>1. ASSUME Reads(p), q = p, incoming[p][1].type = "WELCOME" PROVE FALSE
      BY <1>s, <3>1, ReadEffects
    <3> QED
      BY <3>1
  <2>3. q \in Member /\ outgoing[q] \in Seq(UpFrame) /\ (q \in reported => q \in primed \/ Reports(outgoing[q]))
    BY <1>b, <2>0
  <2>4. CASE UNCHANGED <<outgoing, reported>>
    BY <1>s, <2>2, <2>3, <2>4
  <2>5. ASSUME NEW f \in UpFrame, Says(p, f) PROVE q \in primed' \/ Reports(outgoing'[q])
    <3>1. outgoing'[p] = Append(outgoing[p], f) /\ (reported' = reported \/ f.type = "TIME_READY")
      BY <2>5 DEF Says
    <3>2. CASE q # p
      BY <1>s, <2>2, <2>3, <3>2
    <3>3. CASE q = p
      BY <1>s, <2>2, <2>3, <3>1, <3>3, StillReports
    <3> QED
      BY <3>2, <3>3
  <2> QED
    BY <2>2, <2>4, <2>5
<1>5. CASE Dial(p) \/ Break(p)
  <2>1. /\ UNCHANGED <<primed, reported>> /\ \A x \in Member \ {p} : outgoing'[x] = outgoing[x]
        /\ \A r \in connected' \cap online' : r # p
    BY <1>5, Dials, Breaks
  <2>2. q # p /\ q \in Member /\ (q \in primed \/ Reports(outgoing[q]))
    BY <1>s, <1>b, <2>1
  <2> QED
    BY <2>1, <2>2
<1> QED
  BY <1>1, <1>2, <1>3, <1>4, <1>5 DEF Serve, Syncs

-----------------------------------------------------------------------------
\* What a client will have been told.
LEMMA ToldStep ==
  ASSUME Base, ToldInv, NEW p \in Member, Serve(p) \/ Reads(p) \/ Alone(p) \/ Dial(p) \/ Break(p)
  PROVE  ToldInv'
<1>0. /\ online \subseteq Member /\ connected \subseteq Member /\ outgoing \in [Member -> Seq(UpFrame)]
      /\ handler \in [Member -> {"idle", "hello", "leave"}]
      /\ incoming \in [Member -> Seq(DownFrame)]
  BY DEF Base, Plain, Wires
<1>s. SUFFICES ASSUME \A x \in Member : handler'[x] = "idle", NEW q \in connected' \cap online'
               PROVE  Told(incoming'[q], outgoing'[q], gate'[q], speed'[q], Now')
  BY DEF ToldInv
<1> DEFINE was == Now
           now == Now'
<1>i. (\A x \in Member : handler[x] = "idle") /\ q \in connected \cap online =>
        Told(incoming[q], outgoing[q], gate[q], speed[q], was)
  BY DEF ToldInv
<1>n. UNCHANGED <<online, primed, pace>> => now = was
  BY DEF Now, Open
<1> HIDE DEF was, now
<1>1. CASE Syncs(p)
  <2> DEFINE f == SpeedFrame("TIME_SYNC", now)
  <2>1. /\ UNCHANGED <<online, connected, gate, speed>> /\ f \in DownFrame
        /\ \A r \in online : incoming'[r] = Append(incoming[r], f)
    BY <1>1, Announces DEF now
  <2>2. f.type = "TIME_SYNC" /\ f.arg = now
    BY Fields
  <2> HIDE DEF f
  <2>3. incoming[q] \in Seq(DownFrame) /\ incoming'[q] = Append(incoming[q], f)
    BY <1>0, <1>s, <2>1
  <2> DEFINE s == incoming[q]
             out == outgoing'[q]
             g == gate'[q]
             v == speed'[q]
  <2>4. incoming'[q] = Append(s, f) /\ s \in Seq(DownFrame)
    BY <2>3
  <2> HIDE DEF s, out, g, v
  <2>5. Told(Append(s, f), out, g, v, now)
    BY <2>1, <2>2, <2>4, ToldNew
  <2> QED
    BY <2>4, <2>5 DEF out, g, v, now
<1>2. CASE HandleHello(p)
  <2>1. handler' = [handler EXCEPT ![p] = "hello"]
    BY <1>2, Greeted
  <2> QED
    BY <1>0, <1>s, <2>1
<1>3. CASE Leave(p)
  <2>1. handler' = [handler EXCEPT ![p] = "leave"]
    BY <1>3, Departs
  <2> QED
    BY <1>0, <1>s, <2>1
<1>4. CASE DeepRelay(p)
  <2> DEFINE f == outgoing[p][1]
             s == incoming[q]
             out == outgoing[q]
             more == outgoing'[q]
             g == gate[q]
             v == speed[q]
  <2>1. /\ UNCHANGED <<online, primed, pace, handler, connected, gate, speed>> /\ Handle(p, "DEEP_RELAY")
        /\ f.type = "DEEP_RELAY" /\ f \in DownFrame
        /\ \A r \in Member : incoming'[r] \in {incoming[r], Append(incoming[r], f)}
    BY <1>4, Forwards
  <2>2. /\ outgoing[p] # <<>> /\ outgoing'[p] = Tail(outgoing[p])
        /\ \A r \in Member \ {p} : outgoing'[r] = outgoing[r]
    BY <2>1, Handles
  <2>3. q \in Member /\ Told(s, out, g, v, was) /\ now = was /\ s \in Seq(DownFrame) /\ out \in Seq(UpFrame)
    BY <1>0, <1>s, <1>i, <1>n, <2>1
  <2>4. Publishes(out) => Publishes(more)
    BY <2>1, <2>2, <2>3, StillReports
  <2>5. incoming'[q] \in {s, Append(s, f)} /\ gate'[q] = g /\ speed'[q] = v
    BY <2>1, <2>3
  <2> HIDE DEF f, s, out, more, g, v
  <2>6. ~Moves(f)
    BY <2>1 DEF Moves
  <2>7. Told(s, more, g, v, was)
    BY <2>3, <2>4, ToldOut
  <2>8. Told(Append(s, f), more, g, v, was)
    BY <2>1, <2>3, <2>6, <2>7, ToldNew
  <2> QED
    BY <2>3, <2>5, <2>7, <2>8 DEF more, now
<1>5. CASE Reads(p)
  <2>1. PICK types : Read(p, types)
    BY <1>5, ReadEffects
  <2>2. /\ UNCHANGED <<online, primed, pace, handler, connected, outgoing>>
        /\ incoming[p] \in Seq(DownFrame) /\ incoming[p] # <<>> /\ incoming'[p] = Tail(incoming[p])
        /\ \A r \in Member \ {p} : incoming'[r] = incoming[r]
    BY <2>1, ReadsNext
  <2>3. /\ incoming[p][1].type = "TIME_SYNC" =>
             gate'[p] = incoming[p][1].arg.gate /\ speed'[p] = incoming[p][1].arg.speed
        /\ ~Moves(incoming[p][1]) => gate'[p] = gate[p] /\ speed'[p] = speed[p]
        /\ \A r \in Member \ {p} : gate'[r] = gate[r] /\ speed'[r] = speed[r]
    <3>1. incoming[p][1].type # "TIME_SYNC" \/ Moves(incoming[p][1])
      BY DEF Moves
    <3> QED
      BY <1>5, <3>1, ReadEffects
  <2>4. q \in Member /\ Told(incoming[q], outgoing[q], gate[q], speed[q], was) /\ now = was
    BY <1>0, <1>s, <1>i, <1>n, <2>2
  <2>5. CASE q = p
    <3> DEFINE s == incoming[p]
               out == outgoing[p]
               g == gate[p]
               v == speed[p]
               h == gate'[p]
               w == speed'[p]
    <3>1. /\ Told(s, out, g, v, was) /\ s \in Seq(DownFrame) /\ s # <<>>
          /\ s[1].type = "TIME_SYNC" /\ s[1].arg = was => h = was.gate /\ w = was.speed
          /\ ~Moves(s[1]) => h = g /\ w = v
      BY <2>2, <2>3, <2>4, <2>5
    <3>2. incoming'[q] = Tail(s) /\ outgoing'[q] = out /\ gate'[q] = h /\ speed'[q] = w
      BY <2>2, <2>5
    <3> HIDE DEF s, out, g, v, h, w
    <3>3. Told(Tail(s), out, h, w, was)
      BY <3>1, ToldTail
    <3> QED
      BY <2>4, <3>2, <3>3 DEF now
  <2>6. CASE q # p
    BY <2>2, <2>3, <2>4, <2>6 DEF now
  <2> QED
    BY <2>5, <2>6
<1>6. CASE Alone(p)
  <2> DEFINE s == incoming[q]
             out == outgoing[q]
             more == outgoing'[q]
             g == gate[q]
             v == speed[q]
             w == speed'[q]
  <2>1. SaysLittle(p)
    BY <1>6, AloneSteps
  <2>2. /\ UNCHANGED <<online, primed, pace, handler, incoming, connected, gate>>
        /\ \A r \in Member \ {p} : outgoing'[r] = outgoing[r] /\ speed'[r] = speed[r]
        /\ \/ outgoing' = outgoing /\ speed'[p] = speed[p]
           \/ \E f \in UpFrame : Says(p, f)
    BY <2>1 DEF SaysLittle
  <2>3. q \in Member /\ Told(s, out, g, v, was) /\ now = was /\ out \in Seq(UpFrame)
    BY <1>0, <1>s, <1>i, <1>n, <2>2
  <2>4. (w = v /\ more = out) \/ ((w = v \/ Publishes(more)) /\ (Publishes(out) => Publishes(more)))
    <3>1. CASE q # p \/ (outgoing' = outgoing /\ speed'[p] = speed[p])
      BY <2>2, <2>3, <3>1
    <3>2. ASSUME q = p, NEW f \in UpFrame, Says(p, f)
          PROVE  (w = v \/ Publishes(more)) /\ (Publishes(out) => Publishes(more))
      <4>1. more = Append(out, f) /\ (w = v \/ f.type = "TIME_SPEED")
        BY <3>2 DEF Says
      <4> QED
        BY <2>3, <4>1, StillReports
    <3> QED
      BY <2>2, <3>1, <3>2
  <2>5. incoming'[q] = s /\ gate'[q] = g
    BY <2>2
  <2> HIDE DEF s, out, more, g, v, w
  <2>6. Told(s, more, g, w, was)
    BY <2>3, <2>4, ToldOut
  <2> QED
    BY <2>3, <2>5, <2>6 DEF more, w, now
<1>7. CASE Dial(p) \/ Break(p)
  <2>1. /\ UNCHANGED <<online, primed, pace, handler, gate, speed>>
        /\ \A r \in Member \ {p} : outgoing'[r] = outgoing[r] /\ incoming'[r] = incoming[r]
        /\ \A r \in connected' \cap online' : r # p /\ r \in connected
    BY <1>7, Dials, Breaks
  <2>2. q # p /\ q \in Member /\ Told(incoming[q], outgoing[q], gate[q], speed[q], was) /\ now = was
    BY <1>0, <1>s, <1>i, <1>n, <2>1
  <2> QED
    BY <2>1, <2>2 DEF now
<1> QED
  BY <1>1, <1>2, <1>3, <1>4, <1>5, <1>6, <1>7 DEF Serve, Syncs

-----------------------------------------------------------------------------
\* The speeds that can become the room's.
Explained(p) == SentChosen(p) /\ HeardChosen(p) /\ PlayedChosen(p)

LEMMA SentStays ==
  ASSUME NEW q, SentChosen(q), chosen \subseteq chosen',
         \/ outgoing'[q] = outgoing[q]
         \/ \A i \in DOMAIN outgoing'[q] : i \in DOMAIN outgoing[q] /\ outgoing'[q][i] = outgoing[q][i]
         \/ outgoing[q] \in Seq(UpFrame) /\ outgoing[q] # <<>> /\ outgoing'[q] = Tail(outgoing[q])
         \/ /\ outgoing[q] \in Seq(UpFrame)
            /\ \E f \in UpFrame : /\ outgoing'[q] = Append(outgoing[q], f)
                                  /\ f.type \in {"TIME_SPEED", "DEEP_RELAY"} => f.arg \in chosen'
  PROVE  SentChosen(q)'
<1> DEFINE s == outgoing[q]
           t == outgoing'[q]
           Fine(f) == f.type \in {"TIME_SPEED", "DEEP_RELAY"} => f.arg \in chosen'
<1>1. \A i \in DOMAIN s : Fine(s[i])
  BY DEF SentChosen
<1>2. SUFFICES \A i \in DOMAIN t : Fine(t[i])
  BY DEF SentChosen
<1>3. CASE t = s \/ \A i \in DOMAIN t : i \in DOMAIN s /\ t[i] = s[i]
  <2>1. \A i \in DOMAIN t : i \in DOMAIN s /\ t[i] = s[i]
    BY <1>3
  <2> HIDE DEF s, t, Fine
  <2> QED
    BY <1>1, <2>1
<1>4. CASE s \in Seq(UpFrame) /\ s # <<>> /\ t = Tail(s)
  <2>1. DOMAIN s = 1..Len(s) /\ DOMAIN t = 1..(Len(s) - 1) /\ \A i \in 1..(Len(s) - 1) : t[i] = s[i + 1]
    BY <1>4, QueueFacts, Tailed
  <2> HIDE DEF s, t, Fine
  <2>2. Len(s) \in Nat
    BY <1>4, QueueFacts
  <2>3. \A i \in DOMAIN t : i + 1 \in DOMAIN s /\ t[i] = s[i + 1]
    BY <2>1, <2>2
  <2> QED
    BY <1>1, <2>3
<1>5. ASSUME s \in Seq(UpFrame), NEW f \in UpFrame, t = Append(s, f), Fine(f) PROVE \A i \in DOMAIN t : Fine(t[i])
  <2>1. /\ DOMAIN s = 1..Len(s) /\ DOMAIN t = 1..(Len(s) + 1) /\ Len(s) \in Nat
        /\ \A i \in 1..Len(s) : t[i] = s[i]
        /\ t[Len(s) + 1] = f
    BY <1>5, QueueFacts, Appended
  <2>2. Fine(f)
    BY <1>5
  <2> HIDE DEF s, t, Fine
  <2>3. \A i \in DOMAIN t : (i \in DOMAIN s /\ t[i] = s[i]) \/ t[i] = f
    BY <2>1
  <2> QED
    BY <1>1, <2>2, <2>3
<1> QED
  BY <1>3, <1>4, <1>5

LEMMA HeardStays ==
  ASSUME NEW q, HeardChosen(q), chosen \subseteq chosen', incoming[q] \in Seq(DownFrame),
         \/ incoming'[q] = incoming[q] \/ incoming'[q] = <<>>
         \/ incoming[q] # <<>> /\ incoming'[q] = Tail(incoming[q])
         \/ \E f \in DownFrame : /\ incoming'[q] = Append(incoming[q], f)
                                 /\ f.type = "DEEP_RELAY" => f.arg \in chosen'
                                 /\ Opens(f) => f.arg.speed \in chosen'
  PROVE  HeardChosen(q)'
<1> DEFINE s == incoming[q]
           t == incoming'[q]
           Fine(f) == (f.type = "DEEP_RELAY" => f.arg \in chosen') /\ (Opens(f) => f.arg.speed \in chosen')
<1>1. \A i \in DOMAIN s : Fine(s[i])
  BY DEF HeardChosen
<1>2. SUFFICES \A i \in DOMAIN t : Fine(t[i])
  BY DEF HeardChosen, Opens
<1>0. Len(s) \in Nat /\ DOMAIN s = 1..Len(s)
  BY QueueFacts
<1>3. CASE t = s \/ t = <<>>
  <2>1. \A i \in DOMAIN t : i \in DOMAIN s /\ t[i] = s[i]
    BY <1>3
  <2> HIDE DEF s, t, Fine
  <2> QED
    BY <1>1, <2>1
<1>4. CASE s # <<>> /\ t = Tail(s)
  <2>1. DOMAIN t = 1..(Len(s) - 1) /\ \A i \in 1..(Len(s) - 1) : t[i] = s[i + 1]
    BY <1>4, Tailed
  <2> HIDE DEF s, t, Fine
  <2>3. \A i \in DOMAIN t : i + 1 \in DOMAIN s /\ t[i] = s[i + 1]
    BY <1>0, <2>1
  <2> QED
    BY <1>1, <2>3
<1>5. ASSUME NEW f \in DownFrame, t = Append(s, f), Fine(f) PROVE \A i \in DOMAIN t : Fine(t[i])
  <2>1. /\ DOMAIN t = 1..(Len(s) + 1)
        /\ \A i \in 1..Len(s) : t[i] = s[i]
        /\ t[Len(s) + 1] = f
    BY <1>5, Appended
  <2>2. Fine(f)
    BY <1>5
  <2> HIDE DEF s, t, Fine
  <2>3. \A i \in DOMAIN t : (i \in DOMAIN s /\ t[i] = s[i]) \/ t[i] = f
    BY <1>0, <2>1
  <2> QED
    BY <1>1, <2>2, <2>3
<1> QED
  BY <1>3, <1>4, <1>5

LEMMA PlayedStays ==
  ASSUME NEW q, PlayedChosen(q), chosen \subseteq chosen',
         gate'[q] = gate[q], speed'[q] = speed[q], local'[q] = local[q], known'[q] = known[q],
         q \in connected' /\ Welcomed(q)' => q \in connected /\ Welcomed(q)
  PROVE  PlayedChosen(q)'
<1>1. gate'[q] = FALSE => speed'[q] \in chosen'
  BY DEF PlayedChosen
<1>2. Short(q, known[q])' = Short(q, known[q])
  BY DEF Short
<1>3. q \in connected' /\ Welcomed(q)' /\ gate'[q] = FALSE /\ ~Short(q, known[q])' => local'[q] \in chosen'
  BY <1>2 DEF PlayedChosen
<1> QED
  BY <1>1, <1>3 DEF PlayedChosen

\* A step at which p reads nothing.
LEMMA WelcomeKept ==
  ASSUME Base, NEW p \in Member, Serve(p) \/ Alone(p) \/ Dial(p) \/ Break(p), ~Reads(p), NEW q \in Member,
         q \in connected', Welcomed(q)'
  PROVE  q \in connected /\ Welcomed(q)
<1>1. q \in online'
  BY DEF Welcomed
<1> QED
  BY <1>1, WelcomedBefore

\* A queue that is read is another one.
LEMMA Shrinks ==
  ASSUME NEW S, NEW s \in Seq(S), s # <<>>
  PROVE  Tail(s) # s /\ \A f \in S : Tail(s) # Append(s, f)
<1>1. Len(Tail(s)) = Len(s) - 1 /\ Len(s) \in Nat
  OBVIOUS
<1>2. \A f \in S : Len(Append(s, f)) = Len(s) + 1
  OBVIOUS
<1>3. PICK n \in Nat : n = Len(s)
  BY <1>1
<1>4. n - 1 # n /\ n - 1 # n + 1
  OBVIOUS
<1>5. Len(Tail(s)) # Len(s) /\ \A f \in S : Len(Tail(s)) # Len(Append(s, f))
  BY <1>1, <1>2, <1>3, <1>4
<1> QED
  BY <1>5, Zenon

\* Whatever else a step is, it is no reading if no client reads.
LEMMA NoReading ==
  ASSUME Base, NEW p \in Member, Serve(p) \/ Dial(p) \/ Break(p) \/ Alone(p)
  PROVE  ~Reads(p)
<1> SUFFICES ASSUME Reads(p) PROVE FALSE
  OBVIOUS
<1>1. PICK types : Read(p, types)
  BY ReadEffects
<1>2. /\ p \in online /\ p \in connected /\ incoming[p] \in Seq(DownFrame)
      /\ incoming[p] # <<>> /\ incoming'[p] = Tail(incoming[p])
      /\ UNCHANGED <<outgoing, connected, online, handler, acts>>
  BY <1>1, ReadsNext
<1>3. Tail(incoming[p]) # incoming[p] /\ \A f \in DownFrame : Tail(incoming[p]) # Append(incoming[p], f)
  BY <1>2, Shrinks
<1>4. CASE Syncs(p)
  <2>1. SpeedFrame("TIME_SYNC", Now') \in DownFrame
    BY <1>4, Announces
  <2>2. incoming'[p] = Append(incoming[p], SpeedFrame("TIME_SYNC", Now'))
    BY <1>2, <1>4, Announces
  <2> QED
    BY <1>2, <1>3, <2>1, <2>2
<1>5. CASE HandleHello(p) \/ Leave(p) \/ Dial(p)
  BY <1>2, <1>5, Greeted, Departs, Dials
<1>6. CASE Break(p)
  BY <1>2, <1>6, Breaks
<1>7. CASE DeepRelay(p)
  <2>1. Handle(p, "DEEP_RELAY")
    BY <1>7, Forwards
  <2>2. outgoing[p] \in Seq(UpFrame) /\ outgoing[p] # <<>> /\ outgoing'[p] = Tail(outgoing[p])
    BY <2>1, Handles
  <2>3. Tail(outgoing[p]) # outgoing[p]
    BY <2>2, Shrinks
  <2> QED
    BY <1>2, <2>2, <2>3
<1>8. CASE Alone(p)
  <2>1. incoming' = incoming
    BY <1>8, AloneSteps DEF SaysLittle
  <2> QED
    BY <1>2, <1>3, <2>1
<1> QED
  BY <1>4, <1>5, <1>6, <1>7, <1>8 DEF Serve, Syncs

\* What a handler sends on.
LEMMA ServeChosen ==
  ASSUME Base, NEW p \in Member, Serve(p), pace \in chosen, \A q \in Member : Explained(q)
  PROVE  pace' \in chosen' /\ chosen' = chosen /\ \A q \in Member : Explained(q)'
<1>0. /\ incoming \in [Member -> Seq(DownFrame)] /\ online \subseteq Member /\ ~Reads(p)
      /\ \A q \in Member : SentChosen(q) /\ HeardChosen(q) /\ PlayedChosen(q) /\ incoming[q] \in Seq(DownFrame)
  BY NoReading DEF Base, Plain, Wires, Explained
<1>1. /\ UNCHANGED <<connected, gate, known, speed, local, chosen>>
  BY Announces, Greeted, Departs, Forwards DEF Serve, Syncs
<1>2. ASSUME NEW q \in Member PROVE PlayedChosen(q)'
  <2>1. q \in connected' /\ Welcomed(q)' => q \in connected /\ Welcomed(q)
    BY <1>0, WelcomeKept
  <2> QED
    BY <1>0, <1>1, <2>1, PlayedStays
<1>3. ASSUME NEW type, Handle(p, type), NEW q \in Member PROVE SentChosen(q)'
  <2>1. /\ outgoing[p] \in Seq(UpFrame) /\ outgoing[p] # <<>> /\ outgoing'[p] = Tail(outgoing[p])
        /\ \A r \in Member \ {p} : outgoing'[r] = outgoing[r]
    BY <1>3, Handles
  <2>2. \/ outgoing'[q] = outgoing[q]
        \/ outgoing[q] \in Seq(UpFrame) /\ outgoing[q] # <<>> /\ outgoing'[q] = Tail(outgoing[q])
    BY <2>1
  <2> QED
    BY <1>0, <1>1, <2>2, SentStays
<1>4. ASSUME UNCHANGED outgoing, NEW q \in Member PROVE SentChosen(q)'
  BY <1>0, <1>1, <1>4, SentStays
<1>5. ASSUME NEW q \in Member, NEW f \in DownFrame, incoming'[q] = Append(incoming[q], f),
             f.type = "DEEP_RELAY" => f.arg \in chosen', Opens(f) => f.arg.speed \in chosen'
      PROVE  HeardChosen(q)'
  BY <1>0, <1>1, <1>5, HeardStays
<1>6. ASSUME NEW q \in Member, incoming'[q] = incoming[q] PROVE HeardChosen(q)'
  BY <1>0, <1>1, <1>6, HeardStays
<1>7. CASE Syncs(p)
  <2> DEFINE f == SpeedFrame("TIME_SYNC", Now')
  <2>1. /\ f \in DownFrame
        /\ \A q \in online : incoming'[q] = Append(incoming[q], f)
        /\ \A q \in Member \ online : incoming'[q] = incoming[q]
    BY <1>7, Announces
  <2>2. pace' \in chosen'
    <3>1. CASE Finish(p) \/ HandleReady(p)
      BY <1>1, <3>1 DEF Finish, HandleReady
    <3>2. CASE HandleSpeed(p)
      <4>1. Handle(p, "TIME_SPEED") /\ pace' = Head(outgoing[p]).arg
        BY <3>2 DEF HandleSpeed
      <4>2. Head(outgoing[p]) = outgoing[p][1] /\ 1 \in DOMAIN outgoing[p] /\ outgoing[p][1].type = "TIME_SPEED"
        BY <4>1, Handles
      <4> QED
        BY <1>0, <1>1, <4>1, <4>2 DEF SentChosen
    <3> QED
      BY <1>7, <3>1, <3>2 DEF Syncs
  <2>3. /\ f.type = "TIME_SYNC" /\ (Opens(f) => f.arg.speed \in chosen')
    <3>1. f.type = "TIME_SYNC" /\ f.arg = Now'
      BY Fields
    <3>2. Now'.gate = ~Open' /\ Now'.speed = IF Open' THEN pace' ELSE 0
      BY DEF Now
    <3> QED
      BY <2>2, <3>1, <3>2 DEF Opens
  <2>4. ASSUME NEW q \in Member PROVE SentChosen(q)'
    BY <1>3, <1>4, <1>7, <2>4 DEF Syncs, Finish, HandleReady, HandleSpeed
  <2> HIDE DEF f
  <2>5. ASSUME NEW q \in Member PROVE HeardChosen(q)'
    <3>1. CASE q \in online
      BY <1>5, <2>1, <2>3, <3>1
    <3>2. CASE q \notin online
      BY <1>6, <2>1, <3>2
    <3> QED
      BY <3>1, <3>2
  <2> QED
    BY <1>1, <1>2, <2>2, <2>4, <2>5 DEF Explained
<1>8. CASE HandleHello(p)
  <2> DEFINE j == SpeedFrame("PLAYER_JOINED", {p})
  <2>1. /\ UNCHANGED pace
        /\ incoming'[p] = <<SpeedFrame("WELCOME", 0), SpeedFrame("ROOM_STATE", online \cup {p})>>
        /\ \A q \in online : incoming'[q] = Append(incoming[q], j)
        /\ \A q \in Member : q # p /\ q \notin online => incoming'[q] = incoming[q]
        /\ p \notin online
    BY <1>8, Greeted
  <2>2. j \in DownFrame /\ j.type = "PLAYER_JOINED"
    BY DownFrames, Fields
  <2>3. ASSUME NEW q \in Member PROVE SentChosen(q)'
    BY <1>3, <1>8, <2>3 DEF HandleHello
  <2> HIDE DEF j
  <2>4. ~Opens(j)
    BY <2>2 DEF Opens
  <2>5. ASSUME NEW q \in Member PROVE HeardChosen(q)'
    <3>1. CASE q = p
      <4> DEFINE t == incoming'[p]
      <4>1. DOMAIN t = 1..2 /\ t[1].type = "WELCOME" /\ t[2].type = "ROOM_STATE"
        BY <2>1, Fields
      <4> HIDE DEF t
      <4>2. \A i \in DOMAIN t : t[i].type # "DEEP_RELAY" /\ ~Opens(t[i])
        BY <4>1 DEF Opens
      <4> QED
        BY <3>1, <4>2 DEF t, HeardChosen, Opens
    <3>2. CASE q # p /\ q \in online
      BY <1>5, <2>1, <2>2, <2>4, <3>2
    <3>3. CASE q # p /\ q \notin online
      BY <1>6, <2>1, <3>3
    <3> QED
      BY <3>1, <3>2, <3>3
  <2> QED
    BY <1>1, <1>2, <2>1, <2>3, <2>5 DEF Explained
<1>9. CASE Leave(p)
  <2> DEFINE f == SpeedFrame("PLAYER_LEFT", {p})
  <2>1. /\ UNCHANGED <<pace, outgoing>>
        /\ \A q \in online \ {p} : incoming'[q] = Append(incoming[q], f)
        /\ \A q \in Member \ (online \ {p}) : incoming'[q] = incoming[q]
    BY <1>9, Departs
  <2>2. f \in DownFrame /\ f.type = "PLAYER_LEFT"
    BY DownFrames, Fields
  <2> HIDE DEF f
  <2>3. ~Opens(f)
    BY <2>2 DEF Opens
  <2>4. ASSUME NEW q \in Member PROVE HeardChosen(q)'
    BY <1>5, <1>6, <2>1, <2>2, <2>3
  <2>5. \A q \in Member : SentChosen(q)'
    BY <1>4, <2>1
  <2> QED
    BY <1>1, <1>2, <2>1, <2>4, <2>5 DEF Explained
<1>10. CASE DeepRelay(p)
  <2> DEFINE f == outgoing[p][1]
  <2>1. /\ UNCHANGED pace /\ Handle(p, "DEEP_RELAY")
        /\ f.type = "DEEP_RELAY" /\ f \in DownFrame
        /\ \A q \in Member : incoming'[q] \in {incoming[q], Append(incoming[q], f)}
    BY <1>10, Forwards
  <2>2. f.arg \in chosen'
    <3>1. 1 \in DOMAIN outgoing[p]
      BY <2>1, Handles
    <3> QED
      BY <1>0, <1>1, <2>1, <3>1 DEF SentChosen
  <2>3. \A q \in Member : SentChosen(q)'
    BY <1>3, <2>1
  <2> HIDE DEF f
  <2>4. ~Opens(f)
    BY <2>1 DEF Opens
  <2>5. ASSUME NEW q \in Member PROVE HeardChosen(q)'
    <3>1. incoming'[q] = incoming[q] \/ incoming'[q] = Append(incoming[q], f)
      BY <2>1
    <3> QED
      BY <1>5, <1>6, <2>1, <2>2, <2>4, <3>1
  <2> QED
    BY <1>1, <1>2, <2>1, <2>3, <2>5 DEF Explained
<1> QED
  BY <1>7, <1>8, <1>9, <1>10 DEF Serve, Syncs

\* A game takes over what it reads.
LEMMA ReadsChosen ==
  ASSUME Base, GateInv, NEW p \in Member, Reads(p), pace \in chosen, \A q \in Member : Explained(q)
  PROVE  pace' \in chosen' /\ hasty' = hasty /\ \A q \in Member : Explained(q)'
<1>0. \A q \in Member : SentChosen(q) /\ HeardChosen(q) /\ PlayedChosen(q) /\ incoming[q] \in Seq(DownFrame)
  BY DEF Base, Wires, Explained
<1>p. /\ gate \in [Member -> BOOLEAN] /\ speed \in [Member -> Speed] /\ local \in [Member -> Speed]
      /\ known \in [Member -> SUBSET Member]
  BY DEF Base, Plain
<1> DEFINE f == incoming[p][1]
<1>1. PICK types : Read(p, types)
  BY ReadEffects
<1>2. /\ p \in connected /\ p \in online /\ incoming[p] \in Seq(DownFrame) /\ incoming[p] # <<>>
      /\ DOMAIN incoming[p] = 1..Len(incoming[p]) /\ Len(incoming[p]) \in Nat /\ Len(incoming[p]) > 0
      /\ Head(incoming[p]) = f /\ f \in DownFrame
      /\ incoming'[p] = Tail(incoming[p]) /\ \A q \in Member \ {p} : incoming'[q] = incoming[q]
      /\ UNCHANGED <<online, pace, outgoing, connected, chosen, hasty>>
  BY <1>1, ReadsNext
<1>3. \A q \in Member : SentChosen(q)'
  BY <1>0, <1>2, SentStays
<1>4. ASSUME NEW q \in Member PROVE HeardChosen(q)'
  <2>1. incoming'[q] = incoming[q] \/ (incoming[q] # <<>> /\ incoming'[q] = Tail(incoming[q]))
    BY <1>2
  <2> QED
    BY <1>0, <1>2, <2>1, HeardStays
<1>h. 1 \in DOMAIN incoming[p] /\ (f.type = "DEEP_RELAY" => f.arg \in chosen) /\ (Opens(f) => f.arg.speed \in chosen)
  BY <1>0, <1>2 DEF HeardChosen
<1>g. Grows(f) => gate[p] = TRUE
  <2>1. Grows(f) => ShutAt(incoming[p], gate[p], 1 - 1)
    BY <1>2, <1>h DEF GateInv, GateOf
  <2>2. ShutAt(incoming[p], gate[p], 0) => gate[p] = TRUE
    BY DEF ShutAt
  <2> QED
    BY <2>1, <2>2
<1>5. ASSUME NEW q \in Member, q # p, gate'[q] = gate[q], speed'[q] = speed[q], local'[q] = local[q],
             known'[q] = known[q]
      PROVE  PlayedChosen(q)'
  <2>1. q \in connected' /\ Welcomed(q)' => q \in connected /\ Welcomed(q)
    BY <1>2, <1>5, WelcomedFacts DEF Welcomed
  <2> QED
    BY <1>0, <1>2, <1>5, <2>1, PlayedStays
<1>6. ASSUME f.type # "WELCOME" PROVE Welcomed(p)' => Welcomed(p)
  <2>1. Welcomed(p)' => Unwelcome(Tail(incoming[p]))
    BY <1>2 DEF Welcomed, Unwelcome
  <2>2. Unwelcome(Tail(incoming[p])) => Unwelcome(incoming[p])
    BY <1>2, <1>6, WelcomeStays
  <2> QED
    BY <1>2, <2>1, <2>2, WelcomedFacts
<1>w. /\ gate[p] = FALSE => speed[p] \in chosen
      /\ Welcomed(p) /\ gate[p] = FALSE /\ ~Short(p, known[p]) => local[p] \in chosen
  BY <1>0, <1>2 DEF PlayedChosen
<1>7. CASE ReadWelcome(p)
  <2>1. gate' = [gate EXCEPT ![p] = TRUE] /\ UNCHANGED <<known, speed, local>>
    BY <1>7 DEF ReadWelcome, WelcomeGate
  <2>2. gate'[p] = TRUE /\ \A q \in Member \ {p} : gate'[q] = gate[q]
    BY <1>p, <2>1
  <2>3. PlayedChosen(p)'
    BY <2>2 DEF PlayedChosen
  <2> QED
    BY <1>2, <1>3, <1>4, <1>5, <2>1, <2>2, <2>3 DEF Explained
<1>8. CASE ReadRoster(p)
  <2> DEFINE in == CASE f.type = "ROOM_STATE" -> f.arg
                     [] f.type = "PLAYER_JOINED" -> known[p] \cup f.arg
                     [] f.type = "PLAYER_LEFT" -> known[p] \ f.arg
  <2>1. Read(p, {"ROOM_STATE", "PLAYER_JOINED", "PLAYER_LEFT"})
    BY <1>8 DEF ReadRoster
  <2>2. f.type \in {"ROOM_STATE", "PLAYER_JOINED", "PLAYER_LEFT"}
    BY <2>1, ReadsNext
  <2>3. known' = [known EXCEPT ![p] = in] /\ UNCHANGED <<gate, speed, local>>
    BY <1>2, <1>8 DEF ReadRoster
  <2>4. f.type = "PLAYER_LEFT" => in = known[p] \ f.arg
    OBVIOUS
  <2> HIDE DEF in
  <2>5. known'[p] = in /\ \A q \in Member \ {p} : known'[q] = known[q]
    BY <1>p, <2>3
  <2>6. CASE gate[p] = TRUE
    <3>1. PlayedChosen(p)'
      BY <2>3, <2>6 DEF PlayedChosen
    <3> QED
      BY <1>2, <1>3, <1>4, <1>5, <2>3, <2>5, <3>1 DEF Explained
  <2>7. CASE gate[p] # TRUE
    <3>1. f.type = "PLAYER_LEFT"
      BY <1>g, <2>2, <2>7 DEF Grows
    <3>2. in \subseteq known[p] /\ known[p] \subseteq Member
      BY <1>p, <2>4, <3>1
    <3>3. Short(p, known[p]) => Short(p, in)
      <4>1. IsFiniteSet(known[p])
        BY <3>2, Constant, FS_Subset
      <4>2. /\ IsFiniteSet(in) /\ Cardinality(in) <= Cardinality(known[p])
            /\ Cardinality(in) \in Nat /\ Cardinality(known[p]) \in Nat
        BY <3>2, <4>1, FS_Subset, FS_CardinalityType
      <4>3. MinMembers \in Int
        <5>1. Cardinality(Member) \in Nat
          BY Constant, FS_CardinalityType
        <5> QED
          BY <5>1, Constant
      <4> QED
        BY <4>2, <4>3 DEF Short
    <3>4. Short(p, known[p])' = Short(p, in)
      BY <2>5 DEF Short
    <3>5. PlayedChosen(p)'
      BY <1>2, <1>6, <1>w, <2>3, <3>1, <3>3, <3>4 DEF PlayedChosen
    <3> QED
      BY <1>2, <1>3, <1>4, <1>5, <2>3, <2>5, <3>5 DEF Explained
  <2> QED
    BY <2>6, <2>7
<1>9. CASE ReadTimeSync(p)
  <2> DEFINE hold == f.arg.gate \/ Short(p, known[p])
  <2>1. Read(p, {"TIME_SYNC"})
    BY <1>9 DEF ReadTimeSync
  <2>2. f.type = "TIME_SYNC" /\ f.arg.gate \in BOOLEAN
    BY <2>1, ReadsNext, DownTypes
  <2>3. /\ speed' = [speed EXCEPT ![p] = f.arg.speed] /\ gate' = [gate EXCEPT ![p] = f.arg.gate]
        /\ local' = [local EXCEPT ![p] = IF hold THEN 0 ELSE speed'[p]] /\ UNCHANGED known
    BY <1>2, <1>9 DEF ReadTimeSync, Obeyed
  <2>4. f.arg.gate = FALSE => f.arg.speed \in chosen
    BY <1>h, <2>2 DEF Opens
  <2>5. Short(p, known[p])' = Short(p, known[p])
    BY <2>3 DEF Short
  <2> DEFINE g == f.arg.gate
             v == f.arg.speed
             short == Short(p, known[p])
  <2>6. /\ gate'[p] = g /\ speed'[p] = v /\ (~g /\ ~short => local'[p] = v)
        /\ \A q \in Member \ {p} : gate'[q] = gate[q] /\ speed'[q] = speed[q] /\ local'[q] = local[q]
    <3> HIDE DEF f, short
    <3> QED
      BY <1>p, <2>3 DEF short
  <2>7. PlayedChosen(p)'
    BY <1>2, <2>2, <2>4, <2>5, <2>6 DEF PlayedChosen
  <2> QED
    BY <1>2, <1>3, <1>4, <1>5, <2>3, <2>6, <2>7 DEF Explained
<1>10. CASE ReadRelay(p)
  <2>1. Read(p, {"DEEP_RELAY"})
    BY <1>10 DEF ReadRelay
  <2>2. f.type = "DEEP_RELAY"
    BY <2>1, ReadsNext
  <2>3. local' = [local EXCEPT ![p] = f.arg] /\ UNCHANGED <<gate, known, speed>>
    BY <1>2, <1>10 DEF ReadRelay
  <2>4. local'[p] = f.arg /\ \A q \in Member \ {p} : local'[q] = local[q]
    BY <1>p, <2>3
  <2>5. PlayedChosen(p)'
    BY <1>2, <1>h, <1>w, <2>2, <2>3, <2>4 DEF PlayedChosen
  <2> QED
    BY <1>2, <1>3, <1>4, <1>5, <2>3, <2>4, <2>5 DEF Explained
<1> QED
  BY <1>7, <1>8, <1>9, <1>10 DEF Reads

\* What a client does of itself: it takes no speed over but the room's and its
\* user's.
LEMMA AloneChosen ==
  ASSUME Base, NEW p \in Member, Alone(p), hasty = {}, hasty' = {}, pace \in chosen,
         \A q \in Member : Explained(q)
  PROVE  pace' \in chosen' /\ \A q \in Member : Explained(q)'
<1>0. \A q \in Member : SentChosen(q) /\ HeardChosen(q) /\ PlayedChosen(q) /\ incoming[q] \in Seq(DownFrame)
  BY DEF Base, Wires, Explained
<1>p. /\ gate \in [Member -> BOOLEAN] /\ speed \in [Member -> Speed] /\ local \in [Member -> Speed]
      /\ known \in [Member -> SUBSET Member] /\ outgoing \in [Member -> Seq(UpFrame)] /\ Wires
  BY DEF Base, Plain, Wires
<1>a. /\ UNCHANGED <<online, pace, incoming, connected, gate, known>>
      /\ \A q \in Member \ {p} : outgoing'[q] = outgoing[q] /\ speed'[q] = speed[q]
  BY AloneSteps DEF SaysLittle
<1>m. Welcomed(p)' = Welcomed(p) /\ Short(p, known[p])' = Short(p, known[p])
  BY <1>a DEF Welcomed, Short
<1> DEFINE GameFine ==
      /\ gate[p] = FALSE => speed'[p] \in chosen'
      /\ p \in connected /\ Welcomed(p) /\ gate[p] = FALSE /\ ~Short(p, known[p]) => local'[p] \in chosen'
    Adds(f) == outgoing'[p] = Append(outgoing[p], f) /\ (f.type \in {"TIME_SPEED", "DEEP_RELAY"} => f.arg \in chosen')
\* The rest follows from what p's own step does to its queue and its game.
<1>r. ASSUME chosen \subseteq chosen', \A q \in Member \ {p} : local'[q] = local[q], GameFine,
             outgoing'[p] = outgoing[p] \/ \E f \in UpFrame : Adds(f)
      PROVE  pace' \in chosen' /\ \A q \in Member : Explained(q)'
  <2>1. pace' \in chosen'
    BY <1>a, <1>r
  <2>2. ASSUME NEW q \in Member PROVE SentChosen(q)'
    <3>1. outgoing[q] \in Seq(UpFrame)
      BY <1>p
    <3>2. \/ outgoing'[q] = outgoing[q]
          \/ \E f \in UpFrame : /\ outgoing'[q] = Append(outgoing[q], f)
                                /\ f.type \in {"TIME_SPEED", "DEEP_RELAY"} => f.arg \in chosen'
      BY <1>a, <1>r
    <3> QED
      BY <1>0, <1>r, <3>1, <3>2, SentStays
  <2>3. ASSUME NEW q \in Member PROVE HeardChosen(q)'
    BY <1>0, <1>a, <1>r, HeardStays
  <2>4. ASSUME NEW q \in Member, q # p PROVE PlayedChosen(q)'
    <3>1. q \in connected' /\ Welcomed(q)' => q \in connected /\ Welcomed(q)
      BY <1>a DEF Welcomed
    <3> QED
      BY <1>0, <1>a, <1>r, <2>4, <3>1, PlayedStays
  <2>5. PlayedChosen(p)'
    BY <1>a, <1>m, <1>r DEF PlayedChosen
  <2> QED
    BY <2>1, <2>2, <2>3, <2>4, <2>5 DEF Explained
<1>w. /\ gate[p] = FALSE => speed[p] \in chosen
      /\ p \in connected /\ Welcomed(p) /\ gate[p] = FALSE /\ ~Short(p, known[p]) => local[p] \in chosen
  BY <1>0 DEF PlayedChosen
<1>f. ASSUME NEW v, local' = [local EXCEPT ![p] = v] PROVE local'[p] = v /\ \A q \in Member \ {p} : local'[q] = local[q]
  BY <1>p, <1>f
<1> DEFINE ready == SpeedFrame("TIME_READY", 0)
<1>e. ready \in UpFrame /\ ready.type = "TIME_READY"
  BY UpFrames, Fields, Constant
<1> HIDE DEF ready
<1>1. CASE TickHolds(p)
  <2>1. /\ UNCHANGED <<speed, chosen>> /\ local' = [local EXCEPT ![p] = 0] /\ Held(p)
        /\ outgoing' = IF p \in connected \ reported THEN [outgoing EXCEPT ![p] = Append(@, ready)] ELSE outgoing
    BY <1>1 DEF TickHolds, ready
  <2>2. outgoing'[p] = outgoing[p] \/ outgoing'[p] = Append(outgoing[p], ready)
    BY <1>p, <2>1
  <2>3. GameFine
    BY <1>w, <2>1 DEF Held
  <2>4. outgoing'[p] = outgoing[p] \/ Adds(ready)
    BY <1>e, <2>2
  <2> HIDE DEF GameFine, Adds
  <2> QED
    BY <1>e, <1>f, <1>r, <2>1, <2>3, <2>4
<1>2. CASE TickPlays(p)
  <2>1. chosen' = chosen /\ ~Held(p)
    BY <1>2 DEF TickPlays
  <2>2. p \in connected /\ gate[p] = FALSE /\ ~Short(p, known[p])
    BY <1>p, <2>1 DEF Held
  <2>3. CASE local' = [local EXCEPT ![p] = speed[p]] /\ UNCHANGED <<outgoing, speed, echo, hasty>>
    <3>1. GameFine
      BY <1>f, <1>w, <2>1, <2>2, <2>3
    <3> HIDE DEF GameFine, Adds
    <3> QED
      BY <1>f, <1>r, <2>1, <2>3, <3>1
  <2>4. CASE /\ outgoing' = Publish(p, local[p]) /\ speed' = [speed EXCEPT ![p] = local[p]]
             /\ hasty' = (IF Welcomed(p) THEN hasty ELSE hasty \cup {p})
             /\ UNCHANGED local
    <3> DEFINE f == SpeedFrame("TIME_SPEED", local[p])
    <3>1. Welcomed(p)
      BY <2>4
    <3>2. local[p] \in chosen /\ local[p] \in Speed
      BY <1>p, <1>w, <2>2, <3>1
    <3>3. f \in UpFrame /\ f.type = "TIME_SPEED" /\ f.arg = local[p]
      BY <3>2, UpFrames, Fields
    <3>4. speed'[p] = local[p] /\ outgoing'[p] = Append(outgoing[p], f)
      BY <1>p, <2>4 DEF Publish
    <3>5. GameFine
      BY <2>1, <2>4, <3>2, <3>4
    <3>6. Adds(f)
      BY <2>1, <3>2, <3>3, <3>4
    <3> HIDE DEF GameFine, Adds, f
    <3> QED
      BY <1>r, <2>1, <2>4, <3>3, <3>5, <3>6
  <2> QED
    BY <1>2, <2>3, <2>4 DEF TickPlays
<1>3. CASE TickReports(p)
  <2>1. UNCHANGED <<speed, local, chosen>> /\ outgoing' = [outgoing EXCEPT ![p] = Append(@, ready)]
    BY <1>3 DEF TickReports, ready
  <2>2. GameFine
    BY <1>w, <2>1
  <2>3. Adds(ready)
    BY <1>e, <1>p, <2>1
  <2> HIDE DEF GameFine, Adds
  <2> QED
    BY <1>e, <1>r, <2>1, <2>2, <2>3
<1>4. CASE OpenedEnds(p) \/ EchoEnds(p)
  <2>1. UNCHANGED <<speed, local, chosen, outgoing>>
    BY <1>4 DEF OpenedEnds, EchoEnds
  <2>2. GameFine
    BY <1>w, <2>1
  <2> HIDE DEF GameFine, Adds
  <2> QED
    BY <1>r, <2>1, <2>2
<1>5. ASSUME NEW s \in Speed, PickInGame(p, s) PROVE pace' \in chosen' /\ \A q \in Member : Explained(q)'
  <2> DEFINE f == SpeedFrame("DEEP_RELAY", s)
  <2>1. /\ UNCHANGED speed /\ local' = [local EXCEPT ![p] = s] /\ chosen' = chosen \cup {s}
        /\ outgoing' = IF p \in connected \ {Host} THEN [outgoing EXCEPT ![p] = Append(@, f)] ELSE outgoing
    BY <1>5 DEF PickInGame, Pick
  <2>2. f \in UpFrame /\ f.arg = s
    BY UpFrames, Fields
  <2> HIDE DEF f
  <2>3. outgoing'[p] = outgoing[p] \/ outgoing'[p] = Append(outgoing[p], f)
    BY <1>p, <2>1
  <2>4. GameFine
    BY <1>f, <1>w, <2>1
  <2>5. outgoing'[p] = outgoing[p] \/ Adds(f)
    BY <2>1, <2>2, <2>3
  <2> HIDE DEF GameFine, Adds
  <2> QED
    BY <1>f, <1>r, <2>1, <2>2, <2>4, <2>5
<1>6. ASSUME NEW s \in Speed, PickByCommand(p, s) PROVE pace' \in chosen' /\ \A q \in Member : Explained(q)'
  <2> DEFINE f == SpeedFrame("TIME_SPEED", s)
  <2>1. /\ speed' = [speed EXCEPT ![p] = s] /\ chosen' = chosen \cup {s}
        /\ local' = local \/ local' = [local EXCEPT ![p] = s]
        /\ outgoing' = [outgoing EXCEPT ![p] = Append(@, f)]
    BY <1>6 DEF PickByCommand, Pick, Publish
  <2>2. f \in UpFrame /\ f.arg = s
    BY UpFrames, Fields
  <2> HIDE DEF f
  <2>3. outgoing'[p] = Append(outgoing[p], f) /\ speed'[p] = s
    BY <1>p, <2>1
  <2>4. (local'[p] = local[p] \/ local'[p] = s) /\ \A q \in Member \ {p} : local'[q] = local[q]
    BY <1>f, <2>1
  <2>5. GameFine
    BY <1>w, <2>1, <2>3, <2>4
  <2>6. Adds(f)
    BY <2>1, <2>2, <2>3
  <2> HIDE DEF GameFine, Adds
  <2> QED
    BY <1>r, <2>1, <2>2, <2>4, <2>5, <2>6
<1> QED
  BY <1>1, <1>2, <1>3, <1>4, <1>5, <1>6 DEF Alone

LEMMA HastyStays ==
  ASSUME Base, NEW p \in Member, Serve(p) \/ Reads(p) \/ Alone(p) \/ Dial(p) \/ Break(p), hasty' = {}
  PROVE  hasty = {}
<1>1. CASE Serve(p)
  BY <1>1, Announces, Greeted, Departs, Forwards DEF Serve, Syncs
<1>2. CASE Reads(p)
  <2>1. PICK types : Read(p, types)
    BY <1>2, ReadEffects
  <2> QED
    BY <2>1, ReadsNext
<1>3. CASE Alone(p)
  <2>1. hasty \subseteq hasty'
    BY <1>3 DEF Alone, TickHolds, TickPlays, TickReports, OpenedEnds, EchoEnds, PickInGame, PickByCommand
  <2> QED
    BY <2>1
<1>4. CASE Dial(p) \/ Break(p)
  BY <1>4, Dials, Breaks
<1> QED
  BY <1>1, <1>2, <1>3, <1>4

LEMMA ChosenStep ==
  ASSUME Base, GateInv, ChosenInv, NEW p \in Member, Serve(p) \/ Reads(p) \/ Alone(p) \/ Dial(p) \/ Break(p)
  PROVE  ChosenInv'
<1>s. SUFFICES ASSUME hasty' = {} PROVE pace' \in chosen' /\ \A q \in Member : Explained(q)'
  BY DEF ChosenInv, Explained
<1>1. hasty = {} /\ pace \in chosen /\ \A q \in Member : Explained(q)
  BY <1>s, HastyStays DEF ChosenInv, Explained
<1>2. CASE Serve(p)
  BY <1>1, <1>2, ServeChosen
<1>3. CASE Reads(p)
  BY <1>1, <1>3, ReadsChosen
<1>4. CASE Alone(p)
  BY <1>1, <1>4, <1>s, AloneChosen
<1>5. CASE Dial(p) \/ Break(p)
  <2>0. /\ \A q \in Member : SentChosen(q) /\ HeardChosen(q) /\ PlayedChosen(q) /\ incoming[q] \in Seq(DownFrame)
        /\ ~Reads(p)
    BY <1>1, <1>5, NoReading DEF Base, Wires, Explained
  <2>1. /\ UNCHANGED <<online, pace, gate, known, speed, local, chosen>> /\ incoming'[p] = <<>>
        /\ \A q \in Member \ {p} : outgoing'[q] = outgoing[q] /\ incoming'[q] = incoming[q]
        /\ \A q \in connected' \cap online' : q # p /\ q \in connected
    BY <1>5, Dials, Breaks
  <2>2. ASSUME NEW q \in Member PROVE PlayedChosen(q)'
    <3>1. q \in connected' /\ Welcomed(q)' => q \in connected /\ Welcomed(q)
      BY <1>5, <2>0, WelcomeKept
    <3> QED
      BY <2>0, <2>1, <3>1, PlayedStays
  <2>3. ASSUME NEW q \in Member PROVE HeardChosen(q)'
    <3>1. incoming'[q] = incoming[q] \/ incoming'[q] = <<>>
      BY <2>1
    <3> QED
      BY <2>0, <2>1, <3>1, HeardStays
  <2>4. ASSUME NEW q \in Member PROVE SentChosen(q)'
    <3>1. CASE q # p
      BY <2>0, <2>1, <3>1, SentStays
    <3>2. CASE q = p /\ Dial(p)
      <4> DEFINE t == outgoing'[p]
      <4>1. t = <<SpeedFrame("HELLO", 0)>>
        BY <3>2, Dials
      <4>2. DOMAIN t = {1} /\ t[1].type = "HELLO"
        BY <4>1, Fields
      <4> HIDE DEF t
      <4>3. \A i \in DOMAIN t : t[i].type \notin {"TIME_SPEED", "DEEP_RELAY"}
        BY <4>2
      <4> QED
        BY <3>2, <4>3 DEF t, SentChosen
    <3>3. CASE q = p /\ Break(p)
      <4>1. \A i \in DOMAIN outgoing'[q] : i \in DOMAIN outgoing[q] /\ outgoing'[q][i] = outgoing[q][i]
        BY <3>3, Breaks
      <4> QED
        BY <2>0, <2>1, <4>1, SentStays
    <3> QED
      BY <1>5, <3>1, <3>2, <3>3
  <2> QED
    BY <1>1, <2>1, <2>2, <2>3, <2>4 DEF Explained
<1> QED
  BY <1>2, <1>3, <1>4, <1>5

-----------------------------------------------------------------------------
\* The beginning.
LEMMA InitRest == SpeedInit => GateInv /\ ChosenInv /\ RosterInv /\ ReadyInv /\ ToldInv
<1> SUFFICES ASSUME SpeedInit PROVE GateInv /\ ChosenInv /\ RosterInv /\ ReadyInv /\ ToldInv
  OBVIOUS
<1>1. /\ online = Member /\ primed = Member /\ pace = 1 /\ chosen = {1} /\ hasty = {}
      /\ connected = Member /\ reported = Member
      /\ \A p \in Member : /\ outgoing[p] = <<>> /\ incoming[p] = <<>> /\ gate[p] = FALSE
                           /\ known[p] = Member /\ speed[p] = 1 /\ local[p] = 1
  BY DEF SpeedInit
<1>2. Len(<<>>) = 0 /\ DOMAIN <<>> = {}
  OBVIOUS
<1>3. GateInv
  BY <1>1, <1>2 DEF GateInv, GateOf
<1>4. ChosenInv
  BY <1>1, <1>2 DEF ChosenInv, SentChosen, HeardChosen, PlayedChosen
<1>5. RosterInv
  <2>1. \A x \in Member : There(<<>>, Member, x)
    BY <1>2 DEF There
  <2> QED
    BY <1>1, <2>1 DEF RosterInv
<1>6. ReadyInv
  BY <1>1 DEF ReadyInv
<1>7. Open
  BY <1>1, Constant, FS_CardinalityType DEF Open
<1>8. ToldInv
  <2> DEFINE now == Now
  <2>1. now.gate = FALSE /\ now.speed = 1
    BY <1>1, <1>7 DEF Now
  <2> HIDE DEF now
  <2>2. Told(<<>>, <<>>, FALSE, 1, now)
    BY <1>2, <2>1 DEF Told
  <2> QED
    BY <1>1, <2>2 DEF ToldInv, now
<1> QED
  BY <1>3, <1>4, <1>5, <1>6, <1>8

LEMMA Stutter == ASSUME UNCHANGED speedVars, IInv PROVE IInv'
<1>1. UNCHANGED <<online, primed, pace, handler, outgoing, incoming, connected, gate, known, reported,
                  speed, local, opened, echo, acts, chosen, hasty>>
  BY DEF speedVars, speedServer, speedClient
<1>2. Base'
  BY <1>1 DEF IInv, Base, Plain, Wires, Conns, ConnOf
<1>3. GateInv'
  BY <1>1 DEF IInv, GateInv, GateOf
<1>4. ChosenInv'
  BY <1>1 DEF IInv, ChosenInv, SentChosen, HeardChosen, PlayedChosen, Welcomed, Short
<1>5. RosterInv'
  BY <1>1 DEF IInv, RosterInv
<1>6. ReadyInv'
  BY <1>1 DEF IInv, ReadyInv, Welcomed
<1>7. ToldInv'
  BY <1>1 DEF IInv, ToldInv, Now, Open
<1> QED
  BY <1>2, <1>3, <1>4, <1>5, <1>6, <1>7 DEF IInv

LEMMA Inductive == SpeedSpec => []IInv
<1>1. SpeedInit => IInv
  BY BaseInit, InitRest DEF IInv
<1>2. IInv /\ [SpeedNext]_speedVars => IInv'
  <2>1. ASSUME IInv, SpeedNext PROVE IInv'
    <3>1. PICK p \in Member : Serve(p) \/ Reads(p) \/ Alone(p) \/ Dial(p) \/ Break(p)
      BY <2>1, NextCases
    <3>2. Base /\ GateInv /\ ChosenInv /\ RosterInv /\ ReadyInv /\ ToldInv
      BY <2>1 DEF IInv
    <3>3. Base'
      BY <3>1, <3>2, ServeBase, ClientBase
    <3>4. GateInv' /\ ChosenInv'
      BY <3>1, <3>2, GateStep, ChosenStep
    <3>5. RosterInv' /\ ReadyInv' /\ ToldInv'
      BY <3>1, <3>2, RosterStep, ReadyStep, ToldStep
    <3> QED
      BY <3>3, <3>4, <3>5 DEF IInv
  <2> QED
    BY <2>1, Stutter
<1> QED
  BY <1>1, <1>2, PTL DEF SpeedSpec

\* The state keeps its types, and only a player the server knows to be online
\* has frames to read.
THEOREM SpeedTypeCorrect == SpeedSpec => []SpeedTypeOK
<1>1. IInv => SpeedTypeOK
  <2> SUFFICES ASSUME IInv PROVE SpeedTypeOK
    OBVIOUS
  <2>1. Plain /\ Wires /\ \A p \in Member : ConnOf(p)
    BY DEF IInv, Base, Conns
  <2>2. ASSUME NEW p \in Member
        PROVE  /\ \A i \in DOMAIN outgoing[p] :
                    outgoing[p][i].type \in {"HELLO", "TIME_READY", "TIME_SPEED", "DEEP_RELAY"}
               /\ incoming[p] # <<>> /\ p \in connected => p \in online
    <3>1. outgoing[p] \in Seq(UpFrame)
      BY <2>1 DEF Wires
    <3>2. \A i \in DOMAIN outgoing[p] : outgoing[p][i] \in UpFrame
      BY <3>1, QueueFacts
    <3>3. incoming[p] # <<>> /\ p \in connected => p \in online
      BY <2>1 DEF ConnOf
    <3> QED
      BY <3>2, <3>3, UpTypes
  <2> QED
    BY <2>1, <2>2 DEF Plain, SpeedTypeOK
<1> QED
  BY <1>1, Inductive, PTL

\* The room's speed is one that some user picked, unless a client published
\* one before it had read its WELCOME: neither what a client relays, nor what
\* it takes for a change its user made, is a speed out of nowhere.
THEOREM SpeedIsExplained == SpeedSpec => []SpeedExplained
<1>1. IInv => SpeedExplained
  BY DEF IInv, ChosenInv, SpeedExplained
<1> QED
  BY <1>1, Inductive, PTL

\* When everybody is here, nothing is on its way and no tick has anything to
\* do, the room plays and every game runs at the speed the server has on
\* record, however the changes, the relays, the answers and the reports of
\* readiness crossed.
THEOREM GamesAgree == SpeedSpec => []SpeedsAgree
<1>1. IInv => SpeedsAgree
  <2> SUFFICES ASSUME IInv, SpeedQuiet, NEW p \in Member PROVE ~Held(p) /\ speed[p] = pace /\ local[p] = pace
    BY DEF SpeedsAgree
  <2>1. /\ connected = Member /\ online = Member /\ reported = Member /\ primed \subseteq Member
        /\ \A q \in Member : outgoing[q] = <<>> /\ incoming[q] = <<>> /\ handler[q] = "idle"
        /\ local[p] = IF Held(p) THEN 0 ELSE speed[p]
    BY DEF SpeedQuiet, IInv, Base, Plain
  <2>2. Len(<<>>) = 0 /\ DOMAIN <<>> = {}
    OBVIOUS
  <2>3. primed = Member
    <3>1. ASSUME NEW q \in Member PROVE q \in primed
      <4>1. Welcomed(q) /\ ~Reports(outgoing[q])
        BY <2>1, <2>2 DEF Welcomed, Reports
      <4> QED
        BY <2>1, <4>1 DEF IInv, ReadyInv
    <3> QED
      BY <2>1, <3>1
  <2>4. Open /\ Cardinality(Member) >= MinMembers
    BY <2>1, <2>3, Constant, FS_CardinalityType DEF Open
  <2>5. gate[p] = FALSE /\ speed[p] = pace
    <3> DEFINE now == Now
    <3>1. now.gate = FALSE /\ now.speed = pace
      BY <2>4 DEF Now
    <3>2. Told(incoming[p], outgoing[p], gate[p], speed[p], now)
      BY <2>1 DEF IInv, ToldInv
    <3> HIDE DEF now
    <3>3. Told(<<>>, <<>>, gate[p], speed[p], now)
      BY <2>1, <3>2
    <3> QED
      BY <2>2, <3>1, <3>3 DEF Told, Publishes
  <2>6. known[p] = Member
    <3>1. known[p] \subseteq Member
      BY DEF IInv, Base, Plain
    <3>2. ASSUME NEW x \in Member PROVE x \in known[p]
      <4>1. There(<<>>, known[p], x)
        BY <2>1 DEF IInv, RosterInv
      <4> QED
        BY <2>2, <4>1 DEF There
    <3> QED
      BY <3>1, <3>2
  <2>7. ~Short(p, known[p])
    <3>1. Cardinality(Member) \in Nat /\ MinMembers \in Int
      BY Constant, FS_CardinalityType
    <3> QED
      BY <2>4, <2>6, <3>1 DEF Short
  <2> QED
    BY <2>1, <2>5, <2>7 DEF Held
<1> QED
  BY <1>1, Inductive, PTL

-----------------------------------------------------------------------------
\* The save files.

\* How far the first i chunks of a file reach, and what they hold.
Upto(size, i) == IF i * ChunkBytes < size THEN i * ChunkBytes ELSE size
FirstPart(n, size, i) == File(n, Upto(size, i))

Byte == Nat \X Nat

PushFrame ==
  {f \in [type : {"PUSH"}, slot : SaveSlot, seq : Nat, total : Nat, size : Nat, chunk : Seq(Byte)] :
     f.total = Pieces(f.size) /\ f.seq \in 1..f.total}
SentFrame == PushFrame \cup {Request}
Relay == [from : Player, to : SUBSET Player, frame : PushFrame]
Copy ==
  {c \in [slot : SaveSlot, total : Nat, size : Nat, open : BOOLEAN, data : Seq(Byte)] :
     c.total = Pieces(c.size)}
Partial ==
  {t \in [slot : SaveSlot, total : Nat, size : Nat, next : Nat, buffer : Seq(Byte)] :
     t.total = Pieces(t.size) /\ t.next \in 1..t.total /\ Len(t.buffer) <= t.size}

\* Chunks of a slot in a queue; what is relayed to a player.
Of(f, s) == f.type = "PUSH" /\ f.slot = s
Carries(queue, s) == \E i \in DOMAIN queue : Of(queue[i], s)
Heard(r, p) == IF p \in r.to THEN r.frame ELSE Request
To(rs, p) == [i \in DOMAIN rs |-> Heard(rs[i], p)]
Reaches(p, s) ==
  (\E q \in Player : Carries(uplink[q], s)) \/ Carries(To(relays, p), s) \/ Carries(downlink[p], s)

Newest(s, n) == n \in DOMAIN pushes /\ pushes[n] = s /\ \A m \in DOMAIN pushes : pushes[m] = s => m <= n
Pushed(s) == \E n \in Nat : Newest(s, n)

SavePlain ==
  /\ linked \subseteq Player
  /\ spoilt \subseteq SaveSlot /\ muddled \subseteq SaveSlot /\ same \subseteq SaveSlot
  /\ cached \in {Nil} \cup Copy
  /\ transfer \in [Player -> [SaveSlot -> {Nil} \cup Partial]]
  /\ saved \in [Player -> [SaveSlot -> Seq(Byte)]]
  /\ pushes \in Seq(SaveSlot) /\ Len(pushes) \in 0..MaxPush /\ trips \in 0..MaxTrips
  /\ due \in [Player -> [SaveSlot -> 0..MaxPush]]

SaveWires ==
  /\ uplink \in [Player -> Seq(SentFrame)]
  /\ downlink \in [Player -> Seq(PushFrame)]
  /\ relays \in Seq(Relay)

\* Only what was pushed travels, and is cached.
SavePushed ==
  /\ \A p \in Player, s \in SaveSlot : Carries(uplink[p], s) => Pushed(s)
  /\ \A s \in SaveSlot : cached.slot = s => Pushed(s)

SaveBase == SavePlain /\ SaveWires /\ SavePushed

\* All frames of s are chunks of one file.
PartOf(f, n, size) ==
  /\ f.size = size /\ f.total = Pieces(size) /\ f.seq \in 1..Pieces(size)
  /\ f.chunk = Piece(File(n, size), f.seq)
AllParts(queue, s, n, size) == \A i \in DOMAIN queue : Of(queue[i], s) => PartOf(queue[i], n, size)

Fits(t, n, size) ==
  /\ t.size = size /\ t.total = Pieces(size) /\ t.next \in 1..Pieces(size)
  /\ t.buffer = FirstPart(n, size, t.next - 1)

\* All chunks of s on their way are of one push, which a client that can still
\* get them goes on with.
GoesOn(p, s, n, size) ==
  /\ AllParts(uplink[p], s, n, size) /\ AllParts(downlink[p], s, n, size)
  /\ AllParts(To(relays, p), s, n, size)
  /\ Reaches(p, s) /\ transfer[p][s] # Nil => Fits(transfer[p][s], n, size)

OnePush(s, n, size) == \A p \in Player : GoesOn(p, s, n, size)

\* One player pushes it, to its end.
Pushes(queue, s, size) ==
  \A i \in DOMAIN queue : Of(queue[i], s) /\ queue[i].seq = Pieces(size) - Len(queue) + i

OnePusher(s, n, size) ==
  \A q \in Player : Carries(uplink[q], s) =>
    /\ Newest(s, n) /\ Pushes(uplink[q], s, size)
    /\ \A r \in Player \ {q} :
         /\ ~Carries(uplink[r], s)
         /\ s \notin muddled => \A t \in SaveSlot : ~Carries(uplink[r], t)

\* The server's copy grows with it, or is a whole file of before.
Follows(queue, s, size) ==
  /\ queue[1].seq > 1 => cached.slot = s /\ cached.size = size
  /\ s \notin same => IF queue[1].seq = 1 THEN cached.slot # s \/ cached.size # size ELSE cached.open = TRUE

Growing(queue, s, n, size) ==
  /\ Carries(queue, s) /\ queue[1].seq > 1 /\ cached.size = size
  /\ cached.data = FirstPart(n, size, queue[1].seq - 1)

Whole(s, m) ==
  /\ cached.size > 0 /\ cached.data = File(m, cached.size)
  /\ s \notin same /\ (\A q \in Player : ~Carries(uplink[q], s)) => Newest(s, m)

CopyOf(s, n, size) ==
  s \notin muddled =>
    /\ \A q \in Player : Carries(uplink[q], s) => Follows(uplink[q], s, size)
    /\ cached.slot = s =>
         IF cached.open THEN \E q \in Player : Growing(uplink[q], s, n, size) ELSE \E m \in Nat : Whole(s, m)

\* A queue has the chunks from to upto of a slot, in order.
Line(queue, s, from, upto) ==
  /\ \A i \in DOMAIN queue : Of(queue[i], s) => queue[i].seq \in from..upto
  /\ \A x \in from..upto : \E i \in DOMAIN queue : Of(queue[i], s) /\ queue[i].seq = x
  /\ \A i, j \in DOMAIN queue : i < j /\ Of(queue[i], s) /\ Of(queue[j], s) => queue[i].seq < queue[j].seq

NextOf(t) == IF t = Nil THEN 1 ELSE t.next

\* What a client waits for is on its way: up to chunk a on its wire, up to b in
\* the relays, the rest still with who pushes it.
Coming(p, s, size, a, b) ==
  /\ NextOf(transfer[p][s]) <= a + 1 /\ a <= b
  /\ Line(downlink[p], s, NextOf(transfer[p][s]), a)
  /\ Line(To(relays, p), s, a + 1, b)
  /\ \A q \in Player : Carries(uplink[q], s) => b = Pieces(size) - Len(uplink[q])
  /\ (\A q \in Player : ~Carries(uplink[q], s)) => b = Pieces(size)

\* Who was there for a push has it, or the rest of it is on its way.
Owed(p, s, n, size) ==
  due[p][s] # 0 =>
    /\ p \in linked /\ ~Carries(uplink[p], s)
    /\ IF Reaches(p, s)
         THEN due[p][s] = n /\ \E a, b \in 0..Pieces(size) : Coming(p, s, size, a, b)
         ELSE saved[p][s] # <<>> /\ saved[p][s][1][1] = due[p][s]

OnePushOf(s, n, size) ==
  /\ OnePush(s, n, size) /\ OnePusher(s, n, size) /\ CopyOf(s, n, size)
  /\ \A p \in Player : Owed(p, s, n, size)

HasFile(data) == \E n \in Nat, size \in Nat \ {0} : data = File(n, size)
Fitting(t) == \E n \in Nat, size \in Nat \ {0} : Fits(t, n, size)

ClientsHave(s) ==
  \A p \in Player :
    /\ transfer[p][s] # Nil => Fitting(transfer[p][s])
    /\ saved[p][s] # <<>> => HasFile(saved[p][s])

SlotInv(s) == (\E n \in Nat, size \in Nat \ {0} : OnePushOf(s, n, size)) /\ ClientsHave(s)

SaveIInv == SaveBase /\ \A s \in SaveSlot \ spoilt : SlotInv(s)

-----------------------------------------------------------------------------
LEMMA SaveConstant ==
  /\ "none" \notin SaveSlot /\ ChunkBytes \in Nat /\ ChunkBytes > 0
  /\ MaxPush \in Nat /\ MaxBytes \in Nat /\ MaxTrips \in Nat
BY SaveConstants DEF SaveConstants

LEMMA Product ==
  ASSUME NEW c \in Nat, NEW a \in Nat
  PROVE  a * c \in Nat /\ (a = 0 => a * c = 0)
OBVIOUS

LEMMA Times ==
  ASSUME NEW c \in Nat, NEW a \in Nat, NEW b \in Nat
  PROVE  /\ a * c \in Nat /\ (a <= b => a * c <= b * c) /\ (a + 1) * c = a * c + c
         /\ 0 * c = 0
<1>1. a * c \in Nat /\ 0 * c = 0 /\ (a + 1) * c = a * c + c
  OBVIOUS
<1>2. ASSUME a <= b PROVE a * c <= b * c
  <2>1. PICK d \in Nat : b = a + d
    BY <1>2
  <2>2. d * c \in Nat /\ (a + d) * c = a * c + d * c
    OBVIOUS
  <2> QED
    BY <1>1, <2>1, <2>2
<1> QED
  BY <1>1, <1>2

LEMMA Division ==
  ASSUME NEW c \in Nat, c > 0, NEW a \in Nat
  PROVE  a \div c \in Nat /\ (a \div c) * c <= a /\ a < (a \div c) * c + c
OBVIOUS

LEMMA PiecesFacts ==
  ASSUME NEW size \in Nat
  PROVE  /\ Pieces(size) \in Nat /\ size <= Pieces(size) * ChunkBytes
         /\ \A i \in Nat : i < Pieces(size) => i * ChunkBytes < size
         /\ size > 0 => Pieces(size) > 0
         /\ size = 0 => Pieces(size) = 0
<1> DEFINE c == ChunkBytes
           a == size + c - 1
           k == a \div c
<1>1. c \in Nat /\ c > 0 /\ a \in Nat /\ a = size + c - 1
  BY SaveConstant
<1>2. Pieces(size) = k
  BY DEF Pieces
<1>3. k \in Nat /\ k * c <= a /\ a < k * c + c
  <2> HIDE DEF a, c
  <2> QED
    BY <1>1, Division
<1> HIDE DEF k, a
<1>4. k * c \in Nat /\ size <= k * c
  BY <1>1, <1>3
<1>5. ASSUME NEW i \in Nat, i < k PROVE i * c < size
  <2>1. (i + 1) * c <= k * c /\ (i + 1) * c = i * c + c /\ i * c \in Nat
    BY <1>1, <1>3, <1>5, Times
  <2> QED
    BY <1>1, <1>3, <2>1
<1>6. k = 0 => k * c = 0
  BY <1>1
<1>7. size > 0 => k > 0
  BY <1>3, <1>4, <1>6
<1>8. size = 0 => k = 0
  <2>1. 0 < k => 0 * c < size
    BY <1>5
  <2>2. 0 * c = 0
    BY <1>1
  <2> QED
    BY <1>3, <2>1, <2>2
<1> QED
  BY <1>2, <1>3, <1>4, <1>5, <1>7, <1>8

LEMMA Concatenated ==
  ASSUME NEW S, NEW s \in Seq(S), NEW t \in Seq(S)
  PROVE  /\ s \o t \in Seq(S) /\ Len(s \o t) = Len(s) + Len(t)
         /\ \A i \in 1..Len(s) : (s \o t)[i] = s[i]
         /\ \A i \in 1..Len(t) : (s \o t)[Len(s) + i] = t[i]
         /\ DOMAIN (s \o t) = 1..(Len(s) + Len(t))
<1>1. Len(s) \in Nat /\ Len(t) \in Nat
  OBVIOUS
<1>2. s \o t \in Seq(S) /\ Len(s \o t) = Len(s) + Len(t)
  BY ConcatProperties
<1>3. \A i \in 1..(Len(s) + Len(t)) : (s \o t)[i] = IF i <= Len(s) THEN s[i] ELSE t[i - Len(s)]
  BY <1>1, ConcatProperties
<1>4. \A i \in 1..Len(s) : (s \o t)[i] = s[i]
  BY <1>1, <1>3
<1>5. ASSUME NEW i \in 1..Len(t) PROVE (s \o t)[Len(s) + i] = t[i]
  <2>1. Len(s) + i \in 1..(Len(s) + Len(t)) /\ ~(Len(s) + i <= Len(s)) /\ (Len(s) + i) - Len(s) = i
    BY <1>1
  <2> QED
    BY <1>3, <2>1
<1> QED
  BY <1>2, <1>4, <1>5

LEMMA FileFacts ==
  ASSUME NEW n \in Nat, NEW k \in Nat
  PROVE  /\ File(n, k) \in Seq(Byte) /\ Len(File(n, k)) = k
         /\ \A i \in 1..k : File(n, k)[i] = <<n, i>>
         /\ k = 0 => File(n, k) = <<>>
         /\ k > 0 => File(n, k) # <<>> /\ File(n, k)[1][1] = n
<1>1. \A i \in 1..k : <<n, i>> \in Byte
  BY DEF Byte
<1>2. File(n, k) \in [1..k -> Byte] /\ \A i \in 1..k : File(n, k)[i] = <<n, i>>
  BY <1>1 DEF File
<1> DEFINE d == File(n, k)
<1> HIDE DEF d
<1>3. d \in [1..k -> Byte]
  BY <1>2 DEF d
<1>4. d \in Seq(Byte) /\ Len(d) = k
  BY <1>3
<1>5. k = 0 => d = <<>>
  BY <1>4
<1>6. k > 0 => d # <<>> /\ d[1][1] = n
  <2>1. k > 0 => d[1] = <<n, 1>>
    BY <1>2 DEF d
  <2>2. <<n, 1>>[1] = n
    OBVIOUS
  <2> QED
    BY <1>4, <2>1, <2>2
<1> QED
  BY <1>2, <1>4, <1>5, <1>6 DEF d

LEMMA UptoFacts ==
  ASSUME NEW size \in Nat, NEW i \in Nat, i <= Pieces(size)
  PROVE  /\ Upto(size, i) \in 0..size
         /\ i < Pieces(size) => Upto(size, i) = i * ChunkBytes /\ Upto(size, i) < size
         /\ i = 0 => Upto(size, i) = 0
         /\ i = Pieces(size) => Upto(size, i) = size
<1> DEFINE k == Pieces(size)
           c == ChunkBytes
<1>1. /\ k \in Nat /\ size <= k * c /\ c \in Nat
      /\ i < k => i * c < size
      /\ size = 0 => k = 0
  BY PiecesFacts, SaveConstant
<1> HIDE DEF k, c
<1>2. i * c \in Nat /\ (i = 0 => i * c = 0)
  <2>1. c \in Nat
    BY <1>1
  <2> QED
    BY <2>1, Product
<1>3. Upto(size, i) = IF i * c < size THEN i * c ELSE size
  BY DEF Upto, c
<1> QED
  <2>1. i <= k
    BY DEF k
  <2>2. CASE i < k
    <3>1. i * c < size
      BY <1>1, <2>2
    <3>2. Upto(size, i) = i * c /\ Upto(size, i) \in 0..size
      BY <1>2, <1>3, <3>1
    <3> QED
      BY <1>1, <1>2, <2>2, <3>1, <3>2 DEF k, c
  <2>3. CASE i = k
    <3>1. Upto(size, i) = size
      BY <1>1, <1>2, <1>3, <2>3
    <3>2. i = 0 => size = 0
      BY <1>1, <1>2, <2>3
    <3> QED
      BY <2>3, <3>1, <3>2 DEF k
  <2> QED
    BY <1>1, <2>1, <2>2, <2>3

LEMMA PieceOf ==
  ASSUME NEW d \in Seq(Byte), NEW i \in 1..Pieces(Len(d))
  PROVE  /\ Upto(Len(d), i - 1) < Upto(Len(d), i) /\ Upto(Len(d), i) \in 0..Len(d)
         /\ Upto(Len(d), i - 1) \in Nat
         /\ Piece(d, i) = SubSeq(d, Upto(Len(d), i - 1) + 1, Upto(Len(d), i))
<1> DEFINE size == Len(d)
           c == ChunkBytes
           k == Pieces(size)
<1>1. size \in Nat /\ c \in Nat /\ c > 0
  BY SaveConstant
<1>2. i \in Nat /\ i - 1 \in Nat /\ i <= k /\ i - 1 < k /\ k \in Nat
  BY <1>1, PiecesFacts
<1>3. i * c = (i - 1) * c + c /\ (i - 1) * c \in Nat
  <2>1. ((i - 1) + 1) * c = (i - 1) * c + c /\ (i - 1) * c \in Nat
    BY <1>1, <1>2, Times
  <2>2. (i - 1) + 1 = i
    BY <1>2
  <2> QED
    BY <2>1, <2>2
<1>4. Upto(size, i - 1) = (i - 1) * c /\ Upto(size, i - 1) < size
  BY <1>1, <1>2, UptoFacts
<1>5. Upto(size, i) \in 0..size
  BY <1>1, <1>2, UptoFacts
<1>6. Upto(size, i) = IF i * c < size THEN i * c ELSE size
  BY DEF Upto
<1>7. Piece(d, i) = SubSeq(d, (i - 1) * c + 1, Upto(size, i))
  BY <1>6 DEF Piece
<1> HIDE DEF size, c
<1>8. Upto(size, i - 1) < Upto(size, i)
  BY <1>1, <1>3, <1>4, <1>6
<1> QED
  BY <1>4, <1>5, <1>7, <1>8, <1>3 DEF size

LEMMA PieceTyped ==
  ASSUME NEW d \in Seq(Byte), NEW i \in 1..Pieces(Len(d))
  PROVE  /\ Piece(d, i) \in Seq(Byte)
         /\ Len(Piece(d, i)) = Upto(Len(d), i) - Upto(Len(d), i - 1)
         /\ \A j \in 1..(Upto(Len(d), i) - Upto(Len(d), i - 1)) :
              Piece(d, i)[j] = d[Upto(Len(d), i - 1) + j]
<1>1. PICK a \in Nat, b \in 0..Len(d) :
         a = Upto(Len(d), i - 1) /\ b = Upto(Len(d), i) /\ a < b /\ Piece(d, i) = SubSeq(d, a + 1, b)
  BY PieceOf
<1>2. Len(d) \in Nat /\ b \in Nat
  OBVIOUS
<1> DEFINE e == SubSeq(d, a + 1, b)
<1>3. e \in Seq(Byte) /\ Len(e) = b - a /\ \A j \in 1..(b - a) : e[j] = d[a + j]
  <2>0. a < b
    BY <1>1
  <2>1. PICK m \in Nat : m = a + 1 /\ b - m + 1 = b - a /\ m <= b /\ m \in Int /\ b \in Int
    BY <1>2, <2>0
  <2>2. \A x \in m..b : d[x] \in Byte
    <3>1. \A x \in m..b : x \in 1..Len(d)
      <4>1. m > 0 /\ b <= Len(d)
        BY <1>2, <2>1
      <4> QED
        BY <1>2, <4>1
    <3> QED
      BY <3>1, QueueFacts
  <2>3. /\ SubSeq(d, m, b) \in Seq(Byte) /\ Len(SubSeq(d, m, b)) = IF m <= b THEN b - m + 1 ELSE 0
        /\ \A j \in 1..(b - m + 1) : SubSeq(d, m, b)[j] = d[m + j - 1]
    BY <2>1, <2>2, SubSeqProperties
  <2>4. \A j \in 1..(b - a) : m + j - 1 = a + j
    BY <1>1, <1>2, <2>1
  <2> QED
    BY <2>1, <2>3, <2>4
<1> QED
  BY <1>1, <1>3

LEMMA Beyond ==
  ASSUME NEW a \in Nat, NEW b \in Nat, a <= b
  PROVE  /\ a + (b - a) = b
         /\ \A j \in 1..b : j \in 1..a \/ (j - a \in 1..(b - a) /\ a + (j - a) = j)
OBVIOUS

\* The parts of a file make the file.
LEMMA Joined ==
  ASSUME NEW n \in Nat, NEW size \in Nat, NEW i \in 1..Pieces(size)
  PROVE  FirstPart(n, size, i - 1) \o Piece(File(n, size), i) = FirstPart(n, size, i)
<1> DEFINE d == File(n, size)
           e == Piece(d, i)
<1>1. d \in Seq(Byte) /\ Len(d) = size /\ \A j \in 1..size : d[j] = <<n, j>>
  BY FileFacts
<1>2. PICK a \in Nat, b \in 0..size : a = Upto(size, i - 1) /\ b = Upto(size, i) /\ a < b
  BY <1>1, PieceOf
<1>3. e \in Seq(Byte) /\ Len(e) = b - a /\ \A j \in 1..(b - a) : e[j] = d[a + j]
  BY <1>1, <1>2, PieceTyped
<1> HIDE DEF d, e
<1>4. b \in Nat /\ File(n, a) \in Seq(Byte) /\ Len(File(n, a)) = a /\ \A j \in 1..a : File(n, a)[j] = <<n, j>>
  BY FileFacts
<1>5. File(n, b) \in Seq(Byte) /\ Len(File(n, b)) = b /\ \A j \in 1..b : File(n, b)[j] = <<n, j>>
  BY <1>4, FileFacts
<1>6. \A j \in 1..(b - a) : e[j] = <<n, a + j>>
  <2>1. \A j \in 1..(b - a) : a + j \in 1..size
    BY <1>2
  <2> QED
    BY <1>1, <1>3, <2>1
<1> DEFINE g == File(n, a)
           h == File(n, b)
<1> HIDE DEF g, h
<1>7. /\ g \in Seq(Byte) /\ Len(g) = a /\ \A j \in 1..a : g[j] = <<n, j>>
      /\ h \in Seq(Byte) /\ Len(h) = b /\ \A j \in 1..b : h[j] = <<n, j>>
  BY <1>4, <1>5 DEF g, h
<1>8. /\ g \o e \in Seq(Byte) /\ Len(g \o e) = a + (b - a)
      /\ \A j \in 1..a : (g \o e)[j] = g[j]
      /\ \A j \in 1..(b - a) : (g \o e)[a + j] = e[j]
  <2>1. /\ g \o e \in Seq(Byte) /\ Len(g \o e) = Len(g) + Len(e)
        /\ \A j \in 1..Len(g) : (g \o e)[j] = g[j]
        /\ \A j \in 1..Len(e) : (g \o e)[Len(g) + j] = e[j]
    <3>1. g \in Seq(Byte) /\ e \in Seq(Byte)
      BY <1>3, <1>7
    <3> QED
      BY <3>1, Concatenated
  <2>2. Len(g) = a /\ Len(e) = b - a
    BY <1>3, <1>7
  <2> QED
    BY <2>1, <2>2
<1>9. a + (b - a) = b /\ \A j \in 1..b : j \in 1..a \/ (j - a \in 1..(b - a) /\ a + (j - a) = j)
  <2>1. a \in Nat /\ b \in Nat /\ a <= b
    BY <1>2, <1>4
  <2> QED
    BY <2>1, Beyond
<1>12. Len(g \o e) = b /\ \A j \in 1..b : (g \o e)[j] = h[j]
  <2>1. ASSUME NEW j \in 1..b PROVE (g \o e)[j] = h[j]
    <3>1. CASE j \in 1..a
      BY <1>7, <1>8, <3>1
    <3>2. CASE j - a \in 1..(b - a) /\ a + (j - a) = j
      <4>1. (g \o e)[j] = e[j - a]
        BY <1>8, <3>2
      <4> QED
        BY <1>6, <1>7, <3>2, <4>1
    <3> QED
      BY <1>9, <3>1, <3>2
  <2> QED
    BY <1>8, <1>9, <2>1
<1>10. g \o e = h
  BY <1>4, <1>7, <1>8, <1>12, SeqEqual
<1> QED
  BY <1>2, <1>10 DEF FirstPart, d, e, g, h

LEMMA ChunksFacts ==
  ASSUME NEW s \in SaveSlot, NEW d \in Seq(Byte)
  PROVE  /\ Chunks(s, d) \in Seq(PushFrame) /\ Len(Chunks(s, d)) = Pieces(Len(d))
         /\ \A i \in 1..Pieces(Len(d)) :
              /\ Chunks(s, d)[i].type = "PUSH" /\ Chunks(s, d)[i].slot = s /\ Chunks(s, d)[i].seq = i
              /\ Chunks(s, d)[i].total = Pieces(Len(d)) /\ Chunks(s, d)[i].size = Len(d)
              /\ Chunks(s, d)[i].chunk = Piece(d, i)
<1> DEFINE size == Len(d)
           k == Pieces(size)
           cs == Chunks(s, d)
<1>1. size \in Nat /\ k \in Nat
  BY PiecesFacts
<1>2. ASSUME NEW i \in 1..k PROVE Chunk(s, d, i) \in PushFrame /\ i \in Nat
  <2>1. Piece(d, i) \in Seq(Byte)
    BY PieceTyped
  <2>2. i \in Nat /\ i \in 1..k
    BY <1>1
  <2> QED
    BY <1>1, <2>1, <2>2 DEF Chunk, PushFrame
<1>3. cs = [i \in 1..k |-> Chunk(s, d, i)]
  BY DEF Chunks
<1>4. cs \in [1..k -> PushFrame] /\ \A i \in 1..k : cs[i] = Chunk(s, d, i)
  BY <1>2, <1>3
<1>5. \A i \in 1..k : /\ Chunk(s, d, i).type = "PUSH" /\ Chunk(s, d, i).slot = s /\ Chunk(s, d, i).seq = i
                      /\ Chunk(s, d, i).total = k /\ Chunk(s, d, i).size = size
                      /\ Chunk(s, d, i).chunk = Piece(d, i)
  BY DEF Chunk
<1> HIDE DEF cs, k, size
<1>6. cs \in Seq(PushFrame) /\ Len(cs) = k
  BY <1>1, <1>4
<1> QED
  BY <1>4, <1>5, <1>6 DEF cs, k, size

LEMMA ChunksSlots ==
  ASSUME NEW s \in SaveSlot, NEW d \in Seq(Byte), NEW cs, cs = Chunks(s, d)
  PROVE  cs \in Seq(PushFrame) /\ DOMAIN cs = 1..Len(cs) /\ \A i \in DOMAIN cs : cs[i].slot = s
<1>1. /\ cs \in Seq(PushFrame) /\ Len(cs) = Pieces(Len(d))
      /\ \A i \in 1..Pieces(Len(d)) : cs[i].slot = s
  BY ChunksFacts
<1>2. DOMAIN cs = 1..Len(cs)
  BY <1>1, QueueFacts
<1> QED
  BY <1>1, <1>2

-----------------------------------------------------------------------------
\* Which slots a queue carries chunks of.
LEMMA NothingCarried == \A s : ~Carries(<<>>, s) /\ ~Of(Request, s)
<1>1. DOMAIN <<>> = {}
  OBVIOUS
<1> QED
  BY <1>1 DEF Carries, Of, Request

LEMMA CarriesMore ==
  ASSUME NEW S, NEW q \in Seq(S), NEW f \in S, NEW s
  PROVE  Carries(Append(q, f), s) <=> Carries(q, s) \/ Of(f, s)
<1> DEFINE r == Append(q, f)
           n == Len(q)
<1>1. /\ n \in Nat /\ DOMAIN q = 1..n /\ DOMAIN r = 1..(n + 1)
      /\ r[n + 1] = f
      /\ \A i \in 1..n : r[i] = q[i]
  BY QueueFacts, Appended
<1> HIDE DEF r, n
<1>2. \A i \in 1..(n + 1) : i \in 1..n \/ i = n + 1
  BY <1>1
<1>3. 1..n \subseteq 1..(n + 1) /\ n + 1 \in 1..(n + 1)
  BY <1>1
<1>4. Carries(r, s) => Carries(q, s) \/ Of(f, s)
  BY <1>1, <1>2 DEF Carries
<1>5. Carries(q, s) \/ Of(f, s) => Carries(r, s)
  BY <1>1, <1>3 DEF Carries
<1> QED
  BY <1>4, <1>5 DEF r

LEMMA CarriesTail ==
  ASSUME NEW S, NEW q \in Seq(S), q # <<>>, NEW s
  PROVE  Carries(q, s) <=> Of(q[1], s) \/ Carries(Tail(q), s)
<1> DEFINE r == Tail(q)
           n == Len(q)
<1>1. /\ n \in Nat /\ n > 0 /\ DOMAIN q = 1..n /\ DOMAIN r = 1..(n - 1)
      /\ \A i \in 1..(n - 1) : r[i] = q[i + 1]
  BY QueueFacts, Tailed
<1> HIDE DEF r, n
<1>2. \A i \in 1..n : i = 1 \/ (i - 1 \in 1..(n - 1) /\ r[i - 1] = q[i])
  BY <1>1
<1>3. 1 \in 1..n /\ \A i \in 1..(n - 1) : i + 1 \in 1..n
  BY <1>1
<1>4. Carries(q, s) => Of(q[1], s) \/ Carries(r, s)
  BY <1>1, <1>2 DEF Carries
<1>5. Of(q[1], s) \/ Carries(r, s) => Carries(q, s)
  BY <1>1, <1>3 DEF Carries
<1> QED
  BY <1>4, <1>5 DEF r

LEMMA CarriesBoth ==
  ASSUME NEW S, NEW q \in Seq(S), NEW r \in Seq(S), NEW s
  PROVE  Carries(q \o r, s) <=> Carries(q, s) \/ Carries(r, s)
<1> DEFINE c == q \o r
           m == Len(q)
           n == Len(r)
<1>1. /\ m \in Nat /\ n \in Nat /\ DOMAIN q = 1..m /\ DOMAIN r = 1..n /\ DOMAIN c = 1..(m + n)
      /\ \A i \in 1..m : c[i] = q[i]
      /\ \A i \in 1..n : c[m + i] = r[i]
  BY QueueFacts, Concatenated
<1> HIDE DEF c, m, n
<1>2. \A i \in 1..(m + n) : i \in 1..m \/ (i - m \in 1..n /\ m + (i - m) = i)
  BY <1>1
<1>3. \A i \in 1..m : i \in 1..(m + n)
  BY <1>1
<1>4. \A i \in 1..n : m + i \in 1..(m + n)
  BY <1>1
<1>5. Carries(c, s) => Carries(q, s) \/ Carries(r, s)
  BY <1>1, <1>2 DEF Carries
<1>6. Carries(q, s) \/ Carries(r, s) => Carries(c, s)
  BY <1>1, <1>3, <1>4 DEF Carries
<1> QED
  BY <1>5, <1>6 DEF c

LEMMA CarriesLess ==
  ASSUME NEW S, NEW q \in Seq(S), NEW n \in 0..Len(q), NEW s, Carries(SubSeq(q, 1, n), s)
  PROVE  Carries(q, s)
<1>1. DOMAIN q = 1..Len(q) /\ Len(q) \in Nat
  OBVIOUS
<1>2. /\ DOMAIN SubSeq(q, 1, n) = 1..n
      /\ \A i \in 1..n : SubSeq(q, 1, n)[i] = q[i] /\ i \in 1..Len(q)
  OBVIOUS
<1> QED
  BY <1>1, <1>2 DEF Carries

\* Which file they are chunks of.
LEMMA PartsNone ==
  ASSUME NEW q, NEW s, ~Carries(q, s)
  PROVE  \A n, size : AllParts(q, s, n, size)
BY DEF Carries, AllParts

LEMMA PartsMore ==
  ASSUME NEW S, NEW q \in Seq(S), NEW f \in S, NEW s, NEW n, NEW size, AllParts(q, s, n, size),
         Of(f, s) => PartOf(f, n, size)
  PROVE  AllParts(Append(q, f), s, n, size)
<1> DEFINE r == Append(q, f)
           m == Len(q)
<1>1. /\ m \in Nat /\ DOMAIN q = 1..m /\ DOMAIN r = 1..(m + 1)
      /\ r[m + 1] = f
      /\ \A i \in 1..m : r[i] = q[i]
  BY QueueFacts, Appended
<1> HIDE DEF r, m
<1>2. \A i \in 1..(m + 1) : i \in 1..m \/ i = m + 1
  BY <1>1
<1>3. AllParts(r, s, n, size)
  BY <1>1, <1>2 DEF AllParts
<1> QED
  BY <1>3 DEF r

LEMMA PartsTail ==
  ASSUME NEW S, NEW q \in Seq(S), q # <<>>, NEW s, NEW n, NEW size, AllParts(q, s, n, size)
  PROVE  AllParts(Tail(q), s, n, size) /\ (Of(q[1], s) => PartOf(q[1], n, size))
<1> DEFINE r == Tail(q)
           m == Len(q)
<1>1. /\ m \in Nat /\ m > 0 /\ DOMAIN q = 1..m /\ DOMAIN r = 1..(m - 1)
      /\ \A i \in 1..(m - 1) : r[i] = q[i + 1]
  BY QueueFacts, Tailed
<1> HIDE DEF r, m
<1>2. 1 \in 1..m /\ \A i \in 1..(m - 1) : i + 1 \in 1..m
  BY <1>1
<1>3. AllParts(r, s, n, size)
  BY <1>1, <1>2 DEF AllParts
<1>4. Of(q[1], s) => PartOf(q[1], n, size)
  BY <1>1, <1>2 DEF AllParts
<1> QED
  BY <1>3, <1>4 DEF r

LEMMA PartsBoth ==
  ASSUME NEW S, NEW q \in Seq(S), NEW r \in Seq(S), NEW s, NEW n, NEW size,
         AllParts(q, s, n, size), AllParts(r, s, n, size)
  PROVE  AllParts(q \o r, s, n, size)
<1> DEFINE c == q \o r
           m == Len(q)
           k == Len(r)
<1>1. /\ m \in Nat /\ k \in Nat /\ DOMAIN q = 1..m /\ DOMAIN r = 1..k /\ DOMAIN c = 1..(m + k)
      /\ \A i \in 1..m : c[i] = q[i]
      /\ \A i \in 1..k : c[m + i] = r[i]
  BY QueueFacts, Concatenated
<1> HIDE DEF c, m, k
<1>2. \A i \in 1..(m + k) : i \in 1..m \/ (i - m \in 1..k /\ m + (i - m) = i)
  BY <1>1
<1>3. AllParts(c, s, n, size)
  BY <1>1, <1>2 DEF AllParts
<1> QED
  BY <1>3 DEF c

\* Which of its chunks, in order.
LEMMA LineNone ==
  ASSUME NEW q, NEW s, NEW from \in Nat, NEW upto \in Nat, ~Carries(q, s), upto < from
  PROVE  Line(q, s, from, upto)
<1>1. from..upto = {}
  OBVIOUS
<1>2. \A i \in DOMAIN q : ~Of(q[i], s)
  BY DEF Carries
<1> QED
  BY <1>1, <1>2 DEF Line

LEMMA LineEmpty ==
  ASSUME NEW q, NEW s, NEW from \in Nat, NEW upto \in Nat, Line(q, s, from, upto)
  PROVE  /\ upto < from => ~Carries(q, s)
         /\ ~Carries(q, s) => upto < from
<1>1. upto < from => from..upto = {}
  OBVIOUS
<1>2. upto < from => ~Carries(q, s)
  BY <1>1 DEF Line, Carries
<1>3. ~(upto < from) => from \in from..upto
  OBVIOUS
<1>4. ~(upto < from) => Carries(q, s)
  BY <1>3 DEF Line, Carries
<1> QED
  BY <1>2, <1>4

LEMMA LineSame ==
  ASSUME NEW S, NEW q \in Seq(S), NEW f \in S, NEW s, NEW from, NEW upto,
         Line(q, s, from, upto), ~Of(f, s)
  PROVE  Line(Append(q, f), s, from, upto)
<1> DEFINE r == Append(q, f)
           m == Len(q)
<1>1. /\ m \in Nat /\ DOMAIN q = 1..m /\ DOMAIN r = 1..(m + 1)
      /\ r[m + 1] = f
      /\ \A i \in 1..m : r[i] = q[i]
  BY QueueFacts, Appended
<1> HIDE DEF r, m
<1>2. \A i \in 1..(m + 1) : i \in 1..m \/ i = m + 1
  BY <1>1
<1>3. \A i \in 1..m : i \in 1..(m + 1)
  BY <1>1
<1>4. \A i \in 1..(m + 1) : Of(r[i], s) => i \in 1..m /\ r[i] = q[i]
  BY <1>1, <1>2
<1>5. \A i \in DOMAIN r : Of(r[i], s) => r[i].seq \in from..upto
  BY <1>1, <1>4 DEF Line
<1>6. \A x \in from..upto : \E i \in DOMAIN r : Of(r[i], s) /\ r[i].seq = x
  BY <1>1, <1>3 DEF Line
<1>7. \A i, j \in DOMAIN r : i < j /\ Of(r[i], s) /\ Of(r[j], s) => r[i].seq < r[j].seq
  BY <1>1, <1>4 DEF Line
<1>8. Line(r, s, from, upto)
  BY <1>5, <1>6, <1>7 DEF Line
<1> QED
  BY <1>8 DEF r

LEMMA LineMore ==
  ASSUME NEW S, NEW q \in Seq(S), NEW f \in S, NEW s, NEW from \in Nat, NEW upto \in Nat,
         Line(q, s, from, upto), Of(f, s), f.seq = upto + 1, from <= upto + 1
  PROVE  Line(Append(q, f), s, from, upto + 1)
<1> DEFINE r == Append(q, f)
           m == Len(q)
           v == upto + 1
<1>1. /\ m \in Nat /\ DOMAIN q = 1..m /\ DOMAIN r = 1..(m + 1)
      /\ r[m + 1] = f
      /\ \A i \in 1..m : r[i] = q[i]
  BY QueueFacts, Appended
<1>0. v \in Nat /\ v \in from..v /\ v \notin from..upto /\ f.seq = v
      /\ (\A x \in from..upto : x \in from..v /\ x < v) /\ (\A x \in from..v : x \in from..upto \/ x = v)
  OBVIOUS
<1> HIDE DEF r, m, v
<1>2. \A i \in 1..(m + 1) : (i \in 1..m /\ r[i] = q[i]) \/ (i = m + 1 /\ r[i] = f)
  BY <1>1
<1>3. \A i \in 1..m : i \in 1..(m + 1) /\ r[i] = q[i]
  BY <1>1
<1>4. \A i \in 1..m : Of(q[i], s) => q[i].seq \in from..upto
  BY <1>1 DEF Line
<1>5. \A i \in DOMAIN r : Of(r[i], s) => r[i].seq \in from..v
  BY <1>0, <1>1, <1>2, <1>4
<1>6. ASSUME NEW x \in from..v PROVE \E i \in DOMAIN r : Of(r[i], s) /\ r[i].seq = x
  <2>1. CASE x \in from..upto
    <3>1. PICK i \in 1..m : Of(q[i], s) /\ q[i].seq = x
      BY <1>1, <2>1 DEF Line
    <3>2. i \in 1..(m + 1) /\ r[i] = q[i]
      BY <1>3
    <3> QED
      BY <1>1, <3>1, <3>2
  <2>2. CASE x = v
    <3>1. m + 1 \in 1..(m + 1)
      BY <1>1
    <3> QED
      BY <1>0, <1>1, <2>2, <3>1
  <2> QED
    BY <1>0, <2>1, <2>2
<1>7. ASSUME NEW i \in DOMAIN r, NEW j \in DOMAIN r, i < j, Of(r[i], s), Of(r[j], s)
      PROVE  r[i].seq < r[j].seq
  <2>1. i \in 1..m /\ r[i] = q[i] /\ q[i].seq < v
    <3>1. i \in 1..(m + 1) /\ j \in 1..(m + 1) /\ i \in 1..m
      BY <1>1, <1>7
    <3> QED
      BY <1>0, <1>3, <1>4, <1>7, <3>1
  <2>2. CASE j \in 1..m /\ r[j] = q[j]
    BY <1>1, <1>7, <2>1, <2>2 DEF Line
  <2>3. CASE j = m + 1 /\ r[j] = f
    BY <1>0, <2>1, <2>3
  <2> QED
    BY <1>1, <1>2, <2>2, <2>3
<1>8. Line(r, s, from, v)
  BY <1>5, <1>6, <1>7 DEF Line
<1> QED
  BY <1>8 DEF r, v

LEMMA LineTail ==
  ASSUME NEW S, NEW q \in Seq(S), q # <<>>, NEW s, NEW from \in Nat, NEW upto \in Nat,
         Line(q, s, from, upto)
  PROVE  /\ ~Of(q[1], s) => Line(Tail(q), s, from, upto)
         /\ Of(q[1], s) => q[1].seq = from /\ from <= upto /\ Line(Tail(q), s, from + 1, upto)
<1> DEFINE r == Tail(q)
           m == Len(q)
<1>1. /\ m \in Nat /\ m > 0 /\ DOMAIN q = 1..m /\ DOMAIN r = 1..(m - 1)
      /\ \A i \in 1..(m - 1) : r[i] = q[i + 1]
  BY QueueFacts, Tailed
<1> HIDE DEF r, m
<1>2. 1 \in 1..m /\ \A i \in 1..(m - 1) : i + 1 \in 1..m /\ 1 < i + 1
  BY <1>1
<1>3. \A i \in 1..m : i = 1 \/ (i - 1 \in 1..(m - 1) /\ r[i - 1] = q[i])
  BY <1>1
<1>4. \A i \in 1..(m - 1) : Of(r[i], s) => r[i].seq \in from..upto
  BY <1>1, <1>2 DEF Line
<1>5. ASSUME NEW i \in 1..(m - 1), NEW j \in 1..(m - 1), i < j, Of(r[i], s), Of(r[j], s)
      PROVE  r[i].seq < r[j].seq
  <2>1. PICK x \in 1..m, y \in 1..m : x < y /\ r[i] = q[x] /\ r[j] = q[y]
    <3>1. i + 1 \in 1..m /\ j + 1 \in 1..m /\ i + 1 < j + 1 /\ r[i] = q[i + 1] /\ r[j] = q[j + 1]
      BY <1>1, <1>2, <1>5
    <3> QED
      BY <3>1
  <2> QED
    BY <1>1, <1>5, <2>1 DEF Line
<1>6. ASSUME ~Of(q[1], s) PROVE Line(r, s, from, upto)
  <2>1. \A x \in from..upto : \E i \in 1..m : i # 1 /\ Of(q[i], s) /\ q[i].seq = x
    BY <1>1, <1>6 DEF Line
  <2>2. ASSUME NEW x \in from..upto PROVE \E i \in DOMAIN r : Of(r[i], s) /\ r[i].seq = x
    <3>1. PICK i \in 1..m : i # 1 /\ Of(q[i], s) /\ q[i].seq = x
      BY <2>1
    <3>2. PICK j \in 1..(m - 1) : r[j] = q[i]
      BY <1>3, <3>1
    <3> QED
      BY <1>1, <3>1, <3>2
  <2> QED
    BY <1>1, <1>4, <1>5, <2>2 DEF Line
<1>7. ASSUME Of(q[1], s) PROVE q[1].seq = from /\ from <= upto /\ Line(r, s, from + 1, upto)
  <2>1. q[1].seq \in from..upto
    BY <1>1, <1>2, <1>7 DEF Line
  <2>2. from <= upto /\ from \in from..upto
    BY <2>1
  <2>3. \A i \in 1..(m - 1) : Of(r[i], s) => q[1].seq < r[i].seq
    <3>1. ASSUME NEW i \in 1..(m - 1), Of(r[i], s) PROVE q[1].seq < r[i].seq
      <4>1. i + 1 \in 1..m /\ 1 < i + 1 /\ r[i] = q[i + 1]
        BY <1>1, <1>2
      <4> QED
        BY <1>1, <1>2, <1>7, <3>1, <4>1 DEF Line
    <3> QED
      BY <3>1
  <2>4. q[1].seq = from
    <3>1. PICK i \in 1..m : Of(q[i], s) /\ q[i].seq = from
      BY <1>1, <2>2 DEF Line
    <3>2. CASE i = 1
      BY <3>1, <3>2
    <3>3. CASE i - 1 \in 1..(m - 1) /\ r[i - 1] = q[i]
      <4>1. q[1].seq < from
        BY <2>3, <3>1, <3>3
      <4> QED
        BY <2>1, <4>1
    <3> QED
      BY <1>3, <3>2, <3>3
  <2>5. \A i \in DOMAIN r : Of(r[i], s) => r[i].seq \in (from + 1)..upto
    BY <1>1, <1>4, <2>3, <2>4
  <2>6. ASSUME NEW x \in (from + 1)..upto PROVE \E i \in DOMAIN r : Of(r[i], s) /\ r[i].seq = x
    <3>1. x \in from..upto /\ x # from
      OBVIOUS
    <3>2. PICK i \in 1..m : Of(q[i], s) /\ q[i].seq = x
      BY <1>1, <3>1 DEF Line
    <3>3. i # 1
      BY <2>4, <3>1, <3>2
    <3> QED
      BY <1>1, <1>3, <3>2, <3>3
  <2> QED
    BY <1>1, <1>5, <2>2, <2>4, <2>5, <2>6 DEF Line
<1> QED
  BY <1>6, <1>7 DEF r

\* A replayed file is whole.
LEMMA LineFile ==
  ASSUME NEW q \in Seq(PushFrame), NEW s \in SaveSlot, ~Carries(q, s), NEW d \in Seq(Byte)
  PROVE  Line(q \o Chunks(s, d), s, 1, Pieces(Len(d)))
<1> DEFINE cs == Chunks(s, d)
           r == q \o cs
           m == Len(q)
           k == Pieces(Len(d))
<1>1. /\ cs \in Seq(PushFrame) /\ Len(cs) = k
      /\ \A i \in 1..k : Of(cs[i], s) /\ cs[i].seq = i
  BY ChunksFacts DEF Of
<1> HIDE DEF cs
<1>2. /\ m \in Nat /\ k \in Nat /\ DOMAIN q = 1..m /\ DOMAIN r = 1..(m + k)
      /\ \A i \in 1..m : r[i] = q[i]
      /\ \A i \in 1..k : r[m + i] = cs[i]
  <2>1. /\ m \in Nat /\ Len(cs) \in Nat /\ DOMAIN q = 1..m
    BY <1>1, QueueFacts
  <2>2. /\ DOMAIN r = 1..(m + Len(cs))
        /\ \A i \in 1..m : r[i] = q[i]
        /\ \A i \in 1..Len(cs) : r[m + i] = cs[i]
    BY <1>1, Concatenated
  <2>3. k = Len(cs)
    BY <1>1
  <2> HIDE DEF r, m, k
  <2> QED
    BY <2>1, <2>2, <2>3
<1> HIDE DEF r, m, k
<1>3. \A i \in 1..(m + k) : i \in 1..m \/ (i - m \in 1..k /\ m + (i - m) = i)
  BY <1>2
<1>4. \A i \in 1..k : m + i \in 1..(m + k) /\ Of(r[m + i], s) /\ r[m + i].seq = i
  BY <1>1, <1>2
<1>5. \A i \in 1..m : ~Of(r[i], s)
  BY <1>2 DEF Carries
<1>6. \A i \in 1..(m + k) : Of(r[i], s) => i - m \in 1..k /\ r[i].seq = i - m
  BY <1>3, <1>4, <1>5
<1>7. \A i \in DOMAIN r : Of(r[i], s) => r[i].seq \in 1..k
  BY <1>2, <1>6
<1>8. \A x \in 1..k : \E i \in DOMAIN r : Of(r[i], s) /\ r[i].seq = x
  BY <1>2, <1>4
<1>9. \A i, j \in DOMAIN r : i < j /\ Of(r[i], s) /\ Of(r[j], s) => r[i].seq < r[j].seq
  BY <1>2, <1>6
<1>10. Line(r, s, 1, k)
  BY <1>7, <1>8, <1>9 DEF Line
<1> QED
  BY <1>10 DEF r, k, cs

-----------------------------------------------------------------------------
\* What is relayed to a player.
LEMMA FrameFacts ==
  ASSUME NEW f \in PushFrame
  PROVE  /\ f.type = "PUSH" /\ f.slot \in SaveSlot /\ f.seq \in Nat /\ f.seq > 0
         /\ f.total = Pieces(f.size) /\ f.seq <= f.total /\ f.size \in Nat /\ f.total \in Nat
         /\ f.chunk \in Seq(Byte) /\ f # Request /\ f \in SentFrame
<1>1. f.type = "PUSH" /\ Request.type = "REQUEST"
  BY DEF PushFrame, Request
<1>2. f # Request
  BY <1>1
<1> QED
  BY <1>1, <1>2 DEF PushFrame, SentFrame

LEMMA SentFacts ==
  ASSUME NEW f \in SentFrame
  PROVE  /\ f \in PushFrame \/ f = Request
         /\ f.type = "PUSH" <=> f \in PushFrame
         /\ f.type = "REQUEST" <=> f = Request
         /\ \A s : Of(f, s) => f \in PushFrame
<1>1. f \in PushFrame \/ f = Request
  BY DEF SentFrame
<1>2. Request.type = "REQUEST"
  BY DEF Request
<1>3. f \in PushFrame => f.type = "PUSH"
  BY FrameFacts
<1> QED
  BY <1>1, <1>2, <1>3 DEF Of

LEMMA HeardFacts ==
  ASSUME NEW r \in Relay, NEW p
  PROVE  /\ Heard(r, p) \in SentFrame /\ r.frame \in PushFrame /\ r.to \subseteq Player
         /\ \A s : Of(Heard(r, p), s) <=> p \in r.to /\ r.frame.slot = s
<1>1. r.frame \in PushFrame /\ r.to \subseteq Player
  BY DEF Relay
<1>2. r.frame.type = "PUSH" /\ r.frame \in SentFrame /\ Request \in SentFrame
  BY <1>1, FrameFacts DEF SentFrame
<1>3. CASE p \in r.to
  BY <1>1, <1>2, <1>3 DEF Heard, Of
<1>4. CASE p \notin r.to
  BY <1>1, <1>2, <1>4, NothingCarried DEF Heard
<1> QED
  BY <1>3, <1>4

LEMMA ToFacts ==
  ASSUME NEW rs \in Seq(Relay), NEW p
  PROVE  /\ To(rs, p) \in Seq(SentFrame) /\ Len(To(rs, p)) = Len(rs)
         /\ \A i \in 1..Len(rs) : To(rs, p)[i] = Heard(rs[i], p)
         /\ rs = <<>> => To(rs, p) = <<>>
         /\ rs # <<>> => To(rs, p) # <<>>
<1> DEFINE n == Len(rs)
           t == To(rs, p)
<1>1. n \in Nat /\ DOMAIN rs = 1..n /\ \A i \in 1..n : rs[i] \in Relay
  BY QueueFacts
<1>2. t = [i \in 1..n |-> Heard(rs[i], p)]
  BY <1>1 DEF To
<1>3. \A i \in 1..n : Heard(rs[i], p) \in SentFrame
  BY <1>1, HeardFacts
<1>4. rs = <<>> <=> n = 0
  OBVIOUS
<1> HIDE DEF t, n
<1>5. t \in [1..n -> SentFrame] /\ \A i \in 1..n : t[i] = Heard(rs[i], p)
  BY <1>2, <1>3
<1>6. t \in Seq(SentFrame) /\ Len(t) = n
  BY <1>1, <1>5
<1>7. t = <<>> <=> n = 0
  BY <1>1, <1>6
<1> QED
  BY <1>4, <1>5, <1>6, <1>7 DEF t, n

LEMMA ToMore ==
  ASSUME NEW rs \in Seq(Relay), NEW r \in Relay, NEW p
  PROVE  To(Append(rs, r), p) = Append(To(rs, p), Heard(r, p))
<1> DEFINE n == Len(rs)
           v == Append(rs, r)
           t == To(rs, p)
           h == Heard(r, p)
           a == To(v, p)
           b == Append(t, h)
<1>1. /\ n \in Nat /\ v \in Seq(Relay) /\ Len(v) = n + 1 /\ v[n + 1] = r
      /\ \A i \in 1..n : v[i] = rs[i]
  BY QueueFacts, Appended
<1>2. t \in Seq(SentFrame) /\ Len(t) = n /\ h \in SentFrame /\ \A i \in 1..n : t[i] = Heard(rs[i], p)
  BY ToFacts, HeardFacts
<1> HIDE DEF n, v, t, h
<1>3. /\ b \in Seq(SentFrame) /\ Len(b) = n + 1 /\ b[n + 1] = h
      /\ \A i \in 1..n : b[i] = t[i]
  BY <1>2, Appended
<1>4. a \in Seq(SentFrame) /\ Len(a) = n + 1 /\ \A i \in 1..(n + 1) : a[i] = Heard(v[i], p)
  BY <1>1, ToFacts
<1> HIDE DEF a, b
<1>5. \A i \in 1..(n + 1) : i \in 1..n \/ i = n + 1
  BY <1>1
<1>6. ASSUME NEW i \in 1..(n + 1) PROVE a[i] = b[i]
  <2>1. CASE i \in 1..n
    BY <1>1, <1>2, <1>3, <1>4, <2>1
  <2>2. CASE i = n + 1
    BY <1>1, <1>3, <1>4, <2>2 DEF h
  <2> QED
    BY <1>5, <2>1, <2>2
<1>7. a = b
  BY <1>1, <1>3, <1>4, <1>6, SeqEqual
<1> QED
  BY <1>7 DEF a, b, v, t, h

LEMMA ToTail ==
  ASSUME NEW rs \in Seq(Relay), rs # <<>>, NEW p
  PROVE  /\ To(Tail(rs), p) = Tail(To(rs, p)) /\ To(rs, p)[1] = Heard(rs[1], p)
         /\ rs[1] \in Relay /\ Tail(rs) \in Seq(Relay)
<1> DEFINE n == Len(rs)
           v == Tail(rs)
           t == To(rs, p)
           a == To(v, p)
           b == Tail(t)
<1>1. /\ n \in Nat /\ n > 0 /\ v \in Seq(Relay) /\ Len(v) = n - 1 /\ rs[1] \in Relay
      /\ \A i \in 1..(n - 1) : v[i] = rs[i + 1]
  BY QueueFacts, Tailed
<1>2. t \in Seq(SentFrame) /\ Len(t) = n /\ t # <<>> /\ \A i \in 1..n : t[i] = Heard(rs[i], p)
  BY ToFacts
<1> HIDE DEF n, v, t
<1>3. /\ b \in Seq(SentFrame) /\ Len(b) = n - 1
      /\ \A i \in 1..(n - 1) : b[i] = t[i + 1]
  BY <1>2, Tailed
<1>4. a \in Seq(SentFrame) /\ Len(a) = n - 1 /\ \A i \in 1..(n - 1) : a[i] = Heard(v[i], p)
  BY <1>1, ToFacts
<1> HIDE DEF a, b
<1>5. 1 \in 1..n /\ \A i \in 1..(n - 1) : i + 1 \in 1..n
  BY <1>1
<1>6. \A i \in 1..(n - 1) : a[i] = b[i]
  BY <1>1, <1>2, <1>3, <1>4, <1>5
<1>7. a = b
  BY <1>3, <1>4, <1>6, SeqEqual
<1> QED
  BY <1>1, <1>2, <1>5, <1>7 DEF a, b, v, t

-----------------------------------------------------------------------------
\* The slots on their way.
LEMMA SlotsFacts ==
  ASSUME NEW q \in Seq(SentFrame)
  PROVE  SlotsIn(q) \subseteq SaveSlot /\ \A s : s \in SlotsIn(q) <=> Carries(q, s)
<1>1. \A i \in DOMAIN q : q[i] \in SentFrame
  BY QueueFacts
<1>2. \A s : s \in SlotsIn(q) <=> \E i \in DOMAIN q : q[i].type = "PUSH" /\ q[i].slot = s
  BY DEF SlotsIn, ToSet
<1>3. \A i \in DOMAIN q : q[i].type = "PUSH" => q[i].slot \in SaveSlot
  BY <1>1, SentFacts, FrameFacts
<1> QED
  BY <1>2, <1>3 DEF Carries, Of

LEMMA AsSent == \A q \in Seq(PushFrame) : q \in Seq(SentFrame)
BY SeqMonotonic DEF SentFrame

LEMMA TravellingFacts ==
  ASSUME SaveWires, NEW p \in Player
  PROVE  /\ TravellingTo(p) \subseteq SaveSlot
         /\ \A s : s \in TravellingTo(p) <=> Carries(downlink[p], s) \/ Carries(To(relays, p), s)
<1>1. relays \in Seq(Relay) /\ downlink[p] \in Seq(SentFrame)
  BY AsSent DEF SaveWires
<1>2. \A s : s \in SlotsIn(downlink[p]) <=> Carries(downlink[p], s)
  BY <1>1, SlotsFacts
<1>3. SlotsIn(downlink[p]) \subseteq SaveSlot
  BY <1>1, SlotsFacts
<1> DEFINE R == {f.frame.slot : f \in {g \in ToSet(relays) : p \in g.to}}
<1>4. \A s : s \in R <=> \E i \in DOMAIN relays : p \in relays[i].to /\ relays[i].frame.slot = s
  BY DEF ToSet
<1>5. \A i \in DOMAIN relays : relays[i] \in Relay
  BY <1>1, QueueFacts
<1>6. R \subseteq SaveSlot
  <2>1. ASSUME NEW i \in DOMAIN relays PROVE relays[i].frame.slot \in SaveSlot
    <3>1. relays[i] \in Relay
      BY <1>5
    <3>2. relays[i].frame \in PushFrame
      BY <3>1 DEF Relay
    <3> QED
      BY <3>2, FrameFacts
  <2> HIDE DEF R
  <2> QED
    BY <1>4, <2>1
<1>7. \A s : \A i \in DOMAIN relays : Of(Heard(relays[i], p), s) <=> p \in relays[i].to /\ relays[i].frame.slot = s
  BY <1>5, HeardFacts
<1>8. DOMAIN To(relays, p) = DOMAIN relays /\ \A i \in DOMAIN relays : To(relays, p)[i] = Heard(relays[i], p)
  BY DEF To
<1>9. \A s : s \in R <=> Carries(To(relays, p), s)
  BY <1>4, <1>7, <1>8 DEF Carries
<1>10. TravellingTo(p) = SlotsIn(downlink[p]) \cup R
  BY DEF TravellingTo
<1> QED
  BY <1>2, <1>3, <1>6, <1>9, <1>10

LEMMA EverywhereFacts ==
  ASSUME SaveWires
  PROVE  /\ Unread \subseteq SaveSlot /\ \A s : s \in Unread <=> \E q \in Player : Carries(uplink[q], s)
         /\ Travelling \subseteq SaveSlot /\ \A s : s \in Travelling <=> \E q \in Player : Reaches(q, s)
<1>1. ASSUME NEW q \in Player
      PROVE  SlotsIn(uplink[q]) \subseteq SaveSlot /\ \A s : s \in SlotsIn(uplink[q]) <=> Carries(uplink[q], s)
  <2>1. uplink[q] \in Seq(SentFrame)
    BY DEF SaveWires
  <2> QED
    BY <2>1, SlotsFacts
<1>2. \A q \in Player :
        /\ TravellingTo(q) \subseteq SaveSlot
        /\ \A s : s \in TravellingTo(q) <=> Carries(downlink[q], s) \/ Carries(To(relays, q), s)
  BY TravellingFacts
<1>3. Unread \subseteq SaveSlot /\ \A s : s \in Unread <=> \E q \in Player : Carries(uplink[q], s)
  BY <1>1 DEF Unread
<1>4. \A s : s \in Travelling <=> \E q \in Player : s \in SlotsIn(uplink[q]) \/ s \in TravellingTo(q)
  BY DEF Travelling
<1>5. Travelling \subseteq SaveSlot
  BY <1>1, <1>2, <1>4
<1>6. \A s : s \in Travelling <=> \E q \in Player : Reaches(q, s)
  BY <1>1, <1>2, <1>4 DEF Reaches
<1> QED
  BY <1>3, <1>5, <1>6

-----------------------------------------------------------------------------
\* The pushes so far.
LEMMA PushedMore ==
  ASSUME pushes \in Seq(SaveSlot), NEW slot \in SaveSlot, pushes' = Append(pushes, slot)
  PROVE  /\ pushes' \in Seq(SaveSlot) /\ Len(pushes)' = Len(pushes) + 1 /\ Len(pushes) \in Nat
         /\ \A n : n = Len(pushes) + 1 => Newest(slot, n)'
         /\ \A s, n : s # slot /\ Newest(s, n) => Newest(s, n)'
         /\ \A s : Pushed(s) => Pushed(s)'
<1> DEFINE k == Len(pushes)
<1>1. /\ k \in Nat /\ DOMAIN pushes = 1..k /\ DOMAIN pushes' = 1..(k + 1)
      /\ pushes'[k + 1] = slot /\ \A i \in 1..k : pushes'[i] = pushes[i]
      /\ pushes' \in Seq(SaveSlot) /\ Len(pushes') = k + 1
  BY QueueFacts, Appended
<1> HIDE DEF k
<1>2. \A i \in 1..(k + 1) : (i \in 1..k /\ pushes'[i] = pushes[i]) \/ (i = k + 1 /\ pushes'[i] = slot)
  BY <1>1
<1>3. k + 1 \in 1..(k + 1) /\ \A i \in 1..k : i \in 1..(k + 1) /\ i \in Nat
  BY <1>1
<1>4. ASSUME NEW x, x = k + 1 PROVE Newest(slot, x)'
  BY <1>1, <1>4 DEF Newest
<1>5. ASSUME NEW s, NEW n, s # slot, Newest(s, n) PROVE Newest(s, n)'
  <2>1. n \in 1..k /\ pushes[n] = s /\ \A m \in 1..k : pushes[m] = s => m <= n
    BY <1>1, <1>5 DEF Newest
  <2>2. n \in 1..(k + 1) /\ pushes'[n] = s
    BY <1>1, <1>3, <2>1
  <2>3. \A m \in 1..(k + 1) : pushes'[m] = s => m <= n
    BY <1>2, <1>5, <2>1
  <2> QED
    BY <1>1, <2>2, <2>3 DEF Newest
<1>6. \A s : Pushed(s) => Pushed(s)'
  <2>1. ASSUME NEW s, Pushed(s) PROVE Pushed(s)'
    <3>1. CASE s = slot
      <4>1. PICK x \in Nat : x = k + 1
        BY <1>1
      <4>2. Newest(slot, x)'
        BY <1>4, <4>1
      <4> QED
        BY <3>1, <4>2 DEF Pushed
    <3>2. CASE s # slot
      BY <1>5, <2>1, <3>2 DEF Pushed
    <3> QED
      BY <3>1, <3>2
  <2> QED
    BY <2>1
<1>7. ASSUME NEW x, x = Len(pushes) + 1 PROVE Newest(slot, x)'
  BY <1>4, <1>7 DEF k
<1> QED
  BY <1>1, <1>5, <1>6, <1>7 DEF k

LEMMA NewestIsLast ==
  ASSUME pushes \in Seq(SaveSlot), NEW s, NEW n, Newest(s, n)
  PROVE  LastPush(s) = n /\ n \in 1..Len(pushes) /\ n \in Nat
<1>1. DOMAIN pushes = 1..Len(pushes) /\ Len(pushes) \in Nat
  OBVIOUS
<1>2. n \in DOMAIN pushes /\ pushes[n] = s /\ \A m \in DOMAIN pushes : pushes[m] = s => m <= n
  BY DEF Newest
<1> DEFINE P(m) == m \in DOMAIN pushes /\ pushes[m] = s /\ \A k \in DOMAIN pushes : pushes[k] = s => k <= m
<1>3. P(LastPush(s))
  BY <1>2 DEF LastPush
<1>4. n \in Nat /\ LastPush(s) \in Nat /\ n <= LastPush(s) /\ LastPush(s) <= n
  BY <1>1, <1>2, <1>3
<1> QED
  BY <1>1, <1>2, <1>4

-----------------------------------------------------------------------------
\* Types.
LEMMA SaveBaseInit == SaveInit => SaveBase
<1> SUFFICES ASSUME SaveInit PROVE SaveBase
  OBVIOUS
<1>1. <<>> \in Seq(SentFrame) /\ <<>> \in Seq(PushFrame) /\ <<>> \in Seq(Relay) /\ <<>> \in Seq(Byte)
      /\ <<>> \in Seq(SaveSlot) /\ Len(<<>>) = 0
  OBVIOUS
<1>2. 0 \in 0..MaxPush /\ 0 \in 0..MaxTrips
  BY SaveConstant
<1>3. SavePlain
  BY <1>1, <1>2 DEF SaveInit, SavePlain
<1>4. SaveWires
  BY <1>1 DEF SaveInit, SaveWires
<1>5. \A p \in Player : uplink[p] = <<>>
  BY DEF SaveInit
<1>6. \A s \in SaveSlot : cached.slot # s
  BY SaveConstant DEF SaveInit, Nil
<1>7. SavePushed
  BY <1>5, <1>6, NothingCarried DEF SavePushed
<1> QED
  BY <1>3, <1>4, <1>7 DEF SaveBase

LEMMA PushedSame ==
  ASSUME UNCHANGED pushes
  PROVE  /\ \A s, n : Newest(s, n)' <=> Newest(s, n)
         /\ \A s : Pushed(s)' <=> Pushed(s)
BY DEF Newest, Pushed

LEMMA Fetched ==
  ASSUME SaveWires, NEW p \in Player, NEW type, Fetch(p, type)
  PROVE  /\ uplink[p] \in Seq(SentFrame) /\ uplink[p] # <<>>
         /\ Head(uplink[p]) = uplink[p][1] /\ uplink[p][1] \in SentFrame /\ uplink[p][1].type = type
         /\ uplink' \in [Player -> Seq(SentFrame)] /\ uplink'[p] = Tail(uplink[p])
         /\ \A q \in Player : q # p => uplink'[q] = uplink[q]
         /\ \A q \in Player : \A s : Carries(uplink'[q], s) => Carries(uplink[q], s)
<1>1. uplink[p] \in Seq(SentFrame) /\ uplink[p] # <<>> /\ uplink = [q \in Player |-> uplink[q]]
  BY DEF SaveWires, Fetch
<1>2. Head(uplink[p]) = uplink[p][1] /\ uplink[p][1] \in SentFrame /\ Tail(uplink[p]) \in Seq(SentFrame)
  BY <1>1, QueueFacts, Tailed
<1>3. uplink[p][1].type = type
  BY <1>2 DEF Fetch
<1>4. uplink' = [uplink EXCEPT ![p] = Tail(uplink[p])]
  BY DEF Fetch
<1>5. /\ uplink' \in [Player -> Seq(SentFrame)] /\ uplink'[p] = Tail(uplink[p])
      /\ \A q \in Player : q # p => uplink'[q] = uplink[q]
  BY <1>2, <1>4 DEF SaveWires
<1>6. ASSUME NEW q \in Player, NEW s, Carries(uplink'[q], s) PROVE Carries(uplink[q], s)
  <2>1. CASE q = p
    <3>1. Carries(Tail(uplink[p]), s)
      BY <1>5, <1>6, <2>1
    <3> QED
      BY <1>1, <2>1, <3>1, CarriesTail
  <2>2. CASE q # p
    BY <1>5, <1>6, <2>2
  <2> QED
    BY <2>1, <2>2
<1> QED
  BY <1>1, <1>2, <1>3, <1>5, <1>6

LEMMA CopyFacts ==
  ASSUME cached \in {Nil} \cup Copy
  PROVE  /\ cached \in Copy <=> cached # Nil
         /\ \A s \in SaveSlot : cached.slot = s => cached \in Copy
         /\ cached \in Copy => /\ cached.slot \in SaveSlot /\ cached.size \in Nat /\ cached.total = Pieces(cached.size)
                               /\ cached.open \in BOOLEAN /\ cached.data \in Seq(Byte)
<1>1. Nil.slot = "none" /\ "none" \notin SaveSlot
  BY SaveConstant DEF Nil
<1>2. \A c \in Copy : c.slot \in SaveSlot /\ c.size \in Nat /\ c.total = Pieces(c.size)
                      /\ c.open \in BOOLEAN /\ c.data \in Seq(Byte)
  BY DEF Copy
<1>3. \A c \in Copy : c # Nil
  BY <1>1, <1>2
<1> QED
  BY <1>1, <1>2, <1>3

LEMMA WrittenFacts ==
  ASSUME cached \in {Nil} \cup Copy, NEW f \in PushFrame, NEW w, w = Written(f)
  PROVE  /\ w \in Copy /\ w.slot = f.slot /\ w.size = f.size
         /\ Another(f) => w.data = f.chunk /\ w.open = (f.seq < f.total)
         /\ ~Another(f) => cached.slot = f.slot /\ cached.size = f.size
         /\ ~Another(f) /\ ~cached.open => w = cached
         /\ ~Another(f) /\ cached.open => w.data = cached.data \o f.chunk /\ w.open = (f.seq < f.total)
         /\ f.size = cached.size /\ f.slot = cached.slot => ~Another(f)
<1>1. /\ f.slot \in SaveSlot /\ f.seq \in Nat /\ f.total \in Nat /\ f.size \in Nat
      /\ f.total = Pieces(f.size) /\ f.chunk \in Seq(Byte)
  BY FrameFacts
<1>2. cached = Nil => Another(f)
  BY <1>1, SaveConstant DEF Another, Nil
<1>3. ASSUME Another(f)
      PROVE  w = [slot |-> f.slot, total |-> f.total, size |-> f.size, open |-> f.seq < f.total, data |-> <<>> \o f.chunk]
  BY <1>3 DEF Written
<1>4. <<>> \o f.chunk = f.chunk
  BY <1>1, ConcatEmptySeq
<1>5. ASSUME Another(f) PROVE w \in Copy /\ w.slot = f.slot /\ w.size = f.size
                              /\ w.data = f.chunk /\ w.open = (f.seq < f.total)
  <2>1. (f.seq < f.total) \in BOOLEAN
    OBVIOUS
  <2> DEFINE o == (f.seq < f.total)
  <2> HIDE DEF o
  <2>2. w = [slot |-> f.slot, total |-> f.total, size |-> f.size, open |-> o, data |-> f.chunk]
    BY <1>3, <1>4, <1>5 DEF o
  <2>3. o \in BOOLEAN
    BY <2>1 DEF o
  <2>4. w \in Copy /\ w.slot = f.slot /\ w.size = f.size /\ w.data = f.chunk /\ w.open = o
    BY <1>1, <2>2, <2>3 DEF Copy
  <2> QED
    BY <2>4 DEF o
<1>6. ASSUME ~Another(f)
      PROVE  /\ w \in Copy /\ w.slot = f.slot /\ w.size = f.size /\ cached.slot = f.slot /\ cached.size = f.size
             /\ ~cached.open => w = cached
             /\ cached.open => w.data = cached.data \o f.chunk /\ w.open = (f.seq < f.total)
  <2>1. cached # Nil /\ cached \in Copy /\ cached.slot = f.slot /\ cached.size = f.size
    BY <1>2, <1>6, CopyFacts DEF Another
  <2>2. CASE ~cached.open
    BY <1>6, <2>1, <2>2 DEF Written
  <2>3. CASE cached.open
    <3> DEFINE o == (f.seq < f.total)
               d == cached.data \o f.chunk
    <3>1. o \in BOOLEAN /\ d \in Seq(Byte)
      BY <1>1, <2>1, CopyFacts, Concatenated
    <3>2. w = [cached EXCEPT !.data = d, !.open = o]
      BY <1>6, <2>1, <2>3 DEF Written
    <3> HIDE DEF o, d
    <3>3. w \in Copy /\ w.slot = cached.slot /\ w.size = cached.size /\ w.data = d /\ w.open = o
      BY <2>1, <3>1, <3>2 DEF Copy
    <3> QED
      BY <2>1, <2>3, <3>3 DEF o, d
  <2> QED
    BY <2>1, <2>2, <2>3
<1>7. ASSUME f.size = cached.size, f.slot = cached.slot PROVE ~Another(f)
  <2>1. cached \in Copy /\ cached.total = Pieces(cached.size)
    BY <1>1, <1>7, CopyFacts
  <2> QED
    BY <1>1, <1>7, <2>1 DEF Another
<1> QED
  BY <1>5, <1>6, <1>7

\* Every step keeps them.
LEMMA PushBase ==
  ASSUME SaveBase, NEW p \in Player, NEW slot \in SaveSlot, NEW size \in 1..MaxBytes, Push(p, slot, size)
  PROVE  SaveBase'
<1> DEFINE k == Len(pushes) + 1
           d == File(k, size)
<1>1. SavePlain /\ SaveWires /\ SavePushed /\ size \in Nat
  BY SaveConstant DEF SaveBase
<1>2. Len(pushes) \in Nat /\ k \in Nat /\ Len(pushes) < MaxPush /\ k \in 0..MaxPush /\ 0 \in 0..MaxPush
  BY <1>1, SaveConstant DEF SavePlain, Push
<1>3. d \in Seq(Byte)
  BY <1>1, <1>2, FileFacts
<1> HIDE DEF k, d
<1> DEFINE cs == Chunks(slot, d)
<1>4. /\ cs \in Seq(PushFrame) /\ cs \in Seq(SentFrame) /\ Len(cs) \in Nat /\ DOMAIN cs = 1..Len(cs)
      /\ \A i \in DOMAIN cs : cs[i].slot = slot
  BY <1>3, ChunksFacts, AsSent, QueueFacts
<1>5. /\ pushes' = Append(pushes, slot)
      /\ uplink' = [uplink EXCEPT ![p] = cs]
      /\ spoilt' = IF slot \in Travelling \/ \E q \in Player : Leftover(q, slot, size)
                     THEN spoilt \cup {slot} ELSE spoilt
      /\ muddled' = IF Unread \subseteq {slot} THEN muddled ELSE muddled \cup Unread \cup {slot}
      /\ due' = [q \in Player |-> [due[q] EXCEPT ![slot] = IF q \in linked \ {p} THEN k ELSE 0]]
      /\ same' = IF cached.slot = slot /\ cached.size = size THEN same \cup {slot} ELSE same \ {slot}
      /\ UNCHANGED <<linked, relays, downlink, cached, transfer, saved, trips>>
  BY DEF Push, k, d
<1>6. /\ pushes' \in Seq(SaveSlot) /\ Len(pushes') = k
      /\ \A n : n = k => Newest(slot, n)'
      /\ \A s : Pushed(s) => Pushed(s)'
  BY <1>1, <1>5, PushedMore DEF SavePlain, k
<1> HIDE DEF cs
<1>7. SavePlain'
  <2>1. spoilt' \subseteq SaveSlot /\ muddled' \subseteq SaveSlot /\ same' \subseteq SaveSlot
    BY <1>1, <1>5, EverywhereFacts DEF SavePlain
  <2>2. due' \in [Player -> [SaveSlot -> 0..MaxPush]]
    BY <1>1, <1>2, <1>5 DEF SavePlain
  <2>3. pushes' \in Seq(SaveSlot) /\ Len(pushes') \in 0..MaxPush
    BY <1>2, <1>6
  <2> QED
    BY <1>1, <1>5, <2>1, <2>2, <2>3 DEF SavePlain
<1>8. SaveWires' /\ uplink'[p] = cs /\ \A q \in Player : q # p => uplink'[q] = uplink[q]
  BY <1>1, <1>4, <1>5 DEF SaveWires
<1>9. Pushed(slot)'
  <2>1. PICK n \in Nat : n = k
    BY <1>2
  <2>2. Newest(slot, n)'
    BY <1>6, <2>1
  <2> QED
    BY <2>2 DEF Pushed
<1>10. ASSUME NEW q \in Player, NEW s \in SaveSlot, Carries(uplink'[q], s) PROVE Pushed(s)'
  <2>1. CASE q = p
    <3>1. s = slot
      BY <1>4, <1>8, <1>10, <2>1 DEF Carries, Of
    <3> QED
      BY <1>9, <3>1
  <2>2. CASE q # p
    <3>1. Carries(uplink[q], s)
      BY <1>8, <1>10, <2>2
    <3> QED
      BY <1>1, <1>6, <3>1 DEF SavePushed
  <2> QED
    BY <2>1, <2>2
<1>11. \A s \in SaveSlot : cached'.slot = s => Pushed(s)'
  BY <1>1, <1>5, <1>6 DEF SavePushed
<1> QED
  BY <1>7, <1>8, <1>10, <1>11 DEF SaveBase, SavePushed

LEMMA AskBase ==
  ASSUME SaveBase, NEW p \in Player, Ask(p)
  PROVE  SaveBase'
<1>1. SavePlain /\ SaveWires /\ SavePushed
  BY DEF SaveBase
<1>2. Request \in SentFrame /\ <<Request>> \in Seq(SentFrame)
  BY DEF SentFrame
<1>3. /\ trips < MaxTrips /\ trips' = trips + 1 /\ uplink' = [uplink EXCEPT ![p] = <<Request>>]
      /\ UNCHANGED <<linked, relays, downlink, cached, transfer, saved, pushes, spoilt, muddled, same, due>>
  BY DEF Ask
<1>4. SavePlain'
  BY <1>1, <1>3, SaveConstant DEF SavePlain
<1>5. SaveWires' /\ uplink'[p] = <<Request>> /\ \A q \in Player : q # p => uplink'[q] = uplink[q]
  BY <1>1, <1>2, <1>3 DEF SaveWires
<1>6. \A s : ~Carries(<<Request>>, s)
  <2>1. DOMAIN <<Request>> = {1} /\ <<Request>>[1] = Request
    OBVIOUS
  <2> QED
    BY <2>1, NothingCarried DEF Carries
<1>7. SavePushed'
  BY <1>1, <1>3, <1>5, <1>6, PushedSame DEF SavePushed
<1> QED
  BY <1>4, <1>5, <1>7 DEF SaveBase

\* A step of the server that takes a frame and pushes nothing.
LEMMA TakesPushed ==
  ASSUME SaveWires, SavePushed, NEW p \in Player, NEW type, Fetch(p, type), UNCHANGED pushes,
         \A s \in SaveSlot : cached'.slot = s => Pushed(s)
  PROVE  SavePushed'
<1>1. \A q \in Player : \A s : Carries(uplink'[q], s) => Carries(uplink[q], s)
  BY Fetched
<1>2. \A s : Pushed(s)' <=> Pushed(s)
  BY PushedSame
<1>3. \A q \in Player, s \in SaveSlot : Carries(uplink'[q], s) => Pushed(s)'
  BY <1>1, <1>2 DEF SavePushed
<1>4. \A s \in SaveSlot : cached'.slot = s => Pushed(s)'
  BY <1>2
<1> QED
  BY <1>3, <1>4 DEF SavePushed

LEMMA CacheBase ==
  ASSUME SaveBase, NEW p \in Player, CacheAndRelay(p)
  PROVE  SaveBase'
<1> DEFINE f == Head(uplink[p])
           r == [from |-> p, to |-> linked \ {p}, frame |-> f]
<1>1. SavePlain /\ SaveWires /\ SavePushed /\ Fetch(p, "PUSH")
  BY DEF SaveBase, CacheAndRelay
<1>2. /\ f = uplink[p][1] /\ f \in SentFrame /\ f.type = "PUSH" /\ uplink[p] \in Seq(SentFrame)
      /\ uplink[p] # <<>> /\ uplink' \in [Player -> Seq(SentFrame)]
  BY <1>1, Fetched
<1>3. f \in PushFrame /\ f.slot \in SaveSlot
  BY <1>2, SentFacts, FrameFacts
<1>4. r \in Relay
  BY <1>1, <1>3 DEF Relay, SavePlain
<1>5. /\ cached' = Written(f) /\ relays' = Append(relays, r)
      /\ UNCHANGED <<linked, downlink, transfer, saved, saveHistory>>
  BY DEF CacheAndRelay
<1> HIDE DEF f, r
<1>6. cached' \in Copy /\ cached'.slot = f.slot
  BY <1>1, <1>3, <1>5, WrittenFacts DEF SavePlain
<1>7. SavePlain'
  BY <1>1, <1>5, <1>6 DEF SavePlain, saveHistory
<1>8. SaveWires'
  BY <1>1, <1>2, <1>4, <1>5, Appended DEF SaveWires
<1>9. Pushed(f.slot)
  <2>1. Of(f, f.slot)
    BY <1>2 DEF Of
  <2>2. Carries(uplink[p], f.slot)
    BY <1>2, <2>1, CarriesTail
  <2> QED
    BY <1>1, <1>3, <2>2 DEF SavePushed
<1>10. SavePushed'
  BY <1>1, <1>5, <1>6, <1>9, TakesPushed DEF saveHistory
<1> QED
  BY <1>7, <1>8, <1>10 DEF SaveBase

LEMMA ReplayBase ==
  ASSUME SaveBase, NEW p \in Player, Replay(p)
  PROVE  SaveBase'
<1> DEFINE s == cached.slot
<1>1. SavePlain /\ SaveWires /\ SavePushed /\ Fetch(p, "REQUEST") /\ cached # Nil
  BY DEF SaveBase, Replay, Complete
<1>2. s \in SaveSlot /\ cached.data \in Seq(Byte)
  BY <1>1, CopyFacts DEF SavePlain
<1>3. /\ downlink' = [downlink EXCEPT ![p] = downlink[p] \o Chunks(s, cached.data)]
      /\ spoilt' = IF s \in Travelling \cup muddled \/ Leftover(p, s, cached.size)
                     THEN spoilt \cup {s} ELSE spoilt
      /\ due' = [due EXCEPT ![p][s] = IF s \in same THEN 0 ELSE LastPush(s)]
      /\ UNCHANGED <<linked, relays, cached, transfer, saved, pushes, trips, muddled, same>>
  BY DEF Replay
<1>4. LastPush(s) \in 0..MaxPush /\ 0 \in 0..MaxPush
  <2>1. PICK n \in Nat : Newest(s, n)
    BY <1>1, <1>2 DEF SavePushed, Pushed
  <2>2. LastPush(s) \in 1..Len(pushes) /\ Len(pushes) \in 0..MaxPush
    BY <1>1, <2>1, NewestIsLast DEF SavePlain
  <2> QED
    BY <2>2, SaveConstant
<1>5. downlink[p] \o Chunks(s, cached.data) \in Seq(PushFrame)
  BY <1>1, <1>2, ChunksFacts, Concatenated DEF SaveWires
<1> HIDE DEF s
<1>6. SavePlain'
  <2>1. spoilt' \subseteq SaveSlot
    BY <1>1, <1>2, <1>3 DEF SavePlain
  <2>2. due' \in [Player -> [SaveSlot -> 0..MaxPush]]
    <3> DEFINE v == IF s \in same THEN 0 ELSE LastPush(s)
    <3>1. v \in 0..MaxPush
      BY <1>4
    <3>2. due' = [due EXCEPT ![p][s] = v]
      BY <1>3
    <3> HIDE DEF v
    <3> QED
      BY <1>1, <1>2, <3>1, <3>2 DEF SavePlain
  <2> QED
    BY <1>1, <1>3, <2>1, <2>2 DEF SavePlain
<1>7. SaveWires'
  <2>1. uplink' \in [Player -> Seq(SentFrame)]
    BY <1>1, Fetched
  <2>2. downlink' \in [Player -> Seq(PushFrame)]
    BY <1>1, <1>3, <1>5 DEF SaveWires
  <2> QED
    BY <1>1, <1>3, <2>1, <2>2 DEF SaveWires
<1>8. SavePushed'
  BY <1>1, <1>3, TakesPushed DEF SavePushed
<1> QED
  BY <1>6, <1>7, <1>8 DEF SaveBase

LEMMA NothingBase ==
  ASSUME SaveBase, NEW p \in Player, NothingToReplay(p)
  PROVE  SaveBase'
<1>1. SavePlain /\ SaveWires /\ SavePushed /\ Fetch(p, "REQUEST")
      /\ UNCHANGED <<linked, relays, downlink, cached, transfer, saved, saveHistory>>
  BY DEF SaveBase, NothingToReplay
<1>2. uplink' \in [Player -> Seq(SentFrame)]
  BY <1>1, Fetched
<1>3. SavePlain' /\ SaveWires'
  BY <1>1, <1>2 DEF SavePlain, SaveWires, saveHistory
<1>4. SavePushed'
  BY <1>1, TakesPushed DEF SavePushed, saveHistory
<1> QED
  BY <1>3, <1>4 DEF SaveBase

LEMMA RelayBase ==
  ASSUME SaveBase, RunRelay
  PROVE  SaveBase'
<1>1. SavePlain /\ SaveWires /\ SavePushed /\ relays # <<>>
  BY DEF SaveBase, RunRelay
<1> DEFINE r == Head(relays)
<1>2. /\ relays' = Tail(relays)
      /\ downlink' = [q \in Player |-> IF q \in r.to \cap linked THEN Append(downlink[q], r.frame) ELSE downlink[q]]
      /\ UNCHANGED <<linked, uplink, cached, transfer, saved, saveHistory>>
  BY DEF RunRelay
<1>3. r = relays[1] /\ r \in Relay /\ Tail(relays) \in Seq(Relay)
  BY <1>1, QueueFacts, Tailed DEF SaveWires
<1>4. r.frame \in PushFrame
  BY <1>3 DEF Relay
<1> HIDE DEF r
<1>5. \A q \in Player : downlink[q] \in Seq(PushFrame) /\ Append(downlink[q], r.frame) \in Seq(PushFrame)
  BY <1>1, <1>4, Appended DEF SaveWires
<1>6. SaveWires'
  BY <1>1, <1>2, <1>3, <1>5 DEF SaveWires
<1>7. SavePlain'
  BY <1>1, <1>2 DEF SavePlain, saveHistory
<1>8. SavePushed'
  BY <1>1, <1>2, PushedSame DEF SavePushed, saveHistory
<1> QED
  BY <1>6, <1>7, <1>8 DEF SaveBase

\* What a client does with a chunk.
LEMMA BegunFacts ==
  ASSUME SavePlain, NEW p \in Player, NEW f \in PushFrame, NEW b, b = Begun(p, f)
  PROVE  /\ b \in Partial
         /\ transfer[p][f.slot] # Nil => b = transfer[p][f.slot]
         /\ transfer[p][f.slot] = Nil =>
              b.total = f.total /\ b.size = f.size /\ b.next = 1 /\ b.buffer = <<>>
<1>1. /\ f.slot \in SaveSlot /\ f.total \in Nat /\ f.size \in Nat /\ f.total = Pieces(f.size) /\ f.total > 0
  BY FrameFacts
<1>2. transfer[p][f.slot] \in {Nil} \cup Partial
  BY <1>1 DEF SavePlain
<1>3. CASE transfer[p][f.slot] # Nil
  BY <1>2, <1>3 DEF Begun
<1>4. CASE transfer[p][f.slot] = Nil
  <2>1. b = [slot |-> f.slot, total |-> f.total, size |-> f.size, next |-> 1, buffer |-> <<>>]
    BY <1>4 DEF Begun
  <2>2. <<>> \in Seq(Byte) /\ Len(<<>>) = 0
    OBVIOUS
  <2>3. 1 \in 1..f.total /\ 1 \in Nat
    BY <1>1
  <2>4. b \in [slot : SaveSlot, total : Nat, size : Nat, next : Nat, buffer : Seq(Byte)]
    BY <1>1, <2>1, <2>2, <2>3
  <2>5. b.total = f.total /\ b.size = f.size /\ b.next = 1 /\ b.buffer = <<>>
    BY <2>1
  <2>6. Len(b.buffer) = 0 /\ 0 <= b.size
    BY <1>1, <2>2, <2>5
  <2>7. b \in Partial
    BY <1>1, <2>3, <2>4, <2>5, <2>6 DEF Partial
  <2> QED
    BY <1>4, <2>5, <2>7
<1> QED
  BY <1>3, <1>4

LEMMA PartialFacts ==
  ASSUME NEW b \in Partial
  PROVE  /\ b # Nil /\ b.slot \in SaveSlot /\ b.size \in Nat /\ b.next \in Nat /\ b.next > 0 /\ b.next <= b.total
         /\ b.total \in Nat /\ b.total = Pieces(b.size)
         /\ b.buffer \in Seq(Byte) /\ Len(b.buffer) <= b.size /\ Len(b.buffer) \in Nat
<1>1. b.slot \in SaveSlot /\ Nil.slot = "none"
  BY DEF Partial, Nil
<1>2. b # Nil
  BY <1>1, SaveConstant
<1> QED
  BY <1>1, <1>2 DEF Partial

LEMMA ExtendedFacts ==
  ASSUME NEW b \in Partial, NEW f \in PushFrame, InTurn(b, f), NEW t, t = Extended(b, f)
  PROVE  /\ t.size = b.size /\ t.total = b.total /\ t.next = b.next + 1 /\ f.seq = b.next
         /\ t.buffer = b.buffer \o f.chunk /\ t.buffer \in Seq(Byte)
         /\ t.next <= t.total => t \in Partial
<1>1. f.seq = b.next /\ Len(f.chunk) <= b.size - Len(b.buffer)
  BY DEF InTurn
<1>2. /\ b.buffer \in Seq(Byte) /\ f.chunk \in Seq(Byte) /\ b.next \in Nat /\ b.size \in Nat /\ b.total \in Nat
      /\ b.total = Pieces(b.size) /\ b.next > 0 /\ b.slot \in SaveSlot /\ Len(b.buffer) \in Nat /\ Len(f.chunk) \in Nat
  BY PartialFacts, FrameFacts, QueueFacts
<1> DEFINE d == b.buffer \o f.chunk
           x == b.next + 1
<1>3. d \in Seq(Byte) /\ Len(d) = Len(b.buffer) + Len(f.chunk)
  BY <1>2, Concatenated
<1>4. x \in Nat /\ x > 0 /\ Len(d) <= b.size
  <2>1. PICK k \in Nat, l \in Nat, z \in Nat : k = Len(b.buffer) /\ l = Len(f.chunk) /\ z = b.size
    BY <1>2
  <2>2. l <= z - k
    BY <1>1, <2>1, Zenon
  <2>3. Len(d) = k + l
    BY <1>3, <2>1, Zenon
  <2> HIDE DEF d
  <2>4. k + l <= z
    BY <2>2
  <2>5. Len(d) <= b.size
    BY <2>1, <2>3, <2>4, Zenon
  <2> QED
    BY <1>2, <2>5
<1>5. t = [b EXCEPT !.buffer = d, !.next = x]
  BY DEF Extended
<1> HIDE DEF d, x
<1>6. b \in [slot : SaveSlot, total : Nat, size : Nat, next : Nat, buffer : Seq(Byte)]
  BY DEF Partial
<1>7. /\ t \in [slot : SaveSlot, total : Nat, size : Nat, next : Nat, buffer : Seq(Byte)]
      /\ t.size = b.size /\ t.total = b.total /\ t.next = x /\ t.buffer = d
  BY <1>3, <1>4, <1>5, <1>6
<1>8. x <= t.total => t \in Partial
  BY <1>2, <1>4, <1>7 DEF Partial
<1> QED
  BY <1>1, <1>3, <1>7, <1>8 DEF d, x

Taken(b, f) == IF InTurn(b, f) THEN Extended(b, f) ELSE b

LEMMA TakenFacts ==
  ASSUME NEW b \in Partial, NEW f \in PushFrame, NEW t, t = Taken(b, f)
  PROVE  /\ t.next \in Nat /\ t.total \in Nat /\ t.buffer \in Seq(Byte)
         /\ t.next <= t.total => t \in Partial
<1>1. CASE InTurn(b, f)
  <2>1. t = Extended(b, f)
    BY <1>1 DEF Taken
  <2>2. b.next \in Nat /\ b.total \in Nat
    BY PartialFacts
  <2>3. /\ t.total = b.total /\ t.next = b.next + 1 /\ t.buffer \in Seq(Byte)
        /\ t.next <= t.total => t \in Partial
    <3>1. /\ t.size = b.size /\ t.total = b.total /\ t.next = b.next + 1 /\ f.seq = b.next
          /\ t.buffer = b.buffer \o f.chunk /\ t.buffer \in Seq(Byte)
          /\ t.next <= t.total => t \in Partial
      BY <1>1, <2>1, ExtendedFacts
    <3> QED
      BY <3>1
  <2> QED
    BY <2>2, <2>3
<1>2. CASE ~InTurn(b, f)
  BY <1>2, PartialFacts DEF Taken
<1> QED
  BY <1>1, <1>2

\* What a client does with a chunk f: its transfer goes from b to t.
Fed(p, old, f, b, t) ==
  /\ downlink[p] \in Seq(PushFrame) /\ downlink[p] # <<>> /\ f \in PushFrame /\ f.slot \in SaveSlot
  /\ p \in linked /\ relays = <<>> /\ b \in Partial
  /\ downlink' \in [Player -> Seq(PushFrame)] /\ downlink'[p] = Tail(downlink[p])
  /\ \A q \in Player : q # p => downlink'[q] = downlink[q] /\ transfer'[q] = transfer[q] /\ saved'[q] = saved[q]
  /\ transfer'[p][f.slot] = IF t.next > t.total THEN Nil ELSE t
  /\ \A x \in SaveSlot : x # f.slot =>
       /\ transfer'[p][x] = IF transfer[p][f.slot] = Nil /\ x \in old THEN Nil ELSE transfer[p][x]
       /\ saved'[p][x] = saved[p][x]
  /\ saved'[p][f.slot] = IF t.next > t.total /\ Len(t.buffer) = t.size THEN t.buffer ELSE saved[p][f.slot]
  /\ transfer' \in [Player -> [SaveSlot -> {Nil} \cup Partial]] /\ saved' \in [Player -> [SaveSlot -> Seq(Byte)]]
  /\ spoilt' = spoilt \cup {s \in old : transfer[p][f.slot] = Nil /\ s # f.slot /\ transfer[p][s] # Nil}
  /\ UNCHANGED <<linked, uplink, relays, cached, pushes, trips, muddled, same, due>>

LEMMA Feeding ==
  ASSUME SavePlain, SaveWires, NEW p \in Player, NEW old \in SUBSET SaveSlot, Feed(p, old),
         NEW f, f = downlink[p][1], NEW b, b = Begun(p, f), NEW t, t = Taken(b, f)
  PROVE  Fed(p, old, f, b, t)
<1>1. downlink[p] \in Seq(PushFrame) /\ downlink[p] # <<>> /\ p \in linked /\ relays = <<>>
  BY DEF SaveWires, Feed, TurnOver
<1>2. f = Head(downlink[p]) /\ f \in PushFrame /\ Tail(downlink[p]) \in Seq(PushFrame)
  BY <1>1, QueueFacts, Tailed
<1>3. f.slot \in SaveSlot
  BY <1>2, FrameFacts
<1>4. b \in Partial
  BY <1>2, BegunFacts
<1>5. /\ t.next \in Nat /\ t.total \in Nat /\ t.buffer \in Seq(Byte)
      /\ t.next <= t.total => t \in Partial
  BY <1>2, <1>4, TakenFacts
<1> DEFINE over == t.next > t.total
           v == IF over THEN Nil ELSE t
           row == Pruned(p, f, old)
<1>6. /\ downlink' = [downlink EXCEPT ![p] = Tail(downlink[p])]
      /\ transfer' = [transfer EXCEPT ![p] = [row EXCEPT ![f.slot] = v]]
      /\ saved' = IF over /\ Len(t.buffer) = t.size THEN [saved EXCEPT ![p][f.slot] = t.buffer] ELSE saved
      /\ spoilt' = spoilt \cup {s \in old : transfer[p][f.slot] = Nil /\ s # f.slot /\ transfer[p][s] # Nil}
      /\ UNCHANGED <<linked, uplink, relays, cached, pushes, trips, muddled, same, due>>
  BY <1>2 DEF Feed, Taken
<1>7. v \in {Nil} \cup Partial
  BY <1>5
<1>8. transfer[p] \in [SaveSlot -> {Nil} \cup Partial]
  BY DEF SavePlain
<1>9. row \in [SaveSlot -> {Nil} \cup Partial]
      /\ \A x \in SaveSlot : x # f.slot => row[x] = IF transfer[p][f.slot] = Nil /\ x \in old THEN Nil ELSE transfer[p][x]
  <2>1. CASE transfer[p][f.slot] # Nil
    BY <1>8, <2>1 DEF Pruned
  <2>2. CASE transfer[p][f.slot] = Nil
    BY <1>8, <2>2 DEF Pruned
  <2> QED
    BY <2>1, <2>2
<1> HIDE DEF v, row
<1>10. /\ transfer' \in [Player -> [SaveSlot -> {Nil} \cup Partial]]
       /\ transfer'[p] = [row EXCEPT ![f.slot] = v]
       /\ \A q \in Player : q # p => transfer'[q] = transfer[q]
  <2>1. [row EXCEPT ![f.slot] = v] \in [SaveSlot -> {Nil} \cup Partial]
    BY <1>3, <1>7, <1>9
  <2> QED
    BY <1>6, <2>1 DEF SavePlain
<1>11. transfer'[p][f.slot] = v /\ \A x \in SaveSlot : x # f.slot => transfer'[p][x] = row[x]
  BY <1>3, <1>9, <1>10
<1>12. /\ saved' \in [Player -> [SaveSlot -> Seq(Byte)]]
       /\ \A q \in Player : q # p => saved'[q] = saved[q]
       /\ \A x \in SaveSlot : x # f.slot => saved'[p][x] = saved[p][x]
       /\ saved'[p][f.slot] = IF over /\ Len(t.buffer) = t.size THEN t.buffer ELSE saved[p][f.slot]
  <2>1. saved \in [Player -> [SaveSlot -> Seq(Byte)]]
    BY DEF SavePlain
  <2> DEFINE c == over /\ Len(t.buffer) = t.size
  <2>2. saved' = IF c THEN [saved EXCEPT ![p][f.slot] = t.buffer] ELSE saved
    BY <1>6
  <2> HIDE DEF c
  <2>3. CASE c
    BY <1>3, <1>5, <2>1, <2>2, <2>3 DEF c
  <2>4. CASE ~c
    BY <2>1, <2>2, <2>4 DEF c
  <2> QED
    BY <2>3, <2>4
<1>13. /\ downlink' \in [Player -> Seq(PushFrame)] /\ downlink'[p] = Tail(downlink[p])
       /\ \A q \in Player : q # p => downlink'[q] = downlink[q]
  BY <1>2, <1>6 DEF SaveWires
<1>14. transfer'[p][f.slot] = IF t.next > t.total THEN Nil ELSE t
  BY <1>11 DEF v
<1>15. \A q \in Player : q # p => downlink'[q] = downlink[q] /\ transfer'[q] = transfer[q] /\ saved'[q] = saved[q]
  BY <1>10, <1>12, <1>13
<1>16. \A x \in SaveSlot : x # f.slot =>
         /\ transfer'[p][x] = IF transfer[p][f.slot] = Nil /\ x \in old THEN Nil ELSE transfer[p][x]
         /\ saved'[p][x] = saved[p][x]
  BY <1>9, <1>11, <1>12
<1>17. saved'[p][f.slot] = IF t.next > t.total /\ Len(t.buffer) = t.size THEN t.buffer ELSE saved[p][f.slot]
  BY <1>12
<1> QED
  BY <1>1, <1>2, <1>3, <1>4, <1>6, <1>10, <1>12, <1>13, <1>14, <1>15, <1>16, <1>17, Zenon DEF Fed

LEMMA FeedBase ==
  ASSUME SaveBase, NEW p \in Player, NEW old \in SUBSET SaveSlot, Feed(p, old)
  PROVE  SaveBase'
<1>1. SavePlain /\ SaveWires /\ SavePushed
  BY DEF SaveBase
<1>2. /\ downlink' \in [Player -> Seq(PushFrame)]
      /\ transfer' \in [Player -> [SaveSlot -> {Nil} \cup Partial]] /\ saved' \in [Player -> [SaveSlot -> Seq(Byte)]]
      /\ spoilt' \subseteq spoilt \cup old
      /\ UNCHANGED <<linked, uplink, relays, cached, pushes, trips, muddled, same, due>>
  <2>1. PICK f, b, t : f = downlink[p][1] /\ b = Begun(p, f) /\ t = Taken(b, f)
    OBVIOUS
  <2>2. Fed(p, old, f, b, t)
    BY <1>1, <2>1, Feeding
  <2> QED
    BY <2>2 DEF Fed
<1>3. SavePlain'
  BY <1>1, <1>2 DEF SavePlain
<1>4. SaveWires'
  BY <1>1, <1>2 DEF SaveWires
<1>5. SavePushed'
  BY <1>1, <1>2, PushedSame DEF SavePushed
<1> QED
  BY <1>3, <1>4, <1>5 DEF SaveBase

LEMMA Cutting ==
  ASSUME SaveWires, NEW p \in Player, Cut(p)
  PROVE  /\ uplink' \in [Player -> Seq(SentFrame)]
         /\ \A q \in Player : q # p => uplink'[q] = uplink[q] /\ downlink'[q] = downlink[q]
         /\ \A s : Carries(uplink'[p], s) => Carries(uplink[p], s)
         /\ downlink' \in [Player -> Seq(PushFrame)] /\ downlink'[p] = <<>>
<1>1. PICK n \in 0..Len(uplink[p]) : uplink' = [uplink EXCEPT ![p] = SubSeq(uplink[p], 1, n)]
  BY DEF Cut
<1>2. uplink[p] \in Seq(SentFrame)
  BY DEF SaveWires
<1>3. SubSeq(uplink[p], 1, n) \in Seq(SentFrame)
  <2>1. \A i \in 1..n : i \in 1..Len(uplink[p])
    BY <1>2
  <2> QED
    BY <1>2, <2>1, SubSeqProperties
<1>4. downlink' = [downlink EXCEPT ![p] = <<>>] /\ <<>> \in Seq(PushFrame)
  BY DEF Cut
<1>5. \A s : Carries(SubSeq(uplink[p], 1, n), s) => Carries(uplink[p], s)
  BY <1>1, <1>2, CarriesLess
<1> QED
  BY <1>1, <1>3, <1>4, <1>5 DEF SaveWires

LEMMA CutBase ==
  ASSUME SaveBase, NEW p \in Player, Cut(p)
  PROVE  SaveBase'
<1>1. SavePlain /\ SaveWires /\ SavePushed
  BY DEF SaveBase
<1>2. /\ trips < MaxTrips /\ trips' = trips + 1 /\ linked' = linked \ {p}
      /\ spoilt' = spoilt \cup SlotsIn(uplink[p]) \cup TravellingTo(p)
      /\ due' = [due EXCEPT ![p] = [s \in SaveSlot |-> 0]]
      /\ UNCHANGED <<relays, cached, transfer, saved, pushes, muddled, same>>
  BY DEF Cut
<1>3. /\ uplink' \in [Player -> Seq(SentFrame)] /\ downlink' \in [Player -> Seq(PushFrame)]
      /\ \A q \in Player, s \in SaveSlot : Carries(uplink'[q], s) => Carries(uplink[q], s)
  <2>1. \A q \in Player : q # p => uplink'[q] = uplink[q]
    BY <1>1, Cutting
  <2> QED
    BY <1>1, <2>1, Cutting
<1>4. SlotsIn(uplink[p]) \subseteq SaveSlot /\ TravellingTo(p) \subseteq SaveSlot
  BY <1>1, SlotsFacts, TravellingFacts DEF SaveWires
<1>5. 0 \in 0..MaxPush /\ trips' \in 0..MaxTrips
  BY <1>1, <1>2, SaveConstant DEF SavePlain
<1>6. SavePlain'
  BY <1>1, <1>2, <1>4, <1>5 DEF SavePlain
<1>7. SaveWires'
  BY <1>1, <1>2, <1>3 DEF SaveWires
<1>8. SavePushed'
  BY <1>1, <1>2, <1>3, PushedSame DEF SavePushed
<1> QED
  BY <1>6, <1>7, <1>8 DEF SaveBase

LEMMA RelinkBase ==
  ASSUME SaveBase, NEW p \in Player, Relink(p)
  PROVE  SaveBase'
<1>1. /\ SavePlain /\ SaveWires /\ SavePushed /\ linked' = linked \cup {p}
      /\ UNCHANGED <<uplink, relays, downlink, cached, transfer, saved, saveHistory>>
  BY DEF SaveBase, Relink
<1>2. SavePlain' /\ SaveWires'
  BY <1>1 DEF SavePlain, SaveWires, saveHistory
<1>3. SavePushed'
  BY <1>1, PushedSame DEF SavePushed, saveHistory
<1> QED
  BY <1>2, <1>3 DEF SaveBase

-----------------------------------------------------------------------------
\* A step that says nothing new of a slot.
SameFor(q, r, s) ==
  /\ Carries(r, s) <=> Carries(q, s)
  /\ \A n, size : AllParts(q, s, n, size) => AllParts(r, s, n, size)
  /\ \A from, upto \in Nat : Line(q, s, from, upto) => Line(r, s, from, upto)

LEMMA SameSelf == \A q, s : SameFor(q, q, s)
BY DEF SameFor

LEMMA SameNone ==
  ASSUME NEW q, NEW r, NEW s, ~Carries(q, s), ~Carries(r, s)
  PROVE  SameFor(q, r, s)
<1>1. \A n, size : AllParts(r, s, n, size)
  BY PartsNone
<1>2. \A from, upto \in Nat : Line(q, s, from, upto) => Line(r, s, from, upto)
  BY LineEmpty, LineNone
<1> QED
  BY <1>1, <1>2 DEF SameFor

LEMMA SameMore ==
  ASSUME NEW S, NEW q \in Seq(S), NEW f \in S, NEW s, ~Of(f, s)
  PROVE  SameFor(q, Append(q, f), s)
<1>1. Carries(Append(q, f), s) <=> Carries(q, s)
  BY CarriesMore
<1>2. \A n, size : AllParts(q, s, n, size) => AllParts(Append(q, f), s, n, size)
  BY PartsMore
<1>3. \A from, upto \in Nat : Line(q, s, from, upto) => Line(Append(q, f), s, from, upto)
  BY LineSame
<1> QED
  BY <1>1, <1>2, <1>3 DEF SameFor

LEMMA SameTail ==
  ASSUME NEW S, NEW q \in Seq(S), q # <<>>, NEW s, ~Of(q[1], s)
  PROVE  SameFor(q, Tail(q), s)
<1>1. Carries(Tail(q), s) <=> Carries(q, s)
  BY CarriesTail
<1>2. \A n, size : AllParts(q, s, n, size) => AllParts(Tail(q), s, n, size)
  BY PartsTail
<1>3. \A from, upto \in Nat : Line(q, s, from, upto) => Line(Tail(q), s, from, upto)
  BY LineTail
<1> QED
  BY <1>1, <1>2, <1>3 DEF SameFor

LEMMA LineBoth ==
  ASSUME NEW S, NEW q \in Seq(S), NEW r \in Seq(S), NEW s, ~Carries(r, s), NEW from, NEW upto,
         Line(q, s, from, upto)
  PROVE  Line(q \o r, s, from, upto)
<1> DEFINE c == q \o r
           m == Len(q)
           k == Len(r)
<1>1. /\ m \in Nat /\ k \in Nat /\ DOMAIN q = 1..m /\ DOMAIN r = 1..k /\ DOMAIN c = 1..(m + k)
      /\ \A i \in 1..m : c[i] = q[i]
      /\ \A i \in 1..k : c[m + i] = r[i]
  BY QueueFacts, Concatenated
<1> HIDE DEF c, m, k
<1>2. \A i \in 1..k : ~Of(r[i], s)
  BY <1>1 DEF Carries
<1>3. \A i \in 1..(m + k) : i \in 1..m \/ (i - m \in 1..k /\ m + (i - m) = i)
  BY <1>1
<1>4. \A i \in 1..(m + k) : Of(c[i], s) => i \in 1..m /\ c[i] = q[i]
  BY <1>1, <1>2, <1>3
<1>5. \A i \in 1..m : i \in 1..(m + k)
  BY <1>1
<1>6. \A i \in DOMAIN c : Of(c[i], s) => c[i].seq \in from..upto
  BY <1>1, <1>4 DEF Line
<1>7. \A x \in from..upto : \E i \in DOMAIN c : Of(c[i], s) /\ c[i].seq = x
  BY <1>1, <1>5 DEF Line
<1>8. \A i, j \in DOMAIN c : i < j /\ Of(c[i], s) /\ Of(c[j], s) => c[i].seq < c[j].seq
  BY <1>1, <1>4 DEF Line
<1>9. Line(c, s, from, upto)
  BY <1>6, <1>7, <1>8 DEF Line
<1> QED
  BY <1>9 DEF c

LEMMA SameBoth ==
  ASSUME NEW S, NEW q \in Seq(S), NEW r \in Seq(S), NEW s, ~Carries(r, s)
  PROVE  SameFor(q, q \o r, s)
<1>1. Carries(q \o r, s) <=> Carries(q, s)
  BY CarriesBoth
<1>2. \A n, size : AllParts(q, s, n, size) => AllParts(q \o r, s, n, size)
  BY PartsBoth, PartsNone
<1>3. \A from, upto \in Nat : Line(q, s, from, upto) => Line(q \o r, s, from, upto)
  BY LineBoth
<1> QED
  BY <1>1, <1>2, <1>3 DEF SameFor

UpCalm(s) ==
  \A q \in Player :
    \/ Carries(uplink[q], s) /\ uplink'[q] = uplink[q]
    \/ ~Carries(uplink[q], s) /\ ~Carries(uplink'[q], s)

PlayerCalm(p, s) ==
  /\ SameFor(downlink[p], downlink'[p], s) /\ SameFor(To(relays, p), To(relays', p), s)
  /\ transfer'[p][s] = transfer[p][s] /\ saved'[p][s] = saved[p][s]
  /\ due'[p][s] = due[p][s] \/ due'[p][s] = 0
  /\ p \in linked /\ due'[p][s] # 0 => p \in linked'

CopyCalm(s) ==
  \/ cached' = cached
  \/ cached'.slot # s /\ (s \notin muddled' => \A q \in Player : ~Carries(uplink[q], s))

Aside(s) ==
  /\ UpCalm(s) /\ CopyCalm(s) /\ \A p \in Player : PlayerCalm(p, s)
  /\ s \notin muddled' => s \notin muddled
  /\ s \in same' <=> s \in same
  /\ \A n : Newest(s, n) => Newest(s, n)'
  /\ \A q \in Player : Carries(uplink[q], s) /\ s \notin muddled' =>
       \A r \in Player \ {q}, t \in SaveSlot : Carries(uplink'[r], t) => Carries(uplink[r], t)

LEMMA ReachesCalm ==
  ASSUME NEW p \in Player, NEW s, UpCalm(s), PlayerCalm(p, s)
  PROVE  Reaches(p, s)' <=> Reaches(p, s)
<1>1. \A q \in Player : Carries(uplink'[q], s) <=> Carries(uplink[q], s)
  BY DEF UpCalm
<1>2. /\ Carries(downlink'[p], s) <=> Carries(downlink[p], s)
      /\ Carries(To(relays', p), s) <=> Carries(To(relays, p), s)
  BY DEF PlayerCalm, SameFor
<1> QED
  BY <1>1, <1>2 DEF Reaches

LEMMA NextTyped ==
  ASSUME NEW t \in {Nil} \cup Partial
  PROVE  NextOf(t) \in Nat /\ NextOf(t) > 0
BY PartialFacts DEF NextOf

LEMMA GoesOnCalm ==
  ASSUME NEW p \in Player, NEW s, NEW n, NEW size, GoesOn(p, s, n, size), UpCalm(s), PlayerCalm(p, s)
  PROVE  GoesOn(p, s, n, size)'
<1>1. UpCalm(s) /\ PlayerCalm(p, s)
  OBVIOUS
<1>2. /\ AllParts(uplink[p], s, n, size) /\ AllParts(downlink[p], s, n, size)
      /\ AllParts(To(relays, p), s, n, size)
      /\ Reaches(p, s) /\ transfer[p][s] # Nil => Fits(transfer[p][s], n, size)
  BY DEF GoesOn
<1>3. AllParts(uplink'[p], s, n, size)
  BY <1>1, <1>2, PartsNone DEF UpCalm
<1>4. AllParts(downlink'[p], s, n, size) /\ AllParts(To(relays', p), s, n, size)
  BY <1>1, <1>2 DEF PlayerCalm, SameFor
<1>5. transfer'[p][s] = transfer[p][s]
  BY <1>1 DEF PlayerCalm
<1>6. Reaches(p, s)' /\ transfer'[p][s] # Nil => Fits(transfer'[p][s], n, size)
  BY <1>1, <1>2, <1>5, ReachesCalm
<1> QED
  BY <1>3, <1>4, <1>6 DEF GoesOn

LEMMA AsidePush ==
  ASSUME NEW s, NEW n, NEW size, OnePush(s, n, size), Aside(s)
  PROVE  OnePush(s, n, size)'
BY GoesOnCalm DEF OnePush, Aside

LEMMA AsidePusher ==
  ASSUME NEW s, NEW n, NEW size, OnePusher(s, n, size), Aside(s)
  PROVE  OnePusher(s, n, size)'
<1> SUFFICES ASSUME NEW q \in Player, Carries(uplink'[q], s)
             PROVE  /\ Newest(s, n)' /\ Pushes(uplink'[q], s, size)
                    /\ \A r \in Player \ {q} :
                         /\ ~Carries(uplink'[r], s)
                         /\ s \notin muddled' => \A t \in SaveSlot : ~Carries(uplink'[r], t)
  BY DEF OnePusher
<1>1. Carries(uplink[q], s) /\ uplink'[q] = uplink[q]
  BY DEF Aside, UpCalm
<1>2. /\ Newest(s, n) /\ Pushes(uplink[q], s, size)
      /\ \A r \in Player \ {q} :
           /\ ~Carries(uplink[r], s)
           /\ s \notin muddled => \A t \in SaveSlot : ~Carries(uplink[r], t)
  BY <1>1 DEF OnePusher
<1>3. \A r \in Player \ {q} : ~Carries(uplink'[r], s)
  BY <1>2 DEF Aside, UpCalm
<1>4. ASSUME s \notin muddled', NEW r \in Player \ {q}, NEW t \in SaveSlot PROVE ~Carries(uplink'[r], t)
  BY <1>1, <1>2, <1>4 DEF Aside
<1>5. Newest(s, n)' /\ Pushes(uplink'[q], s, size)
  BY <1>1, <1>2 DEF Aside
<1> QED
  BY <1>3, <1>4, <1>5

LEMMA AsideCopy ==
  ASSUME NEW s, NEW n, NEW size, CopyOf(s, n, size), Aside(s)
  PROVE  CopyOf(s, n, size)'
<1> SUFFICES ASSUME s \notin muddled'
             PROVE  /\ \A q \in Player : Carries(uplink'[q], s) => Follows(uplink[q], s, size)'
                    /\ cached'.slot = s =>
                         IF cached'.open THEN \E q \in Player : Growing(uplink[q], s, n, size)'
                         ELSE \E m \in Nat : Whole(s, m)'
  BY DEF CopyOf
<1>1. s \notin muddled /\ (s \in same' <=> s \in same) /\ UpCalm(s) /\ CopyCalm(s)
  BY DEF Aside
<1>2. \A q \in Player : Carries(uplink'[q], s) => Carries(uplink[q], s) /\ uplink'[q] = uplink[q]
  BY <1>1 DEF UpCalm
<1>3. CASE cached' = cached
  <2>1. ASSUME NEW q \in Player, Carries(uplink'[q], s) PROVE Follows(uplink[q], s, size)'
    BY <1>1, <1>2, <1>3, <2>1 DEF CopyOf, Follows
  <2>2. ASSUME cached.slot = s, cached.open PROVE \E q \in Player : Growing(uplink[q], s, n, size)'
    <3>1. PICK q \in Player : Growing(uplink[q], s, n, size)
      BY <1>1, <2>2 DEF CopyOf
    <3>2. uplink'[q] = uplink[q]
      BY <1>1, <3>1 DEF UpCalm, Growing
    <3> QED
      BY <1>3, <3>1, <3>2 DEF Growing
  <2>3. ASSUME cached.slot = s, ~cached.open PROVE \E m \in Nat : Whole(s, m)'
    <3>1. PICK m \in Nat : Whole(s, m)
      BY <1>1, <2>3 DEF CopyOf
    <3>2. \A q \in Player : Carries(uplink'[q], s) <=> Carries(uplink[q], s)
      BY <1>1 DEF UpCalm
    <3>3. Newest(s, m) => Newest(s, m)'
      BY DEF Aside
    <3> QED
      BY <1>1, <1>3, <3>1, <3>2, <3>3 DEF Whole
  <2> QED
    BY <1>3, <2>1, <2>2, <2>3
<1>4. CASE cached'.slot # s /\ \A q \in Player : ~Carries(uplink[q], s)
  BY <1>2, <1>4
<1> QED
  BY <1>1, <1>3, <1>4 DEF CopyCalm

LEMMA OwedCalm ==
  ASSUME SavePlain, NEW s \in SaveSlot, NEW n, NEW size \in Nat, NEW p \in Player, Owed(p, s, n, size),
         UpCalm(s), PlayerCalm(p, s)
  PROVE  Owed(p, s, n, size)'
<1> SUFFICES ASSUME due'[p][s] # 0
             PROVE  /\ p \in linked' /\ ~Carries(uplink'[p], s)
                    /\ IF Reaches(p, s)'
                         THEN due'[p][s] = n /\ \E a, b \in 0..Pieces(size) : Coming(p, s, size, a, b)'
                         ELSE saved'[p][s] # <<>> /\ saved'[p][s][1][1] = due'[p][s]
  BY DEF Owed
<1>1. UpCalm(s) /\ PlayerCalm(p, s)
  OBVIOUS
<1>2. due'[p][s] = due[p][s] /\ transfer'[p][s] = transfer[p][s] /\ saved'[p][s] = saved[p][s]
  BY <1>1 DEF PlayerCalm
<1>3. /\ p \in linked /\ ~Carries(uplink[p], s)
      /\ IF Reaches(p, s)
           THEN due[p][s] = n /\ \E a, b \in 0..Pieces(size) : Coming(p, s, size, a, b)
           ELSE saved[p][s] # <<>> /\ saved[p][s][1][1] = due[p][s]
  BY <1>2 DEF Owed
<1>4. p \in linked' /\ ~Carries(uplink'[p], s)
  BY <1>1, <1>2, <1>3 DEF PlayerCalm, UpCalm
<1>5. Reaches(p, s)' <=> Reaches(p, s)
  BY <1>1, ReachesCalm
<1>6. CASE Reaches(p, s)
  <2>1. PICK a \in 0..Pieces(size), b \in 0..Pieces(size) : Coming(p, s, size, a, b)
    BY <1>3, <1>6
  <2>2. a \in Nat /\ a + 1 \in Nat /\ b \in Nat
    BY PiecesFacts
  <2> DEFINE x == NextOf(transfer[p][s])
  <2>3. x \in Nat
    BY NextTyped DEF SavePlain
  <2>4. /\ x <= a + 1 /\ a <= b
        /\ Line(downlink[p], s, x, a) /\ Line(To(relays, p), s, a + 1, b)
        /\ \A q \in Player : Carries(uplink[q], s) => b = Pieces(size) - Len(uplink[q])
        /\ (\A q \in Player : ~Carries(uplink[q], s)) => b = Pieces(size)
    BY <2>1 DEF Coming
  <2> HIDE DEF x
  <2>5. Line(downlink'[p], s, x, a) /\ Line(To(relays', p), s, a + 1, b)
    BY <1>1, <2>2, <2>3, <2>4 DEF PlayerCalm, SameFor
  <2>6. /\ \A q \in Player : Carries(uplink'[q], s) => b = Pieces(size) - Len(uplink'[q])
        /\ (\A q \in Player : ~Carries(uplink'[q], s)) => b = Pieces(size)
    BY <1>1, <2>4 DEF UpCalm
  <2>7. NextOf(transfer'[p][s]) = x
    BY <1>2 DEF x
  <2>8. Coming(p, s, size, a, b)'
    BY <2>4, <2>5, <2>6, <2>7 DEF Coming
  <2> QED
    BY <1>2, <1>3, <1>4, <1>5, <1>6, <2>8
<1>7. CASE ~Reaches(p, s)
  BY <1>2, <1>3, <1>4, <1>5, <1>7
<1> QED
  BY <1>6, <1>7

LEMMA AsideKeeps ==
  ASSUME SavePlain, NEW s \in SaveSlot, SlotInv(s), Aside(s)
  PROVE  SlotInv(s)'
<1>1. PICK n \in Nat, size \in Nat \ {0} : OnePushOf(s, n, size)
  BY DEF SlotInv
<1>2. OnePushOf(s, n, size)'
  BY <1>1, AsidePush, AsidePusher, AsideCopy, OwedCalm DEF OnePushOf, Aside
<1>3. ClientsHave(s)'
  BY DEF Aside, PlayerCalm, SlotInv, ClientsHave
<1> QED
  BY <1>1, <1>2, <1>3 DEF SlotInv

\* Steps about other slots, and those that only ask, break or come back.
LEMMA FetchCalm ==
  ASSUME SaveWires, NEW s, SlotInv(s), NEW p \in Player, NEW type, Fetch(p, type), ~Of(uplink[p][1], s)
  PROVE  /\ UpCalm(s) /\ ~Carries(uplink[p], s)
         /\ \A q \in Player : \A t : Carries(uplink'[q], t) => Carries(uplink[q], t)
<1>1. /\ uplink[p] \in Seq(SentFrame) /\ uplink[p] # <<>>
      /\ \A q \in Player : q # p => uplink'[q] = uplink[q]
      /\ \A q \in Player : \A t : Carries(uplink'[q], t) => Carries(uplink[q], t)
  BY Fetched
<1>2. ~Carries(uplink[p], s)
  <2>1. SUFFICES ASSUME Carries(uplink[p], s) PROVE FALSE
    OBVIOUS
  <2>2. PICK n \in Nat, size \in Nat \ {0} : OnePusher(s, n, size)
    BY DEF SlotInv, OnePushOf
  <2>3. Pushes(uplink[p], s, size)
    BY <2>1, <2>2 DEF OnePusher
  <2>4. 1 \in DOMAIN uplink[p]
    <3>1. DOMAIN uplink[p] = 1..Len(uplink[p]) /\ Len(uplink[p]) \in Nat /\ Len(uplink[p]) > 0
      BY <1>1, QueueFacts
    <3> QED
      BY <3>1
  <2> QED
    BY <2>3, <2>4 DEF Pushes
<1>3. ~Carries(uplink'[p], s)
  BY <1>1, <1>2
<1>4. UpCalm(s)
  BY <1>1, <1>2, <1>3 DEF UpCalm
<1> QED
  BY <1>1, <1>2, <1>4

LEMMA AskAside ==
  ASSUME SaveWires, NEW s, NEW p \in Player, Ask(p)
  PROVE  Aside(s)
<1>1. /\ uplink[p] = <<>> /\ uplink' = [uplink EXCEPT ![p] = <<Request>>]
      /\ UNCHANGED <<linked, relays, downlink, cached, transfer, saved, pushes, spoilt, muddled, same, due>>
  BY DEF Ask
<1>2. uplink'[p] = <<Request>> /\ \A q \in Player : q # p => uplink'[q] = uplink[q]
  BY <1>1 DEF SaveWires
<1>3. \A t : ~Carries(uplink[p], t) /\ ~Carries(uplink'[p], t)
  <2>1. DOMAIN <<Request>> = {1} /\ <<Request>>[1] = Request
    OBVIOUS
  <2> QED
    BY <1>1, <1>2, <2>1, NothingCarried DEF Carries
<1>4. UpCalm(s)
  BY <1>2, <1>3 DEF UpCalm
<1>5. CopyCalm(s) /\ \A q \in Player : PlayerCalm(q, s)
  BY <1>1, SameSelf DEF CopyCalm, PlayerCalm
<1>6. \A n : Newest(s, n) => Newest(s, n)'
  BY <1>1, PushedSame
<1> QED
  BY <1>1, <1>2, <1>3, <1>4, <1>5, <1>6 DEF Aside

LEMMA RelinkAside ==
  ASSUME NEW s, NEW p \in Player, Relink(p)
  PROVE  Aside(s)
<1>1. /\ linked' = linked \cup {p}
      /\ UNCHANGED <<uplink, relays, downlink, cached, transfer, saved, saveHistory>>
  BY DEF Relink
<1>2. UpCalm(s)
  BY <1>1 DEF UpCalm
<1>3. CopyCalm(s) /\ \A q \in Player : PlayerCalm(q, s)
  BY <1>1, SameSelf DEF CopyCalm, PlayerCalm, saveHistory
<1>4. \A n : Newest(s, n) => Newest(s, n)'
  BY <1>1, PushedSame DEF saveHistory
<1> QED
  BY <1>1, <1>2, <1>3, <1>4 DEF Aside, saveHistory

LEMMA NothingAside ==
  ASSUME SaveWires, NEW s, SlotInv(s), NEW p \in Player, NothingToReplay(p)
  PROVE  Aside(s)
<1>1. /\ Fetch(p, "REQUEST")
      /\ UNCHANGED <<linked, relays, downlink, cached, transfer, saved, saveHistory>>
  BY DEF NothingToReplay
<1>2. ~Of(uplink[p][1], s)
  BY <1>1, Fetched DEF Of
<1>3. UpCalm(s) /\ \A q \in Player : \A t : Carries(uplink'[q], t) => Carries(uplink[q], t)
  BY <1>1, <1>2, FetchCalm
<1>4. CopyCalm(s) /\ \A q \in Player : PlayerCalm(q, s)
  BY <1>1, SameSelf DEF CopyCalm, PlayerCalm, saveHistory
<1>5. \A n : Newest(s, n) => Newest(s, n)'
  BY <1>1, PushedSame DEF saveHistory
<1> QED
  BY <1>1, <1>3, <1>4, <1>5 DEF Aside, saveHistory

LEMMA CutAside ==
  ASSUME SavePlain, SaveWires, NEW s \in SaveSlot, NEW p \in Player, Cut(p), s \notin spoilt'
  PROVE  Aside(s)
<1>1. /\ linked' = linked \ {p}
      /\ spoilt' = spoilt \cup SlotsIn(uplink[p]) \cup TravellingTo(p)
      /\ due' = [due EXCEPT ![p] = [t \in SaveSlot |-> 0]]
      /\ UNCHANGED <<relays, cached, transfer, saved, pushes, muddled, same>>
  BY DEF Cut
<1>2. /\ \A q \in Player : q # p => uplink'[q] = uplink[q] /\ downlink'[q] = downlink[q]
      /\ \A t : Carries(uplink'[p], t) => Carries(uplink[p], t)
      /\ downlink'[p] = <<>>
  BY Cutting
<1>3. ~Carries(uplink[p], s) /\ ~Carries(downlink[p], s)
  <2>1. uplink[p] \in Seq(SentFrame)
    BY DEF SaveWires
  <2> QED
    BY <1>1, <2>1, SlotsFacts, TravellingFacts
<1>4. UpCalm(s)
  BY <1>2, <1>3 DEF UpCalm
<1>5. due'[p][s] = 0 /\ \A q \in Player : q # p => due'[q] = due[q]
  BY <1>1 DEF SavePlain
<1>6. ASSUME NEW q \in Player PROVE PlayerCalm(q, s)
  <2>1. CASE q = p
    <3>1. SameFor(downlink[p], downlink'[p], s)
      BY <1>2, <1>3, SameNone, NothingCarried
    <3> QED
      BY <1>1, <1>5, <2>1, <3>1, SameSelf DEF PlayerCalm
  <2>2. CASE q # p
    BY <1>1, <1>2, <1>5, <2>2, SameSelf DEF PlayerCalm
  <2> QED
    BY <2>1, <2>2
<1>7. \A n : Newest(s, n) => Newest(s, n)'
  BY <1>1, PushedSame
<1>8. \A q \in Player : \A t : Carries(uplink'[q], t) => Carries(uplink[q], t)
  BY <1>2
<1> QED
  BY <1>1, <1>4, <1>6, <1>7, <1>8 DEF Aside, CopyCalm

LEMMA PushAside ==
  ASSUME SaveBase, NEW p \in Player, NEW slot \in SaveSlot, NEW size \in 1..MaxBytes, Push(p, slot, size),
         NEW s \in SaveSlot, s # slot
  PROVE  Aside(s)
<1> DEFINE k == Len(pushes) + 1
           d == File(k, size)
           cs == Chunks(slot, d)
<1>1. SavePlain /\ SaveWires /\ size \in Nat /\ k \in Nat
  BY SaveConstant DEF SaveBase, SavePlain
<1>2. /\ uplink[p] = <<>> /\ pushes' = Append(pushes, slot)
      /\ uplink' = [uplink EXCEPT ![p] = cs]
      /\ muddled' = IF Unread \subseteq {slot} THEN muddled ELSE muddled \cup Unread \cup {slot}
      /\ due' = [q \in Player |-> [due[q] EXCEPT ![slot] = IF q \in linked \ {p} THEN k ELSE 0]]
      /\ same' = IF cached.slot = slot /\ cached.size = size THEN same \cup {slot} ELSE same \ {slot}
      /\ UNCHANGED <<linked, relays, downlink, cached, transfer, saved, trips>>
  BY DEF Push
<1>3. DOMAIN cs = 1..Len(cs) /\ \A i \in DOMAIN cs : cs[i].slot = slot
  <2>1. d \in Seq(Byte)
    BY <1>1, FileFacts
  <2> HIDE DEF d
  <2> QED
    BY <2>1, ChunksSlots
<1> HIDE DEF k, d, cs
<1>4. uplink'[p] = cs /\ \A q \in Player : q # p => uplink'[q] = uplink[q]
  BY <1>1, <1>2 DEF SaveWires
<1>5. ~Carries(cs, s) /\ ~Carries(uplink[p], s)
  <2>1. ~Carries(cs, s)
    BY <1>3 DEF Carries, Of
  <2> QED
    BY <1>2, <2>1, NothingCarried
<1>6. UpCalm(s)
  BY <1>4, <1>5 DEF UpCalm
<1>7. \A q \in Player : due'[q][s] = due[q][s]
  <2>1. ASSUME NEW q \in Player PROVE due'[q][s] = due[q][s]
    <3> DEFINE v == IF q \in linked \ {p} THEN k ELSE 0
    <3>1. due'[q] = [due[q] EXCEPT ![slot] = v]
      BY <1>2
    <3> HIDE DEF v
    <3>2. due[q] \in [SaveSlot -> 0..MaxPush]
      BY <1>1 DEF SavePlain
    <3> QED
      BY <3>1, <3>2
  <2> QED
    BY <2>1
<1>8. CopyCalm(s) /\ \A q \in Player : PlayerCalm(q, s)
  BY <1>2, <1>7, SameSelf DEF CopyCalm, PlayerCalm
<1>9. \A n : Newest(s, n) => Newest(s, n)'
  BY <1>1, <1>2, PushedMore DEF SavePlain
<1>10. ASSUME NEW q \in Player, Carries(uplink[q], s) PROVE s \in muddled'
  BY <1>1, <1>2, <1>10, EverywhereFacts
<1>11. (s \notin muddled' => s \notin muddled) /\ (s \in same' <=> s \in same)
  BY <1>2
<1> QED
  BY <1>6, <1>8, <1>9, <1>10, <1>11 DEF Aside

LEMMA CacheAside ==
  ASSUME SaveBase, NEW s \in SaveSlot, SlotInv(s), NEW p \in Player, CacheAndRelay(p), ~Of(uplink[p][1], s)
  PROVE  Aside(s)
<1> DEFINE f == Head(uplink[p])
           r == [from |-> p, to |-> linked \ {p}, frame |-> f]
<1>1. SavePlain /\ SaveWires /\ Fetch(p, "PUSH")
  BY DEF SaveBase, CacheAndRelay
<1>2. f = uplink[p][1] /\ f \in SentFrame /\ f.type = "PUSH" /\ uplink[p] \in Seq(SentFrame) /\ uplink[p] # <<>>
  BY <1>1, Fetched
<1>3. f \in PushFrame /\ f.slot \in SaveSlot /\ f.slot # s
  BY <1>2, SentFacts, FrameFacts DEF Of
<1>4. r \in Relay /\ r.frame = f
  BY <1>1, <1>3 DEF Relay, SavePlain
<1>5. /\ cached' = Written(f) /\ relays' = Append(relays, r)
      /\ UNCHANGED <<linked, downlink, transfer, saved, saveHistory>>
  BY DEF CacheAndRelay
<1> HIDE DEF f, r
<1>6. UpCalm(s) /\ \A q \in Player : \A t : Carries(uplink'[q], t) => Carries(uplink[q], t)
  BY <1>1, FetchCalm
<1>7. CopyCalm(s)
  <2>1. cached'.slot # s
    BY <1>1, <1>3, <1>5, WrittenFacts DEF SavePlain
  <2>2. ASSUME s \notin muddled, NEW q \in Player, Carries(uplink[q], s) PROVE FALSE
    <3>1. PICK n \in Nat, size \in Nat \ {0} : OnePusher(s, n, size)
      BY DEF SlotInv, OnePushOf
    <3>2. \A x \in Player \ {q} : \A t \in SaveSlot : ~Carries(uplink[x], t)
      BY <2>2, <3>1 DEF OnePusher
    <3>3. Of(f, f.slot)
      BY <1>2 DEF Of
    <3>4. Carries(uplink[p], f.slot)
      BY <1>2, <3>3, CarriesTail
    <3>5. q # p
      BY <1>1, <2>2, FetchCalm
    <3> QED
      BY <1>3, <3>2, <3>4, <3>5
  <2>3. muddled' = muddled
    BY <1>5 DEF saveHistory
  <2> QED
    BY <2>1, <2>2, <2>3 DEF CopyCalm
<1>8. ASSUME NEW q \in Player PROVE PlayerCalm(q, s)
  <2>1. relays \in Seq(Relay)
    BY <1>1 DEF SaveWires
  <2>2. To(relays', q) = Append(To(relays, q), Heard(r, q)) /\ To(relays, q) \in Seq(SentFrame)
    BY <1>4, <1>5, <2>1, ToMore, ToFacts
  <2>3. Heard(r, q) \in SentFrame /\ ~Of(Heard(r, q), s)
    BY <1>3, <1>4, HeardFacts
  <2>4. SameFor(To(relays, q), To(relays', q), s)
    BY <2>2, <2>3, SameMore
  <2> QED
    BY <1>5, <2>4, SameSelf DEF PlayerCalm, saveHistory
<1>9. \A n : Newest(s, n) => Newest(s, n)'
  BY <1>5, PushedSame DEF saveHistory
<1> QED
  BY <1>5, <1>6, <1>7, <1>8, <1>9 DEF Aside, saveHistory

LEMMA ReplayAside ==
  ASSUME SaveBase, NEW s \in SaveSlot, SlotInv(s), NEW p \in Player, Replay(p), cached.slot # s
  PROVE  Aside(s)
<1> DEFINE c == cached.slot
           cs == Chunks(c, cached.data)
<1>1. SavePlain /\ SaveWires /\ Fetch(p, "REQUEST") /\ cached # Nil
  BY DEF SaveBase, Replay, Complete
<1>2. c \in SaveSlot /\ cached.data \in Seq(Byte) /\ c # s
  BY <1>1, CopyFacts DEF SavePlain
<1>3. /\ downlink' = [downlink EXCEPT ![p] = downlink[p] \o cs]
      /\ due' = [due EXCEPT ![p][c] = IF c \in same THEN 0 ELSE LastPush(c)]
      /\ UNCHANGED <<linked, relays, cached, transfer, saved, pushes, trips, muddled, same>>
  BY DEF Replay
<1>4. cs \in Seq(PushFrame) /\ DOMAIN cs = 1..Len(cs) /\ \A i \in DOMAIN cs : cs[i].slot = c
  BY <1>2, ChunksSlots
<1> HIDE DEF c, cs
<1>5. ~Carries(cs, s)
  BY <1>2, <1>4 DEF Carries, Of
<1>6. ~Of(uplink[p][1], s)
  BY <1>1, Fetched DEF Of
<1>7. UpCalm(s) /\ \A q \in Player : \A t : Carries(uplink'[q], t) => Carries(uplink[q], t)
  BY <1>1, <1>6, FetchCalm
<1>8. \A q \in Player : due'[q][s] = due[q][s]
  BY <1>1, <1>2, <1>3 DEF SavePlain
<1>9. downlink[p] \in Seq(PushFrame) /\ downlink'[p] = downlink[p] \o cs
      /\ \A q \in Player : q # p => downlink'[q] = downlink[q]
  BY <1>1, <1>3 DEF SaveWires
<1>10. \A q \in Player : SameFor(downlink[q], downlink'[q], s)
  BY <1>4, <1>5, <1>9, SameSelf, SameBoth
<1>11. CopyCalm(s) /\ \A q \in Player : PlayerCalm(q, s)
  BY <1>3, <1>8, <1>10, SameSelf DEF CopyCalm, PlayerCalm
<1>12. \A n : Newest(s, n) => Newest(s, n)'
  BY <1>3, PushedSame
<1> QED
  BY <1>3, <1>7, <1>11, <1>12 DEF Aside

LEMMA FeedAside ==
  ASSUME SavePlain, SaveWires, NEW s \in SaveSlot, NEW p \in Player, NEW old \in SUBSET SaveSlot, Feed(p, old),
         downlink[p][1].slot # s, s \notin spoilt'
  PROVE  Aside(s)
<1>1. PICK f, b, t : f = downlink[p][1] /\ b = Begun(p, f) /\ t = Taken(b, f)
  OBVIOUS
<1>2. /\ downlink[p] \in Seq(PushFrame) /\ downlink[p] # <<>> /\ downlink'[p] = Tail(downlink[p])
      /\ \A q \in Player : q # p => downlink'[q] = downlink[q] /\ transfer'[q] = transfer[q] /\ saved'[q] = saved[q]
      /\ transfer'[p][s] = IF transfer[p][f.slot] = Nil /\ s \in old THEN Nil ELSE transfer[p][s]
      /\ saved'[p][s] = saved[p][s]
      /\ spoilt' = spoilt \cup {x \in old : transfer[p][f.slot] = Nil /\ x # f.slot /\ transfer[p][x] # Nil}
      /\ UNCHANGED <<linked, uplink, relays, cached, pushes, trips, muddled, same, due>>
  <2>1. Fed(p, old, f, b, t)
    BY <1>1, Feeding
  <2>2. f.slot # s
    BY <1>1
  <2>3. /\ \A x \in SaveSlot : x # f.slot =>
             /\ transfer'[p][x] = IF transfer[p][f.slot] = Nil /\ x \in old THEN Nil ELSE transfer[p][x]
             /\ saved'[p][x] = saved[p][x]
        /\ spoilt' = spoilt \cup {x \in old : transfer[p][f.slot] = Nil /\ x # f.slot /\ transfer[p][x] # Nil}
    BY <2>1, Zenon DEF Fed
  <2>4. /\ downlink[p] \in Seq(PushFrame) /\ downlink[p] # <<>> /\ downlink'[p] = Tail(downlink[p])
        /\ \A q \in Player : q # p => downlink'[q] = downlink[q] /\ transfer'[q] = transfer[q] /\ saved'[q] = saved[q]
        /\ UNCHANGED <<linked, uplink, relays, cached, pushes, trips, muddled, same, due>>
    BY <2>1, Zenon DEF Fed
  <2> QED
    BY <2>2, <2>3, <2>4, Zenon
<1>3. transfer'[p][s] = transfer[p][s]
  BY <1>1, <1>2
<1>4. ~Of(downlink[p][1], s)
  BY DEF Of
<1>5. \A q \in Player : SameFor(downlink[q], downlink'[q], s)
  BY <1>2, <1>4, SameSelf, SameTail
<1>6. UpCalm(s) /\ CopyCalm(s) /\ \A q \in Player : PlayerCalm(q, s)
  BY <1>2, <1>3, <1>5, SameSelf DEF UpCalm, CopyCalm, PlayerCalm
<1>7. \A n : Newest(s, n) => Newest(s, n)'
  BY <1>2, PushedSame
<1> QED
  BY <1>2, <1>6, <1>7 DEF Aside

-----------------------------------------------------------------------------
\* Steps about the slot: what is relayed moves on.
LEMMA ServerSame ==
  ASSUME UNCHANGED <<uplink, muddled, same, cached, pushes>>, NEW s, NEW n, NEW size
  PROVE  /\ OnePusher(s, n, size) => OnePusher(s, n, size)'
         /\ CopyOf(s, n, size) => CopyOf(s, n, size)'
         /\ UpCalm(s)
<1>1. \A m : Newest(s, m)' <=> Newest(s, m)
  BY PushedSame
<1>2. OnePusher(s, n, size) => OnePusher(s, n, size)'
  BY <1>1 DEF OnePusher
<1>3. \A q : Follows(q, s, size)' <=> Follows(q, s, size)
  BY DEF Follows
<1>4. \A q : Growing(q, s, n, size)' <=> Growing(q, s, n, size)
  BY DEF Growing
<1>5. \A m : Whole(s, m)' <=> Whole(s, m)
  BY <1>1 DEF Whole
<1>6. CopyOf(s, n, size) => CopyOf(s, n, size)'
  BY <1>3, <1>4, <1>5 DEF CopyOf
<1>7. UpCalm(s)
  BY DEF UpCalm
<1> QED
  BY <1>2, <1>6, <1>7

\* A chunk goes from the relays to a client's wire.
LEMMA RelayedOwed ==
  ASSUME SavePlain, SaveWires, NEW s \in SaveSlot, NEW n, NEW size \in Nat, NEW p \in Player, Owed(p, s, n, size),
         UNCHANGED <<uplink, linked, transfer, saved, due>>, relays # <<>>, relays' = Tail(relays),
         Of(To(relays, p)[1], s),
         p \in linked => downlink'[p] = Append(downlink[p], To(relays, p)[1])
  PROVE  Owed(p, s, n, size)'
<1> SUFFICES ASSUME due[p][s] # 0
             PROVE  /\ p \in linked' /\ ~Carries(uplink'[p], s)
                    /\ IF Reaches(p, s)'
                         THEN due'[p][s] = n /\ \E a, b \in 0..Pieces(size) : Coming(p, s, size, a, b)'
                         ELSE saved'[p][s] # <<>> /\ saved'[p][s][1][1] = due'[p][s]
  BY DEF Owed
<1> DEFINE t == To(relays, p)
           f == t[1]
           d == downlink[p]
           x == NextOf(transfer[p][s])
<1>1. t \in Seq(SentFrame) /\ t # <<>> /\ To(relays', p) = Tail(t) /\ f \in SentFrame /\ f \in PushFrame
  <2>1. t \in Seq(SentFrame) /\ t # <<>> /\ To(relays', p) = Tail(t)
    BY ToFacts, ToTail DEF SaveWires
  <2>2. f \in SentFrame
    BY <2>1, QueueFacts
  <2> QED
    BY <2>1, <2>2, SentFacts
<1>2. Carries(t, s)
  BY <1>1, CarriesTail
<1>3. Reaches(p, s)
  BY <1>2 DEF Reaches
<1>4. p \in linked /\ ~Carries(uplink[p], s) /\ due[p][s] = n
  BY <1>3 DEF Owed
<1>5. PICK a \in 0..Pieces(size), b \in 0..Pieces(size) : Coming(p, s, size, a, b)
  BY <1>3 DEF Owed
<1>6. d \in Seq(PushFrame) /\ downlink'[p] = Append(d, f) /\ Pieces(size) \in Nat
  BY <1>4, PiecesFacts DEF SaveWires
<1>7. x \in Nat
  BY NextTyped DEF SavePlain
<1>8. /\ x <= a + 1 /\ a <= b /\ Line(d, s, x, a) /\ Line(t, s, a + 1, b)
      /\ \A q \in Player : Carries(uplink[q], s) => b = Pieces(size) - Len(uplink[q])
      /\ (\A q \in Player : ~Carries(uplink[q], s)) => b = Pieces(size)
  BY <1>5 DEF Coming
<1>0. Of(f, s)
  OBVIOUS
<1> HIDE DEF t, f, d, x
<1>9. PICK c \in Nat : c = a + 1 /\ a \in Nat /\ b \in Nat
  BY <1>6
<1>10. f.seq = c /\ c <= b /\ Line(Tail(t), s, c + 1, b)
  <2>1. Line(t, s, c, b) /\ Of(t[1], s)
    BY <1>0, <1>8, <1>9 DEF f
  <2> QED
    BY <1>1, <1>9, <2>1, LineTail DEF f
<1>11. Line(Append(d, f), s, x, c)
  BY <1>0, <1>1, <1>6, <1>7, <1>8, <1>9, <1>10, LineMore
<1>12. c \in 0..Pieces(size) /\ x <= c + 1
  BY <1>6, <1>7, <1>8, <1>9, <1>10
<1>13. Coming(p, s, size, c, b)'
  <2>1. NextOf(transfer'[p][s]) = x /\ uplink' = uplink
    BY DEF x
  <2> QED
    BY <1>1, <1>6, <1>8, <1>10, <1>11, <1>12, <2>1 DEF Coming
<1>14. Carries(downlink'[p], s)
  BY <1>0, <1>1, <1>6, CarriesMore
<1> QED
  BY <1>4, <1>12, <1>13, <1>14 DEF Reaches

LEMMA RelayKeeps ==
  ASSUME SaveBase, NEW s \in SaveSlot, SlotInv(s), RunRelay
  PROVE  SlotInv(s)'
<1>1. SavePlain /\ SaveWires /\ relays # <<>> /\ relays \in Seq(Relay)
  BY DEF SaveBase, SaveWires, RunRelay
<1> DEFINE r == relays[1]
<1>2. Head(relays) = r /\ r \in Relay /\ r.frame \in PushFrame
  BY <1>1, QueueFacts, HeardFacts
<1>3. /\ relays' = Tail(relays)
      /\ \A q \in Player :
           downlink'[q] = IF q \in r.to \cap linked THEN Append(downlink[q], r.frame) ELSE downlink[q]
      /\ UNCHANGED <<linked, uplink, cached, transfer, saved, saveHistory>>
  BY <1>2 DEF RunRelay
<1>4. PICK n \in Nat, size \in Nat \ {0} : OnePushOf(s, n, size)
  BY DEF SlotInv
<1>5. OnePusher(s, n, size)' /\ CopyOf(s, n, size)' /\ UpCalm(s)
  BY <1>3, <1>4, ServerSame DEF saveHistory, OnePushOf
<1>6. ClientsHave(s)'
  BY <1>3 DEF SlotInv, ClientsHave
<1>7. ASSUME NEW p \in Player PROVE GoesOn(p, s, n, size)' /\ Owed(p, s, n, size)'
  <2> DEFINE t == To(relays, p)
             h == t[1]
  <2>1. /\ t \in Seq(SentFrame) /\ t # <<>> /\ To(relays', p) = Tail(t)
        /\ h = Heard(r, p) /\ h \in SentFrame
    BY <1>1, <1>3, ToFacts, ToTail, QueueFacts
  <2>2. GoesOn(p, s, n, size) /\ Owed(p, s, n, size)
    BY <1>4 DEF OnePushOf, OnePush
  <2>3. downlink[p] \in Seq(PushFrame)
    BY <1>1 DEF SaveWires
  <2>4. CASE ~Of(h, s)
    <3>1. SameFor(t, To(relays', p), s)
      BY <2>1, <2>4, SameTail
    <3>2. SameFor(downlink[p], downlink'[p], s)
      <4>1. CASE p \in r.to \cap linked
        <5>1. ~Of(r.frame, s)
          BY <2>1, <2>4, <4>1 DEF Heard
        <5> QED
          BY <1>2, <1>3, <2>3, <4>1, <5>1, SameMore
      <4>2. CASE p \notin r.to \cap linked
        BY <1>3, <4>2, SameSelf
      <4> QED
        BY <4>1, <4>2
    <3>3. PlayerCalm(p, s)
      BY <1>3, <3>1, <3>2 DEF PlayerCalm, saveHistory
    <3> QED
      BY <1>1, <1>5, <2>2, <3>3, GoesOnCalm, OwedCalm
  <2>5. CASE Of(h, s)
    <3>1. p \in r.to /\ h = r.frame /\ Of(r.frame, s)
      BY <2>1, <2>5, NothingCarried DEF Heard
    <3>2. p \in linked => downlink'[p] = Append(downlink[p], h)
      BY <1>3, <3>1
    <3>3. p \notin linked => downlink'[p] = downlink[p]
      BY <1>3
    <3>4. Owed(p, s, n, size)'
      BY <1>1, <1>3, <2>2, <2>5, <3>2, RelayedOwed DEF saveHistory
    <3>5. /\ AllParts(uplink[p], s, n, size) /\ AllParts(downlink[p], s, n, size)
          /\ AllParts(t, s, n, size)
          /\ Reaches(p, s) /\ transfer[p][s] # Nil => Fits(transfer[p][s], n, size)
      BY <2>2 DEF GoesOn
    <3> HIDE DEF t
    <3>6. AllParts(Tail(t), s, n, size) /\ PartOf(h, n, size)
      BY <2>1, <2>5, <3>5, PartsTail
    <3>7. AllParts(downlink'[p], s, n, size)
      BY <1>2, <2>3, <3>1, <3>2, <3>3, <3>5, <3>6, PartsMore
    <3>8. Reaches(p, s)
      <4>1. Carries(t, s)
        BY <2>1, <2>5, CarriesTail
      <4> QED
        BY <4>1 DEF Reaches, t
    <3>9. GoesOn(p, s, n, size)'
      BY <1>3, <2>1, <3>5, <3>6, <3>7, <3>8 DEF GoesOn
    <3> QED
      BY <3>4, <3>9
  <2> QED
    BY <2>4, <2>5
<1> QED
  BY <1>4, <1>5, <1>6, <1>7 DEF SlotInv, OnePushOf, OnePush

\* A client takes the next chunk of the file it is at, and no other.
LEMMA FitNew ==
  ASSUME NEW n \in Nat, NEW size \in Nat, NEW f \in PushFrame, PartOf(f, n, size), NEW b,
         b.total = f.total, b.size = f.size, b.next = 1, b.buffer = <<>>
  PROVE  Fits(b, n, size)
<1>1. f.size = size /\ f.total = Pieces(size) /\ f.seq \in 1..Pieces(size) /\ Pieces(size) \in Nat
  BY PiecesFacts DEF PartOf
<1>2. Upto(size, 0) = 0 /\ File(n, 0) = <<>>
  BY <1>1, UptoFacts, FileFacts
<1>3. b.next \in 1..Pieces(size) /\ b.next - 1 = 0
  BY <1>1
<1> QED
  BY <1>1, <1>2, <1>3 DEF Fits, FirstPart

LEMMA FitTaken ==
  ASSUME NEW n \in Nat, NEW size \in Nat, NEW f \in PushFrame, PartOf(f, n, size), NEW b \in Partial,
         Fits(b, n, size), NEW t, t = Taken(b, f)
  PROVE  /\ t.total = Pieces(size) /\ t.size = size
         /\ f.seq # b.next => t = b
         /\ f.seq = b.next => t.next = b.next + 1
         /\ t.next <= t.total => Fits(t, n, size)
         /\ t.next > t.total => t.buffer = File(n, size) /\ Len(t.buffer) = size
<1>1. /\ b.size = size /\ b.total = Pieces(size) /\ b.next \in 1..Pieces(size) /\ b.next \in Nat
      /\ b.buffer = FirstPart(n, size, b.next - 1) /\ Pieces(size) \in Nat
  BY PiecesFacts, PartialFacts DEF Fits
<1>2. f.seq \in 1..Pieces(size) /\ f.chunk = Piece(File(n, size), f.seq)
  BY DEF PartOf
<1>3. CASE f.seq # b.next
  <2>1. t = b
    BY <1>3 DEF Taken, InTurn
  <2>2. b.next <= b.total
    BY <1>1
  <2> QED
    BY <1>1, <1>3, <2>1, <2>2
<1>4. CASE f.seq = b.next
  <2> DEFINE k == b.next
             u == Upto(size, k - 1)
             v == Upto(size, k)
  <2>1. k - 1 \in Nat /\ k - 1 < Pieces(size) /\ k <= Pieces(size)
    BY <1>1
  <2>2. u \in Nat /\ u < size /\ v \in Nat /\ v <= size /\ (k = Pieces(size) => v = size)
    BY <1>1, <2>1, UptoFacts
  <2>3. Len(b.buffer) = u
    BY <1>1, <2>2, FileFacts DEF FirstPart
  <2>4. File(n, size) \in Seq(Byte) /\ Len(File(n, size)) = size
    BY FileFacts
  <2>5. Len(f.chunk) = v - u
    BY <1>1, <1>2, <1>4, <2>4, PieceTyped
  <2>6. InTurn(b, f)
    <3> HIDE DEF k, u, v
    <3>1. size > u /\ v - u <= size - u
      BY <2>2
    <3>2. b.size > Len(b.buffer) /\ Len(f.chunk) <= b.size - Len(b.buffer)
      BY <1>1, <2>3, <2>5, <3>1, Zenon
    <3> QED
      BY <1>4, <3>2 DEF InTurn
  <2>7. t = Extended(b, f)
    BY <2>6 DEF Taken
  <2>8. /\ t.size = size /\ t.total = Pieces(size) /\ t.next = k + 1
        /\ t.buffer = b.buffer \o f.chunk
    <3>1. /\ t.size = b.size /\ t.total = b.total /\ t.next = b.next + 1
          /\ t.buffer = b.buffer \o f.chunk
      BY <2>6, <2>7, ExtendedFacts
    <3> QED
      BY <1>1, <3>1
  <2>9. t.buffer = FirstPart(n, size, k)
    <3>1. k \in 1..Pieces(size)
      BY <1>1
    <3>2. FirstPart(n, size, k - 1) \o Piece(File(n, size), k) = FirstPart(n, size, k)
      BY <3>1, Joined
    <3>3. f.chunk = Piece(File(n, size), k) /\ b.buffer = FirstPart(n, size, k - 1)
      BY <1>1, <1>2, <1>4, Zenon
    <3> QED
      BY <2>8, <3>2, <3>3, Zenon
  <2>10. ASSUME t.next <= t.total PROVE Fits(t, n, size)
    <3>1. t.next \in 1..Pieces(size) /\ t.next - 1 = k
      BY <1>1, <2>8, <2>10
    <3> QED
      BY <2>8, <2>9, <3>1 DEF Fits
  <2>11. ASSUME t.next > t.total PROVE t.buffer = File(n, size) /\ Len(t.buffer) = size
    <3>1. k = Pieces(size)
      BY <1>1, <2>8, <2>11
    <3>2. v = size
      BY <2>2, <3>1
    <3>3. t.buffer = File(n, size)
      BY <2>9, <3>2 DEF FirstPart
    <3> QED
      BY <2>4, <3>3
  <2> QED
    BY <1>4, <2>8, <2>10, <2>11
<1> QED
  BY <1>3, <1>4

LEMMA FedOwed ==
  ASSUME SavePlain, SaveWires, NEW p \in Player, NEW old \in SUBSET SaveSlot, Feed(p, old),
         NEW f, f = downlink[p][1], NEW b, b = Begun(p, f), NEW t, t = Taken(b, f), NEW s, s = f.slot,
         NEW n \in Nat, NEW size \in Nat, size > 0, GoesOn(p, s, n, size), Owed(p, s, n, size), Fits(b, n, size),
         PartOf(f, n, size)
  PROVE  Owed(p, s, n, size)'
<1>0. Fed(p, old, f, b, t)
  BY Feeding
<1> SUFFICES ASSUME due[p][s] # 0
             PROVE  /\ p \in linked' /\ ~Carries(uplink'[p], s)
                    /\ IF Reaches(p, s)'
                         THEN due'[p][s] = n /\ \E x, y \in 0..Pieces(size) : Coming(p, s, size, x, y)'
                         ELSE saved'[p][s] # <<>> /\ saved'[p][s][1][1] = due'[p][s]
  <2>1. due' = due
    <3>1. UNCHANGED <<linked, uplink, relays, cached, pushes, trips, muddled, same, due>>
      BY <1>0, Zenon DEF Fed
    <3> QED
      BY <3>1
  <2> QED
    BY <2>1 DEF Owed
<1> DEFINE d == downlink[p]
<1>1. /\ d \in Seq(PushFrame) /\ d # <<>> /\ f \in PushFrame /\ s \in SaveSlot /\ relays = <<>> /\ b \in Partial
      /\ downlink'[p] = Tail(d) /\ UNCHANGED <<linked, uplink, relays, due>>
      /\ transfer'[p][s] = IF t.next > t.total THEN Nil ELSE t
      /\ saved'[p][s] = IF t.next > t.total /\ Len(t.buffer) = t.size THEN t.buffer ELSE saved[p][s]
  BY <1>0, Zenon DEF Fed
<1>2. Of(f, s) /\ Of(d[1], s) /\ d[1] = f
  BY <1>1, FrameFacts DEF Of
<1>3. Carries(d, s)
  BY <1>1, <1>2, CarriesTail
<1>4. Reaches(p, s)
  BY <1>3 DEF Reaches
<1>5. p \in linked /\ ~Carries(uplink[p], s) /\ due[p][s] = n
  BY <1>4 DEF Owed
<1>6. PICK x \in 0..Pieces(size), y \in 0..Pieces(size) : Coming(p, s, size, x, y)
  BY <1>4 DEF Owed
<1>7. Pieces(size) \in Nat /\ x \in Nat /\ y \in Nat /\ x + 1 \in Nat /\ x <= Pieces(size) /\ y <= Pieces(size)
  BY PiecesFacts
<1>8. NextOf(transfer[p][s]) = b.next /\ b.next \in Nat
  <2>1. b.next \in Nat
    BY <1>1, PartialFacts
  <2> QED
    BY <1>1, <2>1, BegunFacts DEF NextOf
<1>9. /\ b.next <= x + 1 /\ x <= y /\ Line(d, s, b.next, x) /\ Line(To(relays, p), s, x + 1, y)
      /\ \A q \in Player : Carries(uplink[q], s) => y = Pieces(size) - Len(uplink[q])
      /\ (\A q \in Player : ~Carries(uplink[q], s)) => y = Pieces(size)
  BY <1>6, <1>8 DEF Coming
<1> HIDE DEF d
<1>10. f.seq = b.next /\ b.next <= x /\ Line(Tail(d), s, b.next + 1, x)
  BY <1>1, <1>2, <1>7, <1>8, <1>9, LineTail
<1>11. /\ t.total = Pieces(size) /\ t.size = size /\ t.next = b.next + 1
       /\ t.next > t.total => t.buffer = File(n, size) /\ Len(t.buffer) = size
       /\ t.next <= t.total => t \in Partial
  BY <1>1, <1>10, FitTaken, TakenFacts
<1>12. CASE t.next > t.total
  <2>1. b.next = Pieces(size) /\ x = Pieces(size) /\ y = Pieces(size)
    BY <1>7, <1>8, <1>9, <1>10, <1>11, <1>12
  <2>2. ~Carries(Tail(d), s) /\ ~Carries(To(relays, p), s)
    <3>1. b.next + 1 \in Nat /\ x < b.next + 1 /\ y < x + 1
      BY <1>7, <1>8, <2>1
    <3> QED
      BY <1>7, <1>9, <1>10, <3>1, LineEmpty
  <2>3. ASSUME NEW q \in Player, Carries(uplink[q], s) PROVE FALSE
    <3>1. uplink[q] \in Seq(SentFrame)
      BY DEF SaveWires
    <3>2. uplink[q] # <<>>
      BY <2>3, NothingCarried
    <3>3. PICK l \in Nat : l = Len(uplink[q]) /\ l > 0
      BY <3>1, <3>2, QueueFacts
    <3>4. y = Pieces(size) - l
      BY <1>9, <2>3, <3>3, Zenon
    <3> QED
      BY <1>7, <2>1, <3>3, <3>4
  <2>4. ~Reaches(p, s)'
    BY <1>1, <2>2, <2>3 DEF Reaches
  <2>5. saved'[p][s] = File(n, size)
    BY <1>1, <1>11, <1>12
  <2>6. File(n, size) # <<>> /\ File(n, size)[1][1] = n
    BY FileFacts
  <2> QED
    BY <1>1, <1>5, <2>4, <2>5, <2>6
<1>13. CASE t.next <= t.total
  <2>1. t \in Partial /\ transfer'[p][s] = t /\ NextOf(t) = b.next + 1
    <3>1. t \in Partial /\ t # Nil
      BY <1>11, <1>13, PartialFacts
    <3>2. ~(t.next > t.total)
      BY <1>7, <1>8, <1>11, <1>13
    <3> QED
      BY <1>1, <1>11, <3>1, <3>2 DEF NextOf
  <2>2. Coming(p, s, size, x, y)'
    <3>1. b.next + 1 <= x + 1
      BY <1>7, <1>8, <1>10
    <3> QED
      BY <1>1, <1>9, <1>10, <2>1, <3>1 DEF Coming
  <2>3. CASE Reaches(p, s)'
    BY <1>1, <1>5, <2>2, <2>3
  <2>4. CASE ~Reaches(p, s)'
    <3>1. ~Carries(Tail(d), s) /\ ~Carries(To(relays, p), s) /\ \A q \in Player : ~Carries(uplink[q], s)
      BY <1>1, <2>4 DEF Reaches
    <3>2. x < b.next + 1 /\ y < x + 1
      <4>1. b.next + 1 \in Nat
        BY <1>8
      <4> QED
        BY <1>7, <1>9, <1>10, <3>1, <4>1, LineEmpty
    <3>3. y = Pieces(size)
      BY <1>9, <3>1
    <3>4. b.next = Pieces(size)
      BY <1>7, <1>8, <1>9, <1>10, <3>2, <3>3
    <3> QED
      BY <1>7, <1>8, <1>11, <1>13, <3>4
  <2> QED
    BY <2>3, <2>4
<1>14. t.next > t.total \/ t.next <= t.total
  BY <1>7, <1>8, <1>11
<1> QED
  BY <1>12, <1>13, <1>14, Zenon

LEMMA FeedKeeps ==
  ASSUME SaveBase, NEW s \in SaveSlot, SlotInv(s), NEW p \in Player, NEW old \in SUBSET SaveSlot, Feed(p, old),
         downlink[p][1].slot = s
  PROVE  SlotInv(s)'
<1>1. PICK f, b, t : f = downlink[p][1] /\ b = Begun(p, f) /\ t = Taken(b, f)
  OBVIOUS
<1>2. SavePlain /\ SaveWires /\ s = f.slot
  BY <1>1 DEF SaveBase
<1>3. /\ downlink[p] \in Seq(PushFrame) /\ downlink[p] # <<>> /\ f \in PushFrame /\ b \in Partial
      /\ downlink'[p] = Tail(downlink[p])
      /\ \A q \in Player : q # p => downlink'[q] = downlink[q] /\ transfer'[q] = transfer[q] /\ saved'[q] = saved[q]
      /\ transfer'[p][s] = IF t.next > t.total THEN Nil ELSE t
      /\ saved'[p][s] = IF t.next > t.total /\ Len(t.buffer) = t.size THEN t.buffer ELSE saved[p][s]
      /\ UNCHANGED <<linked, uplink, relays, cached, pushes, trips, muddled, same, due>>
  <2>1. /\ downlink[p] \in Seq(PushFrame) /\ downlink[p] # <<>> /\ f \in PushFrame /\ b \in Partial
        /\ downlink'[p] = Tail(downlink[p])
        /\ \A q \in Player : q # p => downlink'[q] = downlink[q] /\ transfer'[q] = transfer[q] /\ saved'[q] = saved[q]
        /\ transfer'[p][f.slot] = IF t.next > t.total THEN Nil ELSE t
        /\ saved'[p][f.slot] = IF t.next > t.total /\ Len(t.buffer) = t.size THEN t.buffer ELSE saved[p][f.slot]
        /\ UNCHANGED <<linked, uplink, relays, cached, pushes, trips, muddled, same, due>>
    <3>1. Fed(p, old, f, b, t)
      BY <1>1, <1>2, Feeding
    <3> QED
      BY <3>1 DEF Fed
  <2> QED
    BY <1>2, <2>1, Zenon
<1>4. PICK n \in Nat, size \in Nat \ {0} : OnePushOf(s, n, size)
  BY DEF SlotInv
<1>5. size \in Nat /\ size > 0 /\ \A q \in Player : GoesOn(q, s, n, size) /\ Owed(q, s, n, size)
  BY <1>4 DEF OnePushOf, OnePush
<1>6. OnePusher(s, n, size)' /\ CopyOf(s, n, size)' /\ UpCalm(s)
  BY <1>3, <1>4, ServerSame DEF OnePushOf
<1>7. \A q \in Player : q # p => PlayerCalm(q, s)
  BY <1>3, SameSelf DEF PlayerCalm
<1>8. \A q \in Player : q # p => GoesOn(q, s, n, size)' /\ Owed(q, s, n, size)'
  BY <1>2, <1>5, <1>6, <1>7, GoesOnCalm, OwedCalm
<1>9. Of(f, s) /\ downlink[p][1] = f
  BY <1>1, <1>2, <1>3, FrameFacts DEF Of
<1>10. /\ AllParts(uplink[p], s, n, size) /\ AllParts(downlink[p], s, n, size)
       /\ AllParts(To(relays, p), s, n, size)
       /\ Reaches(p, s) /\ transfer[p][s] # Nil => Fits(transfer[p][s], n, size)
  BY <1>5 DEF GoesOn
<1>11. PartOf(f, n, size) /\ AllParts(Tail(downlink[p]), s, n, size)
  BY <1>3, <1>9, <1>10, PartsTail
<1>12. Reaches(p, s)
  <2>1. Carries(downlink[p], s)
    BY <1>3, <1>9, CarriesTail
  <2> QED
    BY <2>1 DEF Reaches
<1>13. Fits(b, n, size)
  <2>1. CASE transfer[p][s] # Nil
    BY <1>1, <1>2, <1>3, <1>10, <1>12, <2>1, BegunFacts
  <2>2. CASE transfer[p][s] = Nil
    BY <1>1, <1>2, <1>3, <1>5, <1>11, <2>2, BegunFacts, FitNew
  <2> QED
    BY <2>1, <2>2
<1>14. Owed(p, s, n, size)'
  BY <1>1, <1>2, <1>5, <1>11, <1>13, FedOwed
<1>15. /\ t.size = size
       /\ t.next <= t.total => Fits(t, n, size)
       /\ t.next > t.total => t.buffer = File(n, size) /\ Len(t.buffer) = size
       /\ t.next \in Nat /\ t.total \in Nat
  BY <1>1, <1>3, <1>5, <1>11, <1>13, FitTaken, TakenFacts
<1>16. transfer'[p][s] # Nil => Fits(transfer'[p][s], n, size)
  BY <1>3, <1>15
<1>17. GoesOn(p, s, n, size)'
  BY <1>3, <1>10, <1>11, <1>16 DEF GoesOn
<1>18. saved'[p][s] # <<>> => HasFile(saved'[p][s])
  <2>1. CASE t.next > t.total
    <3>1. t.buffer = File(n, size) /\ Len(t.buffer) = t.size
      BY <1>15, <2>1
    <3>2. saved'[p][s] = File(n, size)
      BY <1>3, <2>1, <3>1
    <3> QED
      BY <1>4, <3>2 DEF HasFile
  <2>2. CASE ~(t.next > t.total)
    BY <1>3, <2>2 DEF SlotInv, ClientsHave
  <2> QED
    BY <2>1, <2>2
<1>19. transfer'[p][s] # Nil => Fitting(transfer'[p][s])
  BY <1>4, <1>16 DEF Fitting
<1>20. ClientsHave(s)'
  BY <1>3, <1>18, <1>19 DEF SlotInv, ClientsHave
<1>21. OnePushOf(s, n, size)'
  BY <1>6, <1>8, <1>14, <1>17 DEF OnePushOf, OnePush
<1> QED
  BY <1>4, <1>20, <1>21 DEF SlotInv

-----------------------------------------------------------------------------
\* A push begins: nothing of the slot is left anywhere.
LEMMA SentFile ==
  ASSUME NEW s \in SaveSlot, NEW n \in Nat, NEW size \in Nat, size > 0, NEW cs, cs = Chunks(s, File(n, size))
  PROVE  /\ cs \in Seq(PushFrame) /\ Len(cs) = Pieces(size) /\ cs # <<>>
         /\ Carries(cs, s) /\ cs[1].seq = 1 /\ AllParts(cs, s, n, size) /\ Pushes(cs, s, size)
<1> DEFINE d == File(n, size)
<1>1. d \in Seq(Byte) /\ Len(d) = size /\ Pieces(size) \in Nat /\ Pieces(size) > 0
  BY FileFacts, PiecesFacts
<1>2. /\ cs \in Seq(PushFrame) /\ Len(cs) = Pieces(size)
      /\ \A i \in 1..Pieces(size) :
           /\ cs[i].type = "PUSH" /\ cs[i].slot = s /\ cs[i].seq = i
           /\ cs[i].total = Pieces(size) /\ cs[i].size = size
           /\ cs[i].chunk = Piece(d, i)
  <2> HIDE DEF d
  <2>1. cs = Chunks(s, d)
    BY DEF d
  <2> QED
    BY <1>1, <2>1, ChunksFacts
<1>3. DOMAIN cs = 1..Pieces(size) /\ 1 \in 1..Pieces(size)
  BY <1>1, <1>2, QueueFacts
<1>4. \A i \in DOMAIN cs : Of(cs[i], s) /\ PartOf(cs[i], n, size)
  BY <1>2, <1>3 DEF Of, PartOf
<1>5. Carries(cs, s) /\ AllParts(cs, s, n, size)
  BY <1>3, <1>4 DEF Carries, AllParts
<1>6. cs[1].seq = 1 /\ cs # <<>>
  BY <1>1, <1>2, <1>3
<1>7. Pushes(cs, s, size)
  <2>1. ASSUME NEW i \in DOMAIN cs PROVE cs[i].seq = Pieces(size) - Len(cs) + i
    <3>1. cs[i].seq = i /\ i \in 1..Pieces(size)
      BY <1>2, <1>3
    <3> QED
      BY <1>1, <1>2, <3>1
  <2> QED
    BY <1>4, <2>1 DEF Pushes
<1> QED
  BY <1>2, <1>5, <1>6, <1>7

\* A transfer that no chunk was taken of fits every file of its size.
LEMMA FreshFits ==
  ASSUME SavePlain, NEW s \in SaveSlot, ClientsHave(s), NEW p \in Player, NEW size \in Nat,
         ~Leftover(p, s, size), NEW n \in Nat, transfer[p][s] # Nil
  PROVE  Fits(transfer[p][s], n, size) /\ transfer[p][s].next = 1
<1> DEFINE t == transfer[p][s]
<1>1. t \in Partial /\ t.size = size /\ ~(t.next > 1)
  BY DEF SavePlain, Leftover
<1>2. t.next = 1 /\ Pieces(size) \in Nat
  BY <1>1, PartialFacts, PiecesFacts
<1>3. PICK m \in Nat, z \in Nat \ {0} : Fits(t, m, z)
  BY DEF ClientsHave, Fitting
<1> HIDE DEF t
<1>4. /\ z = size /\ t.total = Pieces(size) /\ t.next \in 1..Pieces(size)
      /\ t.buffer = FirstPart(m, size, 0)
  BY <1>1, <1>2, <1>3 DEF Fits
<1>5. FirstPart(m, size, 0) = FirstPart(n, size, 0)
  <2>1. Upto(size, 0) = 0
    BY <1>2, UptoFacts
  <2>2. File(m, 0) = <<>> /\ File(n, 0) = <<>>
    BY FileFacts
  <2> QED
    BY <2>1, <2>2 DEF FirstPart
<1> QED
  BY <1>1, <1>2, <1>4, <1>5 DEF Fits, t

LEMMA PushKeeps ==
  ASSUME SaveBase, NEW s \in SaveSlot, SlotInv(s), NEW p \in Player, NEW size \in 1..MaxBytes,
         Push(p, s, size), s \notin spoilt'
  PROVE  SlotInv(s)'
<1>1. SavePlain /\ SaveWires /\ size \in Nat /\ size > 0 /\ Pieces(size) \in Nat
  <2>1. size \in Nat /\ size > 0
    BY SaveConstant
  <2> QED
    BY <2>1, PiecesFacts DEF SaveBase
<1>2. PICK k \in Nat : k = Len(pushes) + 1
  BY <1>1 DEF SavePlain
<1>3. PICK cs : cs = Chunks(s, File(k, size))
  OBVIOUS
<1>4. /\ pushes' = Append(pushes, s)
      /\ uplink' = [uplink EXCEPT ![p] = cs]
      /\ spoilt' = IF s \in Travelling \/ \E q \in Player : Leftover(q, s, size)
                     THEN spoilt \cup {s} ELSE spoilt
      /\ muddled' = IF Unread \subseteq {s} THEN muddled ELSE muddled \cup Unread \cup {s}
      /\ due' = [q \in Player |-> [due[q] EXCEPT ![s] = IF q \in linked \ {p} THEN k ELSE 0]]
      /\ same' = IF cached.slot = s /\ cached.size = size THEN same \cup {s} ELSE same \ {s}
      /\ UNCHANGED <<linked, relays, downlink, cached, transfer, saved, trips>>
  BY <1>2, <1>3 DEF Push
<1>5. /\ cs \in Seq(PushFrame) /\ Len(cs) = Pieces(size)
      /\ Carries(cs, s) /\ cs[1].seq = 1 /\ AllParts(cs, s, k, size) /\ Pushes(cs, s, size)
  BY <1>1, <1>3, SentFile
<1>6. uplink'[p] = cs /\ \A q \in Player : q # p => uplink'[q] = uplink[q]
  BY <1>1, <1>4 DEF SaveWires
<1>7. s \notin Travelling /\ \A q \in Player : ~Leftover(q, s, size)
  BY <1>4
<1>8. \A q \in Player : ~Reaches(q, s)
  BY <1>1, <1>7, EverywhereFacts
<1>9. \A q \in Player : ~Carries(uplink[q], s) /\ ~Carries(downlink[q], s) /\ ~Carries(To(relays, q), s)
  BY <1>8 DEF Reaches
<1>10. PICK n0 \in Nat, size0 \in Nat \ {0} : CopyOf(s, n0, size0)
  BY DEF SlotInv, OnePushOf
<1>11. ClientsHave(s)'
  BY <1>4 DEF SlotInv, ClientsHave
<1>12. Newest(s, k)'
  BY <1>1, <1>2, <1>4, PushedMore DEF SavePlain
<1>13. \A q \in Player : transfer[q][s] # Nil => Fits(transfer[q][s], k, size) /\ transfer[q][s].next = 1
  BY <1>1, <1>7, FreshFits DEF SlotInv
<1>14. ASSUME NEW q \in Player PROVE GoesOn(q, s, k, size)'
  <2>1. AllParts(downlink'[q], s, k, size) /\ AllParts(To(relays', q), s, k, size)
    BY <1>4, <1>9, PartsNone
  <2>2. AllParts(uplink'[q], s, k, size)
    BY <1>5, <1>6, <1>9, PartsNone
  <2> QED
    BY <1>4, <1>13, <2>1, <2>2 DEF GoesOn
<1>15. OnePusher(s, k, size)'
  <2> SUFFICES ASSUME NEW q \in Player, Carries(uplink'[q], s)
               PROVE  /\ Newest(s, k)' /\ Pushes(uplink'[q], s, size)
                      /\ \A r \in Player \ {q} :
                           /\ ~Carries(uplink'[r], s)
                           /\ s \notin muddled' => \A t \in SaveSlot : ~Carries(uplink'[r], t)
    BY DEF OnePusher
  <2>1. q = p
    BY <1>6, <1>9
  <2>2. \A r \in Player \ {q} : ~Carries(uplink'[r], s)
    BY <1>6, <1>9, <2>1
  <2>3. ASSUME s \notin muddled', NEW r \in Player \ {q}, NEW t \in SaveSlot PROVE ~Carries(uplink'[r], t)
    <3>1. Unread \subseteq {s}
      BY <1>4, <2>3
    <3> QED
      BY <1>1, <1>6, <1>9, <2>1, <3>1, EverywhereFacts
  <2> QED
    BY <1>5, <1>6, <1>12, <2>1, <2>2, <2>3
<1>16. CopyOf(s, k, size)'
  <2> SUFFICES ASSUME s \notin muddled'
               PROVE  /\ \A q \in Player : Carries(uplink'[q], s) => Follows(uplink[q], s, size)'
                      /\ cached'.slot = s =>
                           IF cached'.open THEN \E q \in Player : Growing(uplink[q], s, k, size)'
                           ELSE \E m \in Nat : Whole(s, m)'
    BY DEF CopyOf
  <2>1. s \notin muddled
    BY <1>4
  <2>2. ASSUME NEW q \in Player, Carries(uplink'[q], s) PROVE Follows(uplink[q], s, size)'
    <3>1. uplink'[q] = cs
      BY <1>6, <1>9, <2>2
    <3>2. s \notin same' => cached.slot # s \/ cached.size # size
      BY <1>4
    <3>3. uplink'[q][1].seq = 1 /\ ~(uplink'[q][1].seq > 1)
      BY <1>5, <3>1
    <3> QED
      BY <1>4, <3>2, <3>3 DEF Follows
  <2>3. ASSUME cached'.slot = s PROVE ~cached'.open /\ \E m \in Nat : Whole(s, m)'
    <3>1. cached' = cached
      BY <1>4
    <3>2. ~cached.open
      BY <1>9, <1>10, <2>1, <2>3, <3>1 DEF CopyOf, Growing
    <3>3. PICK m \in Nat : Whole(s, m)
      BY <1>10, <2>1, <2>3, <3>1, <3>2 DEF CopyOf
    <3>4. Whole(s, m)'
      BY <1>5, <1>6, <3>1, <3>3 DEF Whole
    <3> QED
      BY <3>1, <3>2, <3>4
  <2> QED
    BY <2>2, <2>3
<1>17. ASSUME NEW q \in Player PROVE Owed(q, s, k, size)'
  <2> SUFFICES ASSUME due'[q][s] # 0
               PROVE  /\ q \in linked' /\ ~Carries(uplink'[q], s)
                      /\ IF Reaches(q, s)'
                           THEN due'[q][s] = k /\ \E a, b \in 0..Pieces(size) : Coming(q, s, size, a, b)'
                           ELSE saved'[q][s] # <<>> /\ saved'[q][s][1][1] = due'[q][s]
    BY DEF Owed
  <2>1. due'[q][s] = IF q \in linked \ {p} THEN k ELSE 0
    <3> DEFINE v == IF q \in linked \ {p} THEN k ELSE 0
    <3>1. due'[q] = [due[q] EXCEPT ![s] = v]
      BY <1>4
    <3> HIDE DEF v
    <3>2. due[q] \in [SaveSlot -> 0..MaxPush]
      BY <1>1 DEF SavePlain
    <3>3. due'[q][s] = v
      BY <3>1, <3>2
    <3> QED
      BY <3>3 DEF v
  <2>2. q \in linked /\ q # p /\ due'[q][s] = k
    BY <2>1
  <2>3. Reaches(q, s)'
    BY <1>5, <1>6 DEF Reaches
  <2>4. NextOf(transfer'[q][s]) = 1
    BY <1>4, <1>13 DEF NextOf
  <2>5. Line(downlink'[q], s, 1, 0) /\ Line(To(relays', q), s, 1, 0)
    BY <1>4, <1>9, LineNone
  <2>6. \A r \in Player : Carries(uplink'[r], s) => 0 = Pieces(size) - Len(uplink'[r])
    <3>1. ASSUME NEW r \in Player, Carries(uplink'[r], s) PROVE 0 = Pieces(size) - Len(uplink'[r])
      <4>1. uplink'[r] = cs
        BY <1>6, <1>9, <3>1
      <4> QED
        BY <1>1, <1>5, <4>1
    <3> QED
      BY <3>1
  <2>7. ~(\A r \in Player : ~Carries(uplink'[r], s))
    BY <1>5, <1>6
  <2>8. Coming(q, s, size, 0, 0)'
    BY <2>4, <2>5, <2>6, <2>7 DEF Coming
  <2>9. 0 \in 0..Pieces(size)
    BY <1>1
  <2> QED
    BY <1>4, <1>6, <1>9, <2>2, <2>3, <2>8, <2>9
<1> QED
  <2>1. OnePushOf(s, k, size)'
    BY <1>14, <1>15, <1>16, <1>17 DEF OnePushOf, OnePush
  <2>2. size \in Nat \ {0}
    BY <1>1
  <2> QED
    BY <1>11, <2>1, <2>2 DEF SlotInv

\* The whole copy is replayed: the newcomer gets the file from its first chunk.
LEMMA ReplayKeeps ==
  ASSUME SaveBase, NEW s \in SaveSlot, SlotInv(s), NEW p \in Player, Replay(p), cached.slot = s, s \notin spoilt'
  PROVE  SlotInv(s)'
<1>1. SavePlain /\ SaveWires /\ Fetch(p, "REQUEST") /\ cached # Nil /\ ~cached.open /\ p \in linked
  BY DEF SaveBase, Replay, Complete
<1>2. cached.data \in Seq(Byte) /\ cached.size \in Nat
  BY <1>1, CopyFacts DEF SavePlain
<1>3. /\ downlink' = [downlink EXCEPT ![p] = downlink[p] \o Chunks(s, cached.data)]
      /\ spoilt' = IF s \in Travelling \cup muddled \/ Leftover(p, s, cached.size)
                     THEN spoilt \cup {s} ELSE spoilt
      /\ due' = [due EXCEPT ![p][s] = IF s \in same THEN 0 ELSE LastPush(s)]
      /\ UNCHANGED <<linked, relays, cached, transfer, saved, pushes, trips, muddled, same>>
  BY DEF Replay
<1>4. s \notin Travelling /\ s \notin muddled /\ ~Leftover(p, s, cached.size)
  BY <1>3
<1>5. \A q \in Player : ~Reaches(q, s)
  BY <1>1, <1>4, EverywhereFacts
<1>6. \A q \in Player : ~Carries(uplink[q], s) /\ ~Carries(downlink[q], s) /\ ~Carries(To(relays, q), s)
  BY <1>5 DEF Reaches
<1>7. PICK n0 \in Nat, size0 \in Nat \ {0} : OnePushOf(s, n0, size0)
  BY DEF SlotInv
<1>8. PICK m \in Nat : Whole(s, m)
  BY <1>1, <1>4, <1>7 DEF OnePushOf, CopyOf
<1>9. PICK size \in Nat \ {0} : size = cached.size /\ size > 0 /\ cached.data = File(m, size)
  BY <1>2, <1>8 DEF Whole
<1>10. PICK cs : cs = Chunks(s, File(m, size))
  OBVIOUS
<1>11. /\ cs \in Seq(PushFrame) /\ Pieces(size) \in Nat
       /\ Carries(cs, s) /\ AllParts(cs, s, m, size)
  BY <1>9, <1>10, SentFile, PiecesFacts
<1>12. downlink'[p] = downlink[p] \o cs /\ downlink[p] \in Seq(PushFrame)
       /\ \A q \in Player : q # p => downlink'[q] = downlink[q]
  BY <1>1, <1>3, <1>9, <1>10 DEF SaveWires
<1>13. \A q \in Player : ~Carries(uplink'[q], s)
  BY <1>1, <1>6, Fetched
<1>14. \A x : Newest(s, x)' <=> Newest(s, x)
  BY <1>3, PushedSame
<1>15. ClientsHave(s)'
  BY <1>3 DEF SlotInv, ClientsHave
<1>16. ASSUME NEW q \in Player, q # p PROVE ~Reaches(q, s)'
  BY <1>3, <1>6, <1>12, <1>13, <1>16 DEF Reaches
<1>17. transfer[p][s] # Nil => Fits(transfer[p][s], m, size) /\ transfer[p][s].next = 1
  BY <1>1, <1>4, <1>9, FreshFits DEF SlotInv
<1>18. ASSUME NEW q \in Player PROVE GoesOn(q, s, m, size)'
  <2>1. AllParts(uplink'[q], s, m, size) /\ AllParts(To(relays', q), s, m, size)
    BY <1>3, <1>6, <1>13, PartsNone
  <2>2. CASE q = p
    <3>1. AllParts(downlink[p], s, m, size)
      BY <1>6, PartsNone
    <3>2. AllParts(downlink'[p], s, m, size)
      BY <1>11, <1>12, <3>1, PartsBoth
    <3> QED
      BY <1>3, <1>17, <2>1, <2>2, <3>2 DEF GoesOn
  <2>3. CASE q # p
    <3>1. AllParts(downlink'[q], s, m, size)
      BY <1>6, <1>12, <2>3, PartsNone
    <3> QED
      BY <1>16, <2>1, <2>3, <3>1 DEF GoesOn
  <2> QED
    BY <2>2, <2>3
<1>19. OnePusher(s, m, size)'
  BY <1>13 DEF OnePusher
<1>20. CopyOf(s, m, size)'
  <2>1. Whole(s, m)'
    BY <1>3, <1>6, <1>8, <1>14 DEF Whole
  <2> QED
    BY <1>1, <1>3, <1>13, <2>1 DEF CopyOf
<1>21. ASSUME NEW q \in Player, q # p PROVE Owed(q, s, m, size)'
  <2>1. Owed(q, s, n0, size0)
    BY <1>7 DEF OnePushOf
  <2>2. due'[q][s] = due[q][s]
    BY <1>1, <1>3, <1>21 DEF SavePlain
  <2>3. ~Reaches(q, s) /\ ~Reaches(q, s)'
    BY <1>5, <1>16, <1>21
  <2> QED
    BY <1>3, <1>13, <2>1, <2>2, <2>3 DEF Owed
<1>22. Owed(p, s, m, size)'
  <2> SUFFICES ASSUME due'[p][s] # 0
               PROVE  /\ p \in linked' /\ ~Carries(uplink'[p], s)
                      /\ IF Reaches(p, s)'
                           THEN due'[p][s] = m /\ \E a, b \in 0..Pieces(size) : Coming(p, s, size, a, b)'
                           ELSE saved'[p][s] # <<>> /\ saved'[p][s][1][1] = due'[p][s]
    BY DEF Owed
  <2>1. due'[p][s] = IF s \in same THEN 0 ELSE LastPush(s)
    BY <1>1, <1>3 DEF SavePlain
  <2>2. Newest(s, m)
    BY <1>6, <1>8, <2>1 DEF Whole
  <2>3. due'[p][s] = m
    BY <1>1, <2>1, <2>2, NewestIsLast DEF SavePlain
  <2>4. Reaches(p, s)'
    <3>1. Carries(downlink'[p], s)
      BY <1>11, <1>12, CarriesBoth
    <3> QED
      BY <3>1 DEF Reaches
  <2>5. NextOf(transfer'[p][s]) = 1
    BY <1>3, <1>17 DEF NextOf
  <2>6. Line(downlink'[p], s, 1, Pieces(size))
    <3>1. File(m, size) \in Seq(Byte) /\ Len(File(m, size)) = size
      BY FileFacts
    <3>2. Line(downlink[p] \o Chunks(s, File(m, size)), s, 1, Pieces(Len(File(m, size))))
      BY <1>6, <1>12, <3>1, LineFile
    <3> QED
      BY <1>10, <1>12, <3>1, <3>2
  <2>7. Line(To(relays', p), s, Pieces(size) + 1, Pieces(size))
    <3>1. Pieces(size) + 1 \in Nat /\ Pieces(size) < Pieces(size) + 1
      BY <1>11
    <3> QED
      BY <1>3, <1>6, <1>11, <3>1, LineNone
  <2>8. 1 <= Pieces(size) + 1 /\ Pieces(size) <= Pieces(size) /\ Pieces(size) \in 0..Pieces(size)
    BY <1>11
  <2>9. Coming(p, s, size, Pieces(size), Pieces(size))'
    BY <1>13, <2>5, <2>6, <2>7, <2>8 DEF Coming
  <2> QED
    BY <1>1, <1>3, <1>13, <2>3, <2>4, <2>8, <2>9
<1> QED
  <2>1. OnePushOf(s, m, size)'
    BY <1>18, <1>19, <1>20, <1>21, <1>22 DEF OnePushOf, OnePush
  <2> QED
    BY <1>15, <2>1 DEF SlotInv

-----------------------------------------------------------------------------
\* The server takes the next chunk: its copy grows, and the relay is on its way.
LEMMA PushesTail ==
  ASSUME NEW u \in Seq(SentFrame), u # <<>>, NEW s, NEW size \in Nat, Pushes(u, s, size)
  PROVE  /\ Of(u[1], s) /\ u[1].seq = Pieces(size) - Len(u) + 1
         /\ Pushes(Tail(u), s, size)
         /\ Tail(u) # <<>> =>
              Carries(Tail(u), s) /\ Tail(u)[1].seq = u[1].seq + 1 /\ u[1].seq < Pieces(size)
         /\ Tail(u) = <<>> => u[1].seq = Pieces(size)
<1>1. PICK l \in Nat : l = Len(u) /\ l > 0
  BY Tailed
<1>2. PICK k \in Nat : k = Pieces(size)
  BY PiecesFacts
<1> DEFINE v == Tail(u)
<1>3. v \in Seq(SentFrame) /\ Len(v) = l - 1 /\ DOMAIN v = 1..(l - 1) /\ \A i \in 1..(l - 1) : v[i] = u[i + 1]
  <2>1. /\ v \in Seq(SentFrame) /\ Len(v) = Len(u) - 1 /\ DOMAIN v = 1..(Len(u) - 1)
        /\ \A i \in 1..(Len(u) - 1) : v[i] = u[i + 1]
    BY Tailed
  <2> QED
    BY <1>1, <2>1
<1>4. \A i \in 1..l : Of(u[i], s) /\ u[i].seq = k - l + i
  <2>1. DOMAIN u = 1..Len(u)
    BY QueueFacts
  <2> QED
    BY <1>1, <1>2, <2>1 DEF Pushes
<1> HIDE DEF v
<1>5. Of(u[1], s) /\ u[1].seq = k - l + 1
  BY <1>1, <1>4
<1>6. \A i \in 1..(l - 1) : Of(v[i], s) /\ v[i].seq = k - (l - 1) + i
  <2>1. ASSUME NEW i \in 1..(l - 1) PROVE Of(v[i], s) /\ v[i].seq = k - (l - 1) + i
    <3>1. PICK x \in 1..l : x = i + 1 /\ k - l + x = k - (l - 1) + i
      OBVIOUS
    <3>2. v[i] = u[x]
      BY <1>3, <3>1
    <3>3. Of(u[x], s) /\ u[x].seq = k - l + x
      BY <1>4
    <3> QED
      BY <3>1, <3>2, <3>3, Zenon
  <2> QED
    BY <2>1
<1>7. Pushes(v, s, size)
  BY <1>2, <1>3, <1>6 DEF Pushes
<1>8. ASSUME v # <<>> PROVE Carries(v, s) /\ v[1].seq = u[1].seq + 1 /\ u[1].seq < k
  <2>1. Len(v) # 0
    BY <1>3, <1>8, QueueFacts
  <2>2. 1 \in 1..(l - 1) /\ l > 1
    BY <1>1, <1>3, <2>1
  <2>3. v[1].seq = k - (l - 1) + 1 /\ Of(v[1], s)
    BY <1>6, <2>2
  <2>4. Carries(v, s)
    BY <1>3, <2>2, <2>3 DEF Carries
  <2>5. k - (l - 1) + 1 = (k - l + 1) + 1 /\ k - l + 1 < k
    BY <1>1, <1>2, <2>2
  <2> QED
    BY <1>5, <2>3, <2>4, <2>5
<1>9. ASSUME v = <<>> PROVE u[1].seq = k
  <2>1. l = 1
    <3>1. Len(v) = 0
      BY <1>9
    <3>2. l - 1 = 0
      BY <1>3, <3>1, Zenon
    <3> QED
      BY <1>1, <3>2
  <2> QED
    BY <1>2, <1>5, <2>1
<1> QED
  BY <1>1, <1>2, <1>5, <1>7, <1>8, <1>9 DEF v

\* What the copy holds once chunk f of a file was written to it.
LEMMA GrownCopy ==
  ASSUME cached \in {Nil} \cup Copy, NEW n \in Nat, NEW size \in Nat, NEW f \in PushFrame, PartOf(f, n, size),
         f.seq > 1 => cached.slot = f.slot /\ cached.size = size,
         ~Another(f) => cached.open /\ f.seq > 1 /\ cached.data = FirstPart(n, size, f.seq - 1),
         NEW w, w = Written(f)
  PROVE  /\ w.slot = f.slot /\ w.size = size /\ w.open = (f.seq < Pieces(size))
         /\ w.data = FirstPart(n, size, f.seq)
         /\ f.seq = Pieces(size) => w.data = File(n, size)
<1>1. /\ f.size = size /\ f.total = Pieces(size) /\ f.chunk = Piece(File(n, size), f.seq)
      /\ f.seq \in 1..Pieces(size) /\ Pieces(size) \in Nat
  BY PiecesFacts DEF PartOf
<1>2. FirstPart(n, size, f.seq - 1) \o f.chunk = FirstPart(n, size, f.seq)
  <2>1. FirstPart(n, size, f.seq - 1) \o Piece(File(n, size), f.seq) = FirstPart(n, size, f.seq)
    BY <1>1, Joined
  <2> QED
    BY <1>1, <2>1, Zenon
<1>3. w.slot = f.slot /\ w.size = size
  BY <1>1, WrittenFacts
<1>4. w.open = (f.seq < Pieces(size)) /\ w.data = FirstPart(n, size, f.seq)
  <2>1. CASE Another(f)
    <3>1. w.data = f.chunk /\ w.open = (f.seq < f.total)
      BY <2>1, WrittenFacts
    <3>2. ~(f.seq > 1)
      BY <1>1, <2>1, WrittenFacts
    <3>3. f.seq = 1 /\ f.seq - 1 = 0
      BY <1>1, <3>2
    <3>4. FirstPart(n, size, f.seq - 1) = <<>>
      <4>1. Upto(size, 0) = 0 /\ File(n, 0) = <<>>
        BY <1>1, UptoFacts, FileFacts
      <4> QED
        BY <3>3, <4>1 DEF FirstPart
    <3>5. f.chunk = FirstPart(n, size, f.seq)
      <4>1. f.chunk \in Seq(Byte)
        BY FrameFacts
      <4>2. <<>> \o f.chunk = f.chunk
        BY <4>1
      <4> QED
        BY <1>2, <3>4, <4>2
    <3> QED
      BY <1>1, <3>1, <3>5
  <2>2. CASE ~Another(f)
    <3>1. w.data = cached.data \o f.chunk /\ w.open = (f.seq < f.total)
      BY <2>2, WrittenFacts
    <3> QED
      BY <1>1, <1>2, <2>2, <3>1
  <2> QED
    BY <2>1, <2>2
<1>5. f.seq = Pieces(size) => w.data = File(n, size)
  <2>1. f.seq = Pieces(size) => Upto(size, f.seq) = size
    BY <1>1, UptoFacts
  <2> QED
    BY <1>4, <2>1 DEF FirstPart
<1> QED
  BY <1>3, <1>4, <1>5

LEMMA CacheKeeps ==
  ASSUME SaveBase, NEW s \in SaveSlot, SlotInv(s), NEW p \in Player, CacheAndRelay(p), Of(uplink[p][1], s)
  PROVE  SlotInv(s)'
<1> DEFINE u == uplink[p]
<1>1. SavePlain /\ SaveWires /\ Fetch(p, "PUSH") /\ relays \in Seq(Relay)
  BY DEF SaveBase, SaveWires, CacheAndRelay
<1>2. PICK f \in PushFrame : f = u[1] /\ f = Head(u) /\ f.slot = s /\ f.type = "PUSH"
  <2>1. Head(u) = u[1] /\ u[1] \in SentFrame
    BY <1>1, Fetched
  <2> QED
    BY <2>1, SentFacts DEF Of
<1>3. PICK r \in Relay : r = [from |-> p, to |-> linked \ {p}, frame |-> f]
  BY <1>1, <1>2 DEF Relay, SavePlain
<1>4. /\ cached' = Written(f) /\ relays' = Append(relays, r)
      /\ UNCHANGED <<linked, downlink, transfer, saved, saveHistory>>
  BY <1>2, <1>3 DEF CacheAndRelay
<1>5. /\ u \in Seq(SentFrame) /\ u # <<>> /\ uplink'[p] = Tail(u)
      /\ \A q \in Player : q # p => uplink'[q] = uplink[q]
      /\ \A q \in Player : \A t : Carries(uplink'[q], t) => Carries(uplink[q], t)
  BY <1>1, Fetched
<1>6. PICK n \in Nat, size \in Nat \ {0} : OnePushOf(s, n, size)
  BY DEF SlotInv
<1>7. size \in Nat /\ size > 0 /\ Pieces(size) \in Nat
  BY <1>6, PiecesFacts
<1>8. /\ \A q \in Player : GoesOn(q, s, n, size) /\ Owed(q, s, n, size)
      /\ OnePusher(s, n, size) /\ CopyOf(s, n, size)
  BY <1>6 DEF OnePushOf, OnePush
<1>9. Carries(u, s)
  BY <1>5, CarriesTail
<1>10. \A q \in Player : Reaches(q, s)
  BY <1>9 DEF Reaches
<1>11. /\ Newest(s, n) /\ Pushes(u, s, size)
       /\ \A q \in Player \ {p} :
            /\ ~Carries(uplink[q], s)
            /\ s \notin muddled => \A t \in SaveSlot : ~Carries(uplink[q], t)
  BY <1>8, <1>9 DEF OnePusher
<1>12. \A q \in Player : q # p => ~Carries(uplink'[q], s)
  BY <1>5, <1>11
<1>13. Newest(s, n)'
  BY <1>4, <1>11, PushedSame DEF saveHistory
<1>14. PartOf(f, n, size) /\ AllParts(Tail(u), s, n, size)
  <2>1. AllParts(u, s, n, size)
    BY <1>8 DEF GoesOn
  <2> QED
    BY <1>2, <1>5, <2>1, PartsTail
<1>15. /\ f.seq = Pieces(size) - Len(u) + 1 /\ Pushes(Tail(u), s, size)
       /\ Tail(u) # <<>> =>
            Carries(Tail(u), s) /\ Tail(u)[1].seq = f.seq + 1 /\ f.seq < Pieces(size)
       /\ Tail(u) = <<>> => f.seq = Pieces(size)
  <2> HIDE DEF u
  <2>1. /\ Of(u[1], s) /\ u[1].seq = Pieces(size) - Len(u) + 1
        /\ Pushes(Tail(u), s, size)
        /\ Tail(u) # <<>> =>
             Carries(Tail(u), s) /\ Tail(u)[1].seq = u[1].seq + 1 /\ u[1].seq < Pieces(size)
        /\ Tail(u) = <<>> => u[1].seq = Pieces(size)
    BY <1>5, <1>7, <1>11, PushesTail
  <2> QED
    BY <1>2, <2>1
<1>16. ClientsHave(s)'
  BY <1>4 DEF SlotInv, ClientsHave
<1>17. /\ \A q \in Player : To(relays', q) = Append(To(relays, q), Heard(r, q))
       /\ \A q \in Player : To(relays, q) \in Seq(SentFrame) /\ Heard(r, q) \in SentFrame
       /\ \A q \in Player : Heard(r, q) = IF q \in linked /\ q # p THEN f ELSE Request
  <2>1. ASSUME NEW q \in Player
        PROVE  /\ To(relays', q) = Append(To(relays, q), Heard(r, q))
               /\ To(relays, q) \in Seq(SentFrame) /\ Heard(r, q) \in SentFrame
    BY <1>1, <1>4, ToMore, ToFacts, HeardFacts
  <2>2. r.to = linked \ {p} /\ r.frame = f
    BY <1>3
  <2>3. \A q \in Player : Heard(r, q) = IF q \in linked /\ q # p THEN f ELSE Request
    BY <2>2 DEF Heard
  <2> QED
    BY <2>1, <2>3
<1> HIDE DEF u
<1>18. ASSUME NEW q \in Player PROVE GoesOn(q, s, n, size)'
  <2>1. /\ AllParts(uplink[q], s, n, size) /\ AllParts(downlink[q], s, n, size)
        /\ AllParts(To(relays, q), s, n, size)
        /\ transfer[q][s] # Nil => Fits(transfer[q][s], n, size)
    BY <1>8, <1>10 DEF GoesOn
  <2>2. AllParts(uplink'[q], s, n, size)
    BY <1>5, <1>12, <1>14, PartsNone
  <2>3. AllParts(To(relays', q), s, n, size)
    <3>1. Of(Heard(r, q), s) => PartOf(Heard(r, q), n, size)
      BY <1>14, <1>17, NothingCarried
    <3> QED
      BY <1>17, <2>1, <3>1, PartsMore
  <2> QED
    BY <1>4, <2>1, <2>2, <2>3 DEF GoesOn
<1>19. OnePusher(s, n, size)'
  <2> SUFFICES ASSUME NEW q \in Player, Carries(uplink'[q], s)
               PROVE  /\ Newest(s, n)' /\ Pushes(uplink'[q], s, size)
                      /\ \A x \in Player \ {q} :
                           /\ ~Carries(uplink'[x], s)
                           /\ s \notin muddled' => \A t \in SaveSlot : ~Carries(uplink'[x], t)
    BY DEF OnePusher
  <2>1. q = p
    BY <1>12
  <2>2. \A x \in Player \ {q} : uplink'[x] = uplink[x]
    BY <1>5, <2>1
  <2>3. muddled' = muddled
    BY <1>4 DEF saveHistory
  <2> QED
    BY <1>5, <1>11, <1>13, <1>15, <2>1, <2>2, <2>3
<1>20. CopyOf(s, n, size)'
  <2> SUFFICES ASSUME s \notin muddled'
               PROVE  /\ \A q \in Player : Carries(uplink'[q], s) => Follows(uplink[q], s, size)'
                      /\ cached'.slot = s =>
                           IF cached'.open THEN \E q \in Player : Growing(uplink[q], s, n, size)'
                           ELSE \E m \in Nat : Whole(s, m)'
    BY DEF CopyOf
  <2>1. s \notin muddled /\ same' = same
    BY <1>4 DEF saveHistory
  <2>2. /\ f.seq > 1 => cached.slot = s /\ cached.size = size
        /\ s \notin same => IF f.seq = 1 THEN cached.slot # s \/ cached.size # size ELSE cached.open = TRUE
    <3>1. Follows(u, s, size)
      BY <1>8, <1>9, <2>1 DEF CopyOf, u
    <3> QED
      BY <1>2, <3>1 DEF Follows
  <2>3. cached \in {Nil} \cup Copy /\ f.size = size /\ f.seq \in 1..Pieces(size) /\ f.seq \in Nat
    BY <1>1, <1>14, FrameFacts DEF SavePlain, PartOf
  <2>4. CASE ~Another(f) /\ ~cached.open
    <3>1. cached' = cached /\ cached.slot = s /\ cached.size = size
      <4>1. cached \in {Nil} \cup Copy
        BY <2>3
      <4>2. cached.slot = f.slot /\ cached.total = f.total /\ cached.size = f.size
        BY <2>4 DEF Another
      <4>3. cached # Nil
        BY <1>2, <4>1, <4>2, CopyFacts
      <4>4. Written(f) = cached
        BY <2>4, <4>3, Zenon DEF Written
      <4> QED
        BY <1>2, <1>4, <2>3, <4>2, <4>4
    <3>2. s \in same
      BY <2>2, <2>4, <3>1
    <3>3. PICK m \in Nat : Whole(s, m)
      BY <1>8, <2>1, <2>4, <3>1 DEF CopyOf
    <3>4. Whole(s, m)'
      BY <2>1, <3>1, <3>2, <3>3 DEF Whole
    <3>5. ASSUME NEW q \in Player PROVE Follows(uplink[q], s, size)'
      BY <2>1, <3>1, <3>2 DEF Follows
    <3> QED
      BY <2>4, <3>1, <3>4, <3>5
  <2>5. CASE Another(f) \/ cached.open
    <3>1. ~Another(f) => cached.open /\ f.seq > 1 /\ cached.data = FirstPart(n, size, f.seq - 1)
      <4>1. SUFFICES ASSUME ~Another(f)
                     PROVE  cached.open /\ f.seq > 1 /\ cached.data = FirstPart(n, size, f.seq - 1)
        OBVIOUS
      <4>2. cached.slot = s /\ cached.open
        BY <1>2, <2>3, <2>5, <4>1, WrittenFacts
      <4>3. PICK q \in Player : Growing(uplink[q], s, n, size)
        BY <1>8, <2>1, <4>2 DEF CopyOf
      <4>4. q = p
        BY <1>11, <4>3 DEF Growing
      <4> QED
        BY <1>2, <4>2, <4>3, <4>4 DEF Growing, u
    <3>2. /\ cached'.slot = s /\ cached'.size = size /\ cached'.open = (f.seq < Pieces(size))
          /\ cached'.data = FirstPart(n, size, f.seq)
          /\ f.seq = Pieces(size) => cached'.data = File(n, size)
      BY <1>2, <1>4, <1>7, <1>14, <2>2, <2>3, <3>1, GrownCopy
    <3>3. ASSUME NEW q \in Player, Carries(uplink'[q], s) PROVE Follows(uplink[q], s, size)'
      <4>1. q = p /\ uplink'[q] = Tail(u)
        BY <1>5, <1>12, <3>3
      <4>2. Tail(u) # <<>>
        BY <3>3, <4>1, NothingCarried
      <4>3. uplink'[q][1].seq = f.seq + 1 /\ f.seq < Pieces(size)
        BY <1>15, <4>1, <4>2
      <4>4. f.seq + 1 # 1
        BY <2>3
      <4> QED
        BY <3>2, <4>3, <4>4 DEF Follows
    <3>4. ASSUME cached'.open PROVE \E q \in Player : Growing(uplink[q], s, n, size)'
      <4>1. f.seq < Pieces(size)
        BY <3>2, <3>4
      <4>2. Tail(u) # <<>>
        BY <1>7, <1>15, <2>3, <4>1
      <4>3. Carries(uplink'[p], s) /\ uplink'[p][1].seq = f.seq + 1
        BY <1>5, <1>15, <4>2
      <4>4. f.seq + 1 > 1 /\ (f.seq + 1) - 1 = f.seq
        BY <2>3, FrameFacts
      <4>5. Growing(uplink[p], s, n, size)'
        BY <3>2, <4>3, <4>4 DEF Growing
      <4> QED
        BY <4>5
    <3>5. ASSUME ~cached'.open PROVE \E m \in Nat : Whole(s, m)'
      <4>1. f.seq = Pieces(size)
        <5>1. ~(f.seq < Pieces(size))
          BY <3>2, <3>5
        <5> QED
          BY <1>7, <2>3, <5>1
      <4>2. Whole(s, n)'
        BY <1>7, <1>13, <3>2, <4>1 DEF Whole
      <4> QED
        BY <4>2
    <3> QED
      BY <3>3, <3>4, <3>5
  <2> QED
    BY <2>4, <2>5
<1>21. ASSUME NEW q \in Player PROVE Owed(q, s, n, size)'
  <2> SUFFICES ASSUME due[q][s] # 0
               PROVE  /\ q \in linked' /\ ~Carries(uplink'[q], s)
                      /\ IF Reaches(q, s)'
                           THEN due'[q][s] = n /\ \E a, b \in 0..Pieces(size) : Coming(q, s, size, a, b)'
                           ELSE saved'[q][s] # <<>> /\ saved'[q][s][1][1] = due'[q][s]
    BY <1>4 DEF Owed, saveHistory
  <2>1. /\ q \in linked /\ ~Carries(uplink[q], s) /\ due[q][s] = n
        /\ \E a, b \in 0..Pieces(size) : Coming(q, s, size, a, b)
    BY <1>8, <1>10 DEF Owed
  <2>2. PICK a \in 0..Pieces(size), b \in 0..Pieces(size) : Coming(q, s, size, a, b)
    BY <2>1
  <2>3. /\ NextOf(transfer[q][s]) <= a + 1 /\ a <= b
        /\ Line(downlink[q], s, NextOf(transfer[q][s]), a)
        /\ Line(To(relays, q), s, a + 1, b)
        /\ b = Pieces(size) - Len(u)
    BY <1>9, <2>2 DEF Coming, u
  <2>4. PICK l \in Nat : l = Len(u) /\ l > 0 /\ Len(Tail(u)) = l - 1
    BY <1>5, Tailed DEF u
  <2>5. /\ a \in Nat /\ b \in Nat /\ a + 1 \in Nat /\ a + 1 <= b + 1 /\ a <= b + 1
        /\ b = Pieces(size) - l /\ b + 1 = Pieces(size) - (l - 1) /\ b + 1 \in 0..Pieces(size)
    <3>1. b = Pieces(size) - l
      BY <2>3, <2>4, Zenon
    <3>2. a \in Nat /\ b \in Nat
      BY <1>7
    <3> QED
      BY <1>7, <2>3, <2>4, <3>1, <3>2
  <2>6. f.seq = b + 1
    <3>1. f.seq = Pieces(size) - l + 1
      BY <1>15, <2>4, Zenon
    <3> QED
      BY <2>5, <3>1
  <2>7. q # p
    BY <1>9, <2>1 DEF u
  <2>8. To(relays', q) = Append(To(relays, q), f) /\ To(relays, q) \in Seq(SentFrame) /\ f \in SentFrame
    BY <1>17, <2>1, <2>7
  <2>9. Of(f, s)
    BY <1>2 DEF Of
  <2>10. Line(To(relays', q), s, a + 1, b + 1)
    BY <2>3, <2>5, <2>6, <2>8, <2>9, LineMore
  <2>11. Carries(To(relays', q), s)
    BY <2>8, <2>9, CarriesMore
  <2>12. ASSUME NEW x \in Player, Carries(uplink'[x], s) PROVE b + 1 = Pieces(size) - Len(uplink'[x])
    <3>1. uplink'[x] = Tail(u)
      BY <1>5, <1>12, <2>12
    <3>2. Len(uplink'[x]) = l - 1
      BY <2>4, <3>1
    <3> QED
      BY <2>5, <3>2
  <2>13. ASSUME \A x \in Player : ~Carries(uplink'[x], s) PROVE b + 1 = Pieces(size)
    <3>1. Tail(u) = <<>>
      BY <1>5, <1>15, <2>13
    <3> QED
      BY <1>15, <2>6, <3>1
  <2>14. Coming(q, s, size, a, b + 1)'
    BY <1>4, <2>3, <2>5, <2>10, <2>12, <2>13 DEF Coming
  <2> QED
    BY <1>4, <1>12, <2>1, <2>5, <2>7, <2>11, <2>14 DEF Reaches, saveHistory
<1> QED
  <2>1. OnePushOf(s, n, size)'
    BY <1>18, <1>19, <1>20, <1>21 DEF OnePushOf, OnePush
  <2> QED
    BY <1>16, <2>1 DEF SlotInv

-----------------------------------------------------------------------------
\* The invariant holds at first, and every step keeps it.
LEMMA SaveStart == SaveInit => SaveIInv
<1> SUFFICES ASSUME SaveInit PROVE SaveIInv
  OBVIOUS
<1>1. SaveBase
  BY SaveBaseInit
<1>2. /\ relays = <<>> /\ cached = Nil
      /\ \A p \in Player : uplink[p] = <<>> /\ downlink[p] = <<>>
      /\ \A p \in Player : \A s \in SaveSlot : transfer[p][s] = Nil /\ saved[p][s] = <<>> /\ due[p][s] = 0
  BY DEF SaveInit
<1>3. ASSUME NEW s \in SaveSlot PROVE SlotInv(s)
  <2>1. \A p \in Player : To(relays, p) = <<>>
    BY <1>1, <1>2, ToFacts DEF SaveBase, SaveWires
  <2>2. \A p \in Player : ~Carries(uplink[p], s) /\ ~Carries(downlink[p], s) /\ ~Carries(To(relays, p), s)
    BY <1>2, <2>1, NothingCarried
  <2>3. OnePush(s, 1, 1)
    BY <1>2, <2>2, PartsNone DEF OnePush, GoesOn
  <2>4. OnePusher(s, 1, 1)
    BY <2>2 DEF OnePusher
  <2>5. CopyOf(s, 1, 1)
    <3>1. cached.slot # s
      BY <1>2, SaveConstant DEF Nil
    <3> QED
      BY <2>2, <3>1 DEF CopyOf
  <2>6. \A p \in Player : Owed(p, s, 1, 1)
    BY <1>2 DEF Owed
  <2>7. ClientsHave(s)
    BY <1>2 DEF ClientsHave
  <2>8. OnePushOf(s, 1, 1)
    BY <2>3, <2>4, <2>5, <2>6 DEF OnePushOf
  <2>9. 1 \in Nat /\ 1 \in Nat \ {0}
    OBVIOUS
  <2> QED
    BY <2>7, <2>8, <2>9 DEF SlotInv
<1> QED
  BY <1>1, <1>3 DEF SaveIInv

LEMMA SaveStutter ==
  ASSUME SaveIInv, UNCHANGED saveVars
  PROVE  SaveIInv'
<1>1. /\ UNCHANGED <<linked, uplink, relays, downlink, cached, transfer, saved>>
      /\ UNCHANGED <<pushes, trips, spoilt, muddled, same, due>>
  BY DEF saveVars, saveNet, saveHistory
<1>2. SaveBase
  BY DEF SaveIInv
<1>3. \A s : Pushed(s)' <=> Pushed(s)
  BY <1>1, PushedSame
<1>4. SaveBase'
  BY <1>1, <1>2, <1>3 DEF SaveBase, SavePlain, SaveWires, SavePushed
<1>5. ASSUME NEW s \in SaveSlot \ spoilt PROVE SlotInv(s)'
  <2>1. \A n : Newest(s, n) => Newest(s, n)'
    BY <1>1, PushedSame
  <2>2. UpCalm(s) /\ CopyCalm(s) /\ \A q \in Player : PlayerCalm(q, s)
    BY <1>1, SameSelf DEF UpCalm, CopyCalm, PlayerCalm
  <2>3. Aside(s)
    BY <1>1, <2>1, <2>2 DEF Aside
  <2> QED
    BY <1>2, <2>3, AsideKeeps DEF SaveBase, SaveIInv
<1> QED
  BY <1>1, <1>4, <1>5 DEF SaveIInv

LEMMA SaveNextCases ==
  ASSUME SaveNext
  PROVE  \/ RunRelay
         \/ \E p \in Player : \E s \in SaveSlot, size \in 1..MaxBytes : Push(p, s, size)
         \/ \E p \in Player : Ask(p)
         \/ \E p \in Player : CacheAndRelay(p)
         \/ \E p \in Player : Replay(p)
         \/ \E p \in Player : NothingToReplay(p)
         \/ \E p \in Player : \E old \in SUBSET SaveSlot : Feed(p, old)
         \/ \E p \in Player : Cut(p)
         \/ \E p \in Player : Relink(p)
BY DEF SaveNext

\* The slots once spoilt stay so.
LEMMA SpoiltGrows ==
  ASSUME SaveNext
  PROVE  spoilt \subseteq spoilt'
<1>1. ASSUME RunRelay PROVE spoilt \subseteq spoilt'
  BY <1>1 DEF RunRelay, saveHistory
<1>2. ASSUME NEW p \in Player, NEW s \in SaveSlot, NEW size \in 1..MaxBytes, Push(p, s, size)
      PROVE  spoilt \subseteq spoilt'
  BY <1>2 DEF Push
<1>3. ASSUME NEW p \in Player, Ask(p) PROVE spoilt \subseteq spoilt'
  BY <1>3 DEF Ask
<1>4. ASSUME NEW p \in Player, CacheAndRelay(p) PROVE spoilt \subseteq spoilt'
  BY <1>4 DEF CacheAndRelay, saveHistory
<1>5. ASSUME NEW p \in Player, Replay(p) PROVE spoilt \subseteq spoilt'
  BY <1>5 DEF Replay
<1>6. ASSUME NEW p \in Player, NothingToReplay(p) PROVE spoilt \subseteq spoilt'
  BY <1>6 DEF NothingToReplay, saveHistory
<1>7. ASSUME NEW p \in Player, NEW old \in SUBSET SaveSlot, Feed(p, old) PROVE spoilt \subseteq spoilt'
  BY <1>7 DEF Feed
<1>8. ASSUME NEW p \in Player, Cut(p) PROVE spoilt \subseteq spoilt'
  BY <1>8 DEF Cut
<1>9. ASSUME NEW p \in Player, Relink(p) PROVE spoilt \subseteq spoilt'
  BY <1>9 DEF Relink, saveHistory
<1> QED
  BY <1>1, <1>2, <1>3, <1>4, <1>5, <1>6, <1>7, <1>8, <1>9, SaveNextCases

LEMMA SaveBaseNext ==
  ASSUME SaveBase, SaveNext
  PROVE  SaveBase'
BY SaveNextCases, PushBase, AskBase, CacheBase, ReplayBase, NothingBase, RelayBase, FeedBase, CutBase, RelinkBase

\* One step about one slot: it is of another slot, or carries this one on.
LEMMA SlotNext ==
  ASSUME SaveBase, SaveNext, NEW s \in SaveSlot, SlotInv(s), s \notin spoilt'
  PROVE  SlotInv(s)'
<1>0. SavePlain /\ SaveWires
  BY DEF SaveBase
<1>1. ASSUME RunRelay PROVE SlotInv(s)'
  BY <1>1, RelayKeeps
<1>2. ASSUME NEW p \in Player, NEW slot \in SaveSlot, NEW size \in 1..MaxBytes, Push(p, slot, size)
      PROVE  SlotInv(s)'
  <2>1. CASE s = slot
    BY <1>2, <2>1, PushKeeps
  <2>2. CASE s # slot
    BY <1>0, <1>2, <2>2, PushAside, AsideKeeps
  <2> QED
    BY <2>1, <2>2
<1>3. ASSUME NEW p \in Player, Ask(p) PROVE SlotInv(s)'
  BY <1>0, <1>3, AskAside, AsideKeeps
<1>4. ASSUME NEW p \in Player, CacheAndRelay(p) PROVE SlotInv(s)'
  <2>1. CASE Of(uplink[p][1], s)
    BY <1>4, <2>1, CacheKeeps
  <2>2. CASE ~Of(uplink[p][1], s)
    BY <1>0, <1>4, <2>2, CacheAside, AsideKeeps
  <2> QED
    BY <2>1, <2>2
<1>5. ASSUME NEW p \in Player, Replay(p) PROVE SlotInv(s)'
  <2>1. CASE cached.slot = s
    BY <1>5, <2>1, ReplayKeeps
  <2>2. CASE cached.slot # s
    BY <1>0, <1>5, <2>2, ReplayAside, AsideKeeps
  <2> QED
    BY <2>1, <2>2
<1>6. ASSUME NEW p \in Player, NothingToReplay(p) PROVE SlotInv(s)'
  BY <1>0, <1>6, NothingAside, AsideKeeps
<1>7. ASSUME NEW p \in Player, NEW old \in SUBSET SaveSlot, Feed(p, old) PROVE SlotInv(s)'
  <2>1. CASE downlink[p][1].slot = s
    BY <1>7, <2>1, FeedKeeps
  <2>2. CASE downlink[p][1].slot # s
    BY <1>0, <1>7, <2>2, FeedAside, AsideKeeps
  <2> QED
    BY <2>1, <2>2
<1>8. ASSUME NEW p \in Player, Cut(p) PROVE SlotInv(s)'
  BY <1>0, <1>8, CutAside, AsideKeeps
<1>9. ASSUME NEW p \in Player, Relink(p) PROVE SlotInv(s)'
  BY <1>0, <1>9, RelinkAside, AsideKeeps
<1> QED
  BY <1>1, <1>2, <1>3, <1>4, <1>5, <1>6, <1>7, <1>8, <1>9, SaveNextCases

LEMMA SaveStep ==
  ASSUME SaveIInv, SaveNext
  PROVE  SaveIInv'
<1>1. SaveBase /\ SaveBase'
  BY SaveBaseNext DEF SaveIInv
<1>2. ASSUME NEW s \in SaveSlot, s \notin spoilt' PROVE SlotInv(s)'
  <2>1. s \notin spoilt
    BY <1>2, SpoiltGrows
  <2>2. SlotInv(s)
    BY <2>1 DEF SaveIInv
  <2> QED
    BY <1>1, <1>2, <2>2, SlotNext
<1> QED
  BY <1>1, <1>2 DEF SaveIInv

LEMMA SaveInductive == SaveSpec => []SaveIInv
<1>1. SaveInit => SaveIInv
  BY SaveStart
<1>2. SaveIInv /\ [SaveNext]_saveVars => SaveIInv'
  BY SaveStep, SaveStutter
<1> QED
  BY <1>1, <1>2, PTL DEF SaveSpec

-----------------------------------------------------------------------------
\* Whatever is pushed, asked for, cut and pruned, the save streams keep their
\* types: a copy is of a slot and has the chunks of its size, a transfer waits
\* for a chunk it does not have yet and has no more bytes than were declared.
THEOREM SaveTypeCorrect == SaveSpec => []SaveTypeOK
<1>1. SaveIInv => SaveTypeOK
  <2> SUFFICES ASSUME SaveIInv PROVE SaveTypeOK
    OBVIOUS
  <2>1. SavePlain
    BY DEF SaveIInv, SaveBase
  <2>2. cached # Nil => cached.slot \in SaveSlot /\ cached.total = Pieces(cached.size)
    BY <2>1, CopyFacts DEF SavePlain
  <2>3. ASSUME NEW p \in Player, NEW s \in SaveSlot, transfer[p][s] # Nil
        PROVE  /\ transfer[p][s].next \in 1..transfer[p][s].total
               /\ Len(transfer[p][s].buffer) <= transfer[p][s].size
    <3>1. transfer[p][s] \in Partial
      BY <2>1, <2>3 DEF SavePlain
    <3> QED
      BY <3>1, PartialFacts
  <2> QED
    BY <2>1, <2>2, <2>3 DEF SaveTypeOK, SavePlain
<1> QED
  BY <1>1, SaveInductive, PTL

LEMMA FilesAreFiles ==
  ASSUME NEW data, HasFile(data)
  PROVE  IsFile(data)
<1>1. PICK n \in Nat, size \in Nat \ {0} : data = File(n, size)
  BY DEF HasFile
<1>2. Len(data) = size /\ data[1][1] = n
  BY <1>1, FileFacts
<1> QED
  BY <1>1, <1>2 DEF IsFile

\* What a client has written and what the server replays are whole files: no
\* sequence of pushes, relays, replays and prunings mixes the bytes of two
\* pushes in a slot where none was cut or overlapped another.
THEOREM FilesAreWhole == SaveSpec => []FilesWhole
<1>1. SaveIInv => FilesWhole
  <2> SUFFICES ASSUME SaveIInv PROVE FilesWhole
    OBVIOUS
  <2>1. ASSUME NEW p \in Player, NEW s \in SaveSlot \ spoilt, saved[p][s] # <<>> PROVE IsFile(saved[p][s])
    <3>1. HasFile(saved[p][s])
      BY <2>1 DEF SaveIInv, SlotInv, ClientsHave
    <3> QED
      BY <3>1, FilesAreFiles
  <2>2. ASSUME cached # Nil, ~cached.open, cached.slot \notin spoilt \cup muddled
        PROVE  Len(cached.data) = cached.size /\ IsFile(cached.data)
    <3>1. cached.slot \in SaveSlot /\ cached.size \in Nat
      BY <2>2, CopyFacts DEF SaveIInv, SaveBase, SavePlain
    <3>2. SlotInv(cached.slot)
      BY <2>2, <3>1 DEF SaveIInv
    <3>3. PICK m \in Nat : Whole(cached.slot, m)
      BY <2>2, <3>2 DEF SlotInv, OnePushOf, CopyOf
    <3>4. PICK size \in Nat \ {0} : size = cached.size /\ cached.data = File(m, size)
      BY <3>1, <3>3 DEF Whole
    <3>5. Len(cached.data) = cached.size
      BY <3>4, FileFacts
    <3>6. HasFile(cached.data)
      BY <3>4 DEF HasFile
    <3> QED
      BY <3>5, <3>6, FilesAreFiles
  <2> QED
    BY <2>1, <2>2 DEF FilesWhole
<1> QED
  BY <1>1, SaveInductive, PTL

\* Once nothing is on its way, everyone who was there for the last push of a
\* slot has that file, and the server's copy is the last push of its slot.
THEOREM LatestDoesArrive == SaveSpec => []LatestArrives
<1>1. SaveIInv => LatestArrives
  <2> SUFFICES ASSUME SaveIInv, SaveQuiet PROVE PushesArrive /\ CopyIsLatest
    BY DEF LatestArrives, PushesArrive, CopyIsLatest
  <2>1. relays = <<>> /\ \A p \in Player : uplink[p] = <<>> /\ downlink[p] = <<>>
    BY DEF SaveQuiet, TurnOver
  <2>2. SavePlain /\ SaveWires
    BY DEF SaveIInv, SaveBase
  <2>3. \A p \in Player : To(relays, p) = <<>>
    BY <2>1, <2>2, ToFacts DEF SaveWires
  <2>4. \A s : \A p \in Player : ~Carries(uplink[p], s) /\ ~Reaches(p, s)
    BY <2>1, <2>3, NothingCarried DEF Reaches
  <2>5. ASSUME NEW p \in Player, NEW s \in SaveSlot \ spoilt, due[p][s] # 0
        PROVE  saved[p][s] # <<>> /\ saved[p][s][1][1] = due[p][s]
    <3>1. PICK n \in Nat, size \in Nat \ {0} : Owed(p, s, n, size)
      BY DEF SaveIInv, SlotInv, OnePushOf
    <3> QED
      BY <2>4, <2>5, <3>1 DEF Owed
  <2>6. ASSUME cached # Nil, cached.slot \notin spoilt \cup muddled \cup same
        PROVE  ~cached.open /\ cached.data[1][1] = LastPush(cached.slot)
    <3>1. cached.slot \in SaveSlot /\ cached.size \in Nat
      BY <2>2, <2>6, CopyFacts DEF SavePlain
    <3>2. PICK n \in Nat, size \in Nat \ {0} : CopyOf(cached.slot, n, size)
      BY <2>6, <3>1 DEF SaveIInv, SlotInv, OnePushOf
    <3>3. ~cached.open
      BY <2>4, <2>6, <3>2 DEF CopyOf, Growing
    <3>4. PICK m \in Nat : Whole(cached.slot, m)
      BY <2>6, <3>2, <3>3 DEF CopyOf
    <3>5. Newest(cached.slot, m) /\ cached.size > 0 /\ cached.data = File(m, cached.size)
      BY <2>4, <2>6, <3>4 DEF Whole
    <3>6. cached.data[1][1] = m
      BY <3>1, <3>5, FileFacts
    <3>7. LastPush(cached.slot) = m
      BY <2>2, <3>5, NewestIsLast DEF SavePlain
    <3> QED
      BY <3>3, <3>6, <3>7
  <2>7. PushesArrive
    BY <2>5 DEF PushesArrive
  <2>8. CopyIsLatest
    BY <2>6 DEF CopyIsLatest
  <2> QED
    BY <2>7, <2>8
<1> QED
  BY <1>1, SaveInductive, PTL
=============================================================================
