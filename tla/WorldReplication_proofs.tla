---------------------- MODULE WorldReplication_proofs ----------------------
(***************************************************************************)
(* What the clients' mirrors and claims have of the catalog, for any       *)
(* players, keys and values, and any number of frames on their way.        *)
(*                                                                         *)
(* A client hears of a key through four channels: its owner, its value,    *)
(* whether it is denied, and whether a claim is unanswered.  On each, what *)
(* the frames on their way say last, or else what the client has, is what  *)
(* the server has: Final.  That is inductive, and when nothing is on its   *)
(* way it is what the properties say.                                      *)
(***************************************************************************)
EXTENDS WorldReplication, SequenceTheorems, FiniteSetTheorems, TLAPS

-----------------------------------------------------------------------------
\* Frames to a client, frames from one, and broadcasts.
Down ==
  [type : {"OWNER"}, key : Key, owner : Player \cup {None}, values : {Nothing}]
    \cup [type : {"DELTA"}, key : {None}, owner : {None},
          values : UNION {[K -> Value \cup {None}] : K \in SUBSET Key}]
    \cup [type : {"GONE", "LOCKED"}, key : Key, owner : {None}, values : {Nothing}]
    \cup [type : {"NOT_FOUND"}, key : Key \cup {None}, owner : {None}, values : {Nothing}]
    \cup [type : {"STATE"}, key : {None}, owner : [Key -> Player \cup {None}],
          values : [Key -> Value \cup {None}]]

Request ==
  [type : {"CLAIM", "RELEASE", "GONE"}, key : Key, owner : {None}, values : {Nothing}]
    \cup [type : {"UPDATE"}, key : {None}, owner : {None}, values : UNION {[K -> Value] : K \in SUBSET Key}]

Cast == [from : Player, to : SUBSET Player, frame : Down]

NetTypeOK ==
  /\ worldWire \in [Player -> Seq(Request)] /\ lateWire \in [Player -> Seq(Request)]
  /\ inbox \in [Player -> Seq(Down)] /\ outbox \in Seq(Cast)

-----------------------------------------------------------------------------
Channel == {"owner", "value", "denied", "claim"}

\* Whether a frame to p tells anything of k.
Tells(c, p, f, k) ==
  \/ c = "owner" /\ (f.type = "STATE" \/ (f.type \in {"OWNER", "GONE"} /\ f.key = k))
  \/ c = "value" /\ (f.type = "STATE" \/ (f.type = "GONE" /\ f.key = k)
                       \/ (f.type = "DELTA" /\ k \in DOMAIN f.values))
  \/ c = "denied" /\ f.key = k /\ (f.type = "LOCKED" \/ (f.type = "OWNER" /\ Reopens(p, f.owner)))
  \/ c = "claim" /\ f.type \in {"OWNER", "LOCKED"} /\ f.key = k

\* What it tells.
Says(c, f, k) ==
  IF c = "owner" THEN IF f.type = "STATE" THEN f.owner[k] ELSE f.owner
  ELSE IF c = "value" THEN IF f.type = "GONE" THEN None ELSE f.values[k]
  ELSE IF c = "denied" /\ f.type = "LOCKED" THEN "yes" ELSE "no"

\* What the client has, and what it should have.
Has(c, p, k) ==
  IF c = "owner" THEN mirrorOwner[p][k]
  ELSE IF c = "value" THEN mirrorValue[p][k]
  ELSE IF (c = "denied" /\ k \in denied[p]) \/ (c = "claim" /\ k \in inFlight[p]) THEN "yes" ELSE "no"

Due(c, k) == IF c = "owner" THEN owner[k] ELSE IF c = "value" THEN value[k] ELSE "no"

Sent(p, type, k) == \E i \in DOMAIN worldWire[p] : worldWire[p][i].type = type /\ worldWire[p][i].key = k

\* Where the client may have something else.
Exempt(c, p, k) ==
  \/ c = "owner" /\ (k \in astray[p] \/ Sent(p, "GONE", k))
  \/ c = "value" /\ (k \in unheard[p] \/ Sent(p, "GONE", k))
  \/ c = "denied" /\ (k \in shut[p] \/ owner[k] \notin {None, p})
  \/ c = "claim" /\ (k \in stranded[p] \/ Sent(p, "CLAIM", k))

\* All that the queue tells is x; and it tells it last.
Quiet(q, c, p, k, x) == \A i \in DOMAIN q : Tells(c, p, q[i], k) => Says(c, q[i], k) = x

Ends(q, c, p, k, x) ==
  \E i \in DOMAIN q :
    /\ Tells(c, p, q[i], k) /\ Says(c, q[i], k) = x
    /\ \A j \in DOMAIN q : j > i /\ Tells(c, p, q[j], k) => Says(c, q[j], k) = x

\* When a client that has h will have read the frames in, and then those of out,
\* it will have x.
Leads(out, in, h, c, p, k, x) ==
  \/ Ends(out, c, p, k, x)
  \/ Quiet(out, c, p, k, x) /\ Ends(in, c, p, k, x)
  \/ Quiet(out, c, p, k, x) /\ Quiet(in, c, p, k, x) /\ h = x

\* The broadcasts that have not run, as p will hear them.
Blank == Message("NOT_FOUND", None, None, Nothing)
Heard(b, p) == IF p \in b.to THEN b.frame ELSE Blank
HeardBy(box, p) == [i \in DOMAIN box |-> Heard(box[i], p)]
Out(p) == HeardBy(outbox, p)

Final(c, p, k) == Leads(Out(p), inbox[p], Has(c, p, k), c, p, k, Due(c, k))

Converging ==
  \A p \in Player : Up(p) => \A c \in Channel, k \in Key : Exempt(c, p, k) \/ Final(c, p, k)

\* A client that is away has nothing on its way, and no claim pending that
\* would be answered.
Away ==
  \A p \in Player : ~Up(p) =>
    worldWire[p] = <<>> /\ inbox[p] = <<>> /\ inFlight[p] \subseteq stranded[p]

\* A broadcast is for connected players, and never a denial.
Casting ==
  \A i \in DOMAIN outbox :
    outbox[i].to \subseteq {q \in Player : Up(q)} /\ outbox[i].frame.type \in {"OWNER", "DELTA", "GONE"}

Base == WorldTypeOK /\ NetTypeOK /\ Away /\ Casting
WInv == Base /\ Converging

-----------------------------------------------------------------------------
LEMMA Constants == None \notin Player /\ IsFiniteSet(Key) /\ Sim \subseteq Key /\ MaxMoves \in Nat
BY WorldConstants DEF WorldConstants

-----------------------------------------------------------------------------
\* Queues.
LEMMA QueueFacts ==
  ASSUME NEW S, NEW q \in Seq(S)
  PROVE  /\ Len(q) \in Nat /\ DOMAIN q = 1..Len(q)
         /\ \A i \in DOMAIN q : q[i] \in S
         /\ q # <<>> => 1 \in DOMAIN q /\ Head(q) = q[1] /\ Len(q) > 0
         /\ Len(q) = 0 => q = <<>>
OBVIOUS

LEMMA Appended ==
  ASSUME NEW S, NEW q \in Seq(S), NEW f \in S
  PROVE  /\ Append(q, f) \in Seq(S) /\ Len(Append(q, f)) = Len(q) + 1
         /\ DOMAIN Append(q, f) = DOMAIN q \cup {Len(q) + 1}
         /\ \A i \in DOMAIN q : Append(q, f)[i] = q[i] /\ i < Len(q) + 1
         /\ Append(q, f)[Len(q) + 1] = f
         /\ Len(q) + 1 \notin DOMAIN q
OBVIOUS

LEMMA Tailed ==
  ASSUME NEW S, NEW q \in Seq(S), q # <<>>
  PROVE  /\ Tail(q) \in Seq(S) /\ Len(Tail(q)) = Len(q) - 1
         /\ \A i \in DOMAIN Tail(q) : i + 1 \in DOMAIN q /\ Tail(q)[i] = q[i + 1] /\ i \in Nat
         /\ \A i \in DOMAIN q : i # 1 => i - 1 \in DOMAIN Tail(q) /\ Tail(q)[i - 1] = q[i] /\ i \in Nat
OBVIOUS

\* What a queue tells, with one more frame, and without its first one.
LEMMA QuietAppend ==
  ASSUME NEW q \in Seq(Down), NEW f \in Down, NEW c, NEW p, NEW k, NEW x,
         Quiet(q, c, p, k, x), Tells(c, p, f, k) => Says(c, f, k) = x
  PROVE  Quiet(Append(q, f), c, p, k, x)
<1> DEFINE a == Append(q, f)
<1>1. /\ DOMAIN a = DOMAIN q \cup {Len(q) + 1} /\ a[Len(q) + 1] = f
      /\ \A i \in DOMAIN q : a[i] = q[i]
  BY Appended
<1> HIDE DEF a
<1> QED BY <1>1 DEF Quiet

LEMMA EndsAppend ==
  ASSUME NEW q \in Seq(Down), NEW f \in Down, NEW c, NEW p, NEW k, NEW x,
         Ends(q, c, p, k, x), Tells(c, p, f, k) => Says(c, f, k) = x
  PROVE  Ends(Append(q, f), c, p, k, x)
<1> DEFINE a == Append(q, f)
<1>1. /\ DOMAIN a = DOMAIN q \cup {Len(q) + 1} /\ a[Len(q) + 1] = f
      /\ \A i \in DOMAIN q : a[i] = q[i]
  BY Appended
<1> HIDE DEF a
<1> QED BY <1>1 DEF Ends

LEMMA LastAppend ==
  ASSUME NEW q \in Seq(Down), NEW f \in Down, NEW c, NEW p, NEW k, NEW x,
         Tells(c, p, f, k), Says(c, f, k) = x
  PROVE  Ends(Append(q, f), c, p, k, x)
<1> DEFINE a == Append(q, f)
<1>1. /\ DOMAIN a = DOMAIN q \cup {Len(q) + 1} /\ a[Len(q) + 1] = f
      /\ \A i \in DOMAIN q : a[i] = q[i] /\ i < Len(q) + 1
  BY Appended
<1>2. \A j \in DOMAIN a : ~(j > Len(q) + 1)
  <2>1. Len(q) \in Nat /\ DOMAIN q = 1..Len(q)
    BY QueueFacts
  <2> QED BY <1>1, <2>1
<1> HIDE DEF a
<1> QED BY <1>1, <1>2 DEF Ends

LEMMA QuietTail ==
  ASSUME NEW q \in Seq(Down), q # <<>>, NEW c, NEW p, NEW k, NEW x, Quiet(q, c, p, k, x)
  PROVE  /\ Quiet(Tail(q), c, p, k, x)
         /\ Tells(c, p, Head(q), k) => Says(c, Head(q), k) = x
<1> DEFINE t == Tail(q)
<1>1. /\ \A i \in DOMAIN t : i + 1 \in DOMAIN q /\ t[i] = q[i + 1]
      /\ 1 \in DOMAIN q /\ Head(q) = q[1]
  BY Tailed, QueueFacts
<1> HIDE DEF t
<1>2. Quiet(t, c, p, k, x)
  BY <1>1 DEF Quiet
<1>3. Tells(c, p, Head(q), k) => Says(c, Head(q), k) = x
  BY <1>1 DEF Quiet
<1> QED BY <1>2, <1>3 DEF t

LEMMA EndsTail ==
  ASSUME NEW q \in Seq(Down), q # <<>>, NEW c, NEW p, NEW k, NEW x, Ends(q, c, p, k, x)
  PROVE  \/ Ends(Tail(q), c, p, k, x)
         \/ /\ Tells(c, p, Head(q), k) /\ Says(c, Head(q), k) = x
            /\ Quiet(Tail(q), c, p, k, x)
<1> DEFINE t == Tail(q)
<1>1. /\ \A i \in DOMAIN t : i + 1 \in DOMAIN q /\ t[i] = q[i + 1] /\ i \in Nat /\ i > 0
      /\ \A i \in DOMAIN q : i # 1 => i - 1 \in DOMAIN t /\ t[i - 1] = q[i] /\ i \in Nat
      /\ 1 \in DOMAIN q /\ Head(q) = q[1]
  BY Tailed, QueueFacts
<1> HIDE DEF t
<1>2. PICK i \in DOMAIN q :
        /\ Tells(c, p, q[i], k) /\ Says(c, q[i], k) = x
        /\ \A j \in DOMAIN q : j > i /\ Tells(c, p, q[j], k) => Says(c, q[j], k) = x
  BY DEF Ends
<1>3. CASE i = 1
  <2>1. ASSUME NEW j \in DOMAIN t, Tells(c, p, t[j], k)
        PROVE  Says(c, t[j], k) = x
    <3>1. j + 1 \in DOMAIN q /\ j + 1 > 1 /\ t[j] = q[j + 1]
      BY <1>1
    <3> QED BY <2>1, <3>1, <1>2, <1>3
  <2>2. Quiet(t, c, p, k, x)
    BY <2>1 DEF Quiet
  <2> QED BY <1>1, <1>2, <1>3, <2>2 DEF t
<1>4. CASE i # 1
  <2>1. i - 1 \in DOMAIN t /\ t[i - 1] = q[i] /\ i \in Nat
    BY <1>1, <1>4
  <2>2. ASSUME NEW j \in DOMAIN t, j > i - 1, Tells(c, p, t[j], k)
        PROVE  Says(c, t[j], k) = x
    <3>1. j + 1 \in DOMAIN q /\ j + 1 > i /\ t[j] = q[j + 1]
      BY <1>1, <2>1, <2>2
    <3> QED BY <2>2, <3>1, <1>2
  <2>3. Ends(t, c, p, k, x)
    BY <1>2, <2>1, <2>2 DEF Ends
  <2> QED BY <2>3 DEF t
<1> QED BY <1>3, <1>4

\* A reply that agrees with what should be had; and one that no older broadcast
\* contradicts.
LEMMA LeadsReply ==
  ASSUME NEW out \in Seq(Down), NEW in \in Seq(Down), NEW f \in Down,
         NEW h, NEW c, NEW p, NEW k, NEW x,
         Leads(out, in, h, c, p, k, x), Tells(c, p, f, k) => Says(c, f, k) = x
  PROVE  Leads(out, Append(in, f), h, c, p, k, x)
<1>1. Quiet(in, c, p, k, x) => Quiet(Append(in, f), c, p, k, x)
  BY QuietAppend
<1>2. Ends(in, c, p, k, x) => Ends(Append(in, f), c, p, k, x)
  BY EndsAppend
<1> QED BY <1>1, <1>2 DEF Leads

LEMMA LeadsReplied ==
  ASSUME NEW out \in Seq(Down), NEW in \in Seq(Down), NEW f \in Down,
         NEW h, NEW c, NEW p, NEW k, NEW x,
         Quiet(out, c, p, k, x), Tells(c, p, f, k), Says(c, f, k) = x
  PROVE  Leads(out, Append(in, f), h, c, p, k, x)
<1>1. Ends(Append(in, f), c, p, k, x)
  BY LastAppend
<1> QED BY <1>1 DEF Leads

\* A broadcast, likewise.
LEMMA LeadsCast ==
  ASSUME NEW out \in Seq(Down), NEW in \in Seq(Down), NEW f \in Down,
         NEW h, NEW c, NEW p, NEW k, NEW x,
         Leads(out, in, h, c, p, k, x), Tells(c, p, f, k) => Says(c, f, k) = x
  PROVE  Leads(Append(out, f), in, h, c, p, k, x)
<1>1. Quiet(out, c, p, k, x) => Quiet(Append(out, f), c, p, k, x)
  BY QuietAppend
<1>2. Ends(out, c, p, k, x) => Ends(Append(out, f), c, p, k, x)
  BY EndsAppend
<1> QED BY <1>1, <1>2 DEF Leads

LEMMA LeadsTold ==
  ASSUME NEW out \in Seq(Down), NEW in, NEW f \in Down,
         NEW h, NEW c, NEW p, NEW k, NEW x,
         Tells(c, p, f, k), Says(c, f, k) = x
  PROVE  Leads(Append(out, f), in, h, c, p, k, x)
BY LastAppend DEF Leads

\* The first broadcast is delivered, to p or to others only.
LEMMA LeadsDeliver ==
  ASSUME NEW out \in Seq(Down), out # <<>>, NEW in \in Seq(Down), NEW in2,
         NEW h, NEW c, NEW p, NEW k, NEW x,
         Leads(out, in, h, c, p, k, x),
         in2 = Append(in, Head(out)) \/ (in2 = in /\ ~Tells(c, p, Head(out), k))
  PROVE  Leads(Tail(out), in2, h, c, p, k, x)
<1>1. Head(out) \in Down
  BY QueueFacts
<1>2. CASE Ends(out, c, p, k, x)
  <2>1. CASE Ends(Tail(out), c, p, k, x)
    BY <2>1 DEF Leads
  <2>2. CASE /\ Tells(c, p, Head(out), k) /\ Says(c, Head(out), k) = x
             /\ Quiet(Tail(out), c, p, k, x)
    <3>1. Ends(in2, c, p, k, x)
      BY <1>1, <2>2, LastAppend
    <3> QED BY <2>2, <3>1 DEF Leads
  <2> QED BY <1>2, <2>1, <2>2, EndsTail
<1>3. CASE Quiet(out, c, p, k, x)
  <2>1. /\ Quiet(Tail(out), c, p, k, x)
        /\ Tells(c, p, Head(out), k) => Says(c, Head(out), k) = x
    BY <1>3, QuietTail
  <2>2. Ends(in, c, p, k, x) => Ends(in2, c, p, k, x)
    BY <1>1, <2>1, EndsAppend
  <2>3. Quiet(in, c, p, k, x) => Quiet(in2, c, p, k, x)
    BY <1>1, <2>1, QuietAppend
  <2> QED BY <2>1, <2>2, <2>3, EndsTail, <1>2 DEF Leads
<1> QED BY <1>2, <1>3 DEF Leads

\* The client has read its first frame.
LEMMA LeadsApply ==
  ASSUME NEW in \in Seq(Down), in # <<>>, NEW h, NEW g,
         NEW c, NEW p, NEW k, NEW x,
         Leads(<<>>, in, h, c, p, k, x),
         g = IF Tells(c, p, Head(in), k) THEN Says(c, Head(in), k) ELSE h
  PROVE  Leads(<<>>, Tail(in), g, c, p, k, x)
<1>1. ~Ends(<<>>, c, p, k, x) /\ Quiet(<<>>, c, p, k, x)
  BY DEF Ends, Quiet
<1>2. CASE Ends(in, c, p, k, x)
  BY <1>1, <1>2, EndsTail DEF Leads
<1>3. CASE Quiet(in, c, p, k, x) /\ h = x
  BY <1>1, <1>3, QuietTail DEF Leads
<1> QED BY <1>1, <1>2, <1>3 DEF Leads

\* Nothing is on its way.
LEMMA LeadsSettled ==
  ASSUME NEW h, NEW c, NEW p, NEW k, NEW x, Leads(<<>>, <<>>, h, c, p, k, x)
  PROVE  h = x
BY DEF Leads, Ends, Quiet

-----------------------------------------------------------------------------
\* Frames.
LEMMA NothingTold == Nothing = [j \in {} |-> None] /\ DOMAIN Nothing = {}
BY DEF Nothing

LEMMA DownFrames ==
  ASSUME NEW k \in Key, NEW o \in Player \cup {None}
  PROVE  /\ Message("OWNER", k, o, Nothing) \in Down
         /\ Message("GONE", k, None, Nothing) \in Down
         /\ Message("LOCKED", k, None, Nothing) \in Down
         /\ Message("NOT_FOUND", k, None, Nothing) \in Down
BY DEF Message, Down

LEMMA BlankFrame == Blank \in Down
BY DEF Blank, Message, Down

LEMMA DeltaFrame ==
  ASSUME NEW K \in SUBSET Key, NEW v \in [K -> Value \cup {None}]
  PROVE  Message("DELTA", None, None, v) \in Down
<1>1. v \in UNION {[J -> Value \cup {None}] : J \in SUBSET Key}
  OBVIOUS
<1> QED BY <1>1 DEF Message, Down

LEMMA StateFrame ==
  ASSUME NEW o \in [Key -> Player \cup {None}], NEW v \in [Key -> Value \cup {None}]
  PROVE  Message("STATE", None, o, v) \in Down
BY DEF Message, Down

LEMMA DownFacts ==
  ASSUME NEW f \in Down
  PROVE  /\ f.type \in {"OWNER", "DELTA", "GONE", "LOCKED", "NOT_FOUND", "STATE"}
         /\ f.type \in {"OWNER", "GONE", "LOCKED"} => f.key \in Key
         /\ f.type \in {"OWNER", "GONE"} => f.owner \in Player \cup {None}
         /\ f.type = "GONE" => f.owner = None
         /\ f.type = "DELTA" => f.values \in UNION {[K -> Value \cup {None}] : K \in SUBSET Key}
         /\ f.type = "STATE" => /\ f.owner \in [Key -> Player \cup {None}]
                                /\ f.values \in [Key -> Value \cup {None}]
BY DEF Down

LEMMA DeltaFacts ==
  ASSUME NEW f \in Down, f.type = "DELTA"
  PROVE  /\ DOMAIN f.values \subseteq Key
         /\ \A k \in DOMAIN f.values : f.values[k] \in Value \cup {None}
<1>1. f.values \in UNION {[K -> Value \cup {None}] : K \in SUBSET Key}
  BY DownFacts
<1> QED BY <1>1

LEMMA RequestFacts ==
  ASSUME NEW f \in Request
  PROVE  /\ f.type \in {"CLAIM", "RELEASE", "GONE", "UPDATE"}
         /\ f.type \in {"CLAIM", "RELEASE", "GONE"} => f.key \in Key
         /\ f.type = "UPDATE" =>
              /\ DOMAIN f.values \subseteq Key
              /\ \A k \in DOMAIN f.values : f.values[k] \in Value
              /\ f.values = [k \in DOMAIN f.values |-> f.values[k]]
<1>1. /\ f.type \in {"CLAIM", "RELEASE", "GONE", "UPDATE"}
      /\ f.type \in {"CLAIM", "RELEASE", "GONE"} => f.key \in Key
      /\ f.type = "UPDATE" => f.values \in UNION {[K -> Value] : K \in SUBSET Key}
  BY DEF Request
<1> QED BY <1>1

LEMMA Requests ==
  ASSUME NEW k \in Key, NEW t \in {"CLAIM", "RELEASE", "GONE"}
  PROVE  /\ Message(t, k, None, Nothing) \in Request
         /\ Message(t, k, None, Nothing).type = t
         /\ Message(t, k, None, Nothing).key = k
BY DEF Message, Request

LEMMA UpdateRequest ==
  ASSUME NEW K \in SUBSET Key, NEW v \in [K -> Value]
  PROVE  Message("UPDATE", None, None, v) \in Request
<1>1. v \in UNION {[J -> Value] : J \in SUBSET Key}
  OBVIOUS
<1> QED BY <1>1 DEF Message, Request

\* What each frame tells, and says.
LEMMA OwnerTells ==
  ASSUME NEW c \in Channel, NEW p, NEW k, NEW f, f.type = "OWNER"
  PROVE  /\ Tells(c, p, f, k) <=> f.key = k /\ (c \in {"owner", "claim"} \/ (c = "denied" /\ Reopens(p, f.owner)))
         /\ c = "owner" => Says(c, f, k) = f.owner
         /\ c \in {"claim", "denied"} => Says(c, f, k) = "no"
BY DEF Channel, Tells, Says

LEMMA GoneTells ==
  ASSUME NEW c \in Channel, NEW p, NEW k,
         NEW f, f.type = "GONE", f.owner = None
  PROVE  /\ Tells(c, p, f, k) <=> f.key = k /\ c \in {"owner", "value"}
         /\ c \in {"owner", "value"} => Says(c, f, k) = None
BY DEF Channel, Tells, Says

LEMMA LockedTells ==
  ASSUME NEW c \in Channel, NEW p, NEW k, NEW f, f.type = "LOCKED"
  PROVE  /\ Tells(c, p, f, k) <=> f.key = k /\ c \in {"denied", "claim"}
         /\ c = "denied" => Says(c, f, k) = "yes"
         /\ c = "claim" => Says(c, f, k) = "no"
BY DEF Channel, Tells, Says

LEMMA DeltaTells ==
  ASSUME NEW c \in Channel, NEW p, NEW k,
         NEW f, f.type = "DELTA"
  PROVE  /\ Tells(c, p, f, k) <=> c = "value" /\ k \in DOMAIN f.values
         /\ c = "value" => Says(c, f, k) = f.values[k]
BY DEF Channel, Tells, Says

LEMMA StateTells ==
  ASSUME NEW c \in Channel, NEW p, NEW k,
         NEW f, f.type = "STATE"
  PROVE  /\ Tells(c, p, f, k) <=> c \in {"owner", "value"}
         /\ c = "owner" => Says(c, f, k) = f.owner[k]
         /\ c = "value" => Says(c, f, k) = f.values[k]
BY DEF Channel, Tells, Says

LEMMA NotFoundTells ==
  ASSUME NEW c \in Channel, NEW p, NEW k, NEW f, f.type = "NOT_FOUND"
  PROVE  ~Tells(c, p, f, k)
BY DEF Channel, Tells

LEMMA BlankTells ==
  ASSUME NEW c \in Channel, NEW p, NEW k
  PROVE  ~Tells(c, p, Blank, k)
BY NotFoundTells DEF Blank, Message

-----------------------------------------------------------------------------
\* The broadcasts as one client will hear them.
LEMMA CastFacts ==
  ASSUME NEW b \in Cast
  PROVE  b.from \in Player /\ b.to \subseteq Player /\ b.frame \in Down
BY DEF Cast

LEMMA HeardFacts ==
  ASSUME NEW box \in Seq(Cast), NEW p
  PROVE  /\ HeardBy(box, p) \in Seq(Down)
         /\ Len(HeardBy(box, p)) = Len(box)
         /\ DOMAIN HeardBy(box, p) = DOMAIN box
         /\ \A i \in DOMAIN box : HeardBy(box, p)[i] = Heard(box[i], p)
         /\ HeardBy(box, p) = <<>> <=> box = <<>>
<1> DEFINE h == [i \in DOMAIN box |-> Heard(box[i], p)]
<1>1. Len(box) \in Nat /\ DOMAIN box = 1..Len(box)
  OBVIOUS
<1>2. \A i \in DOMAIN box : Heard(box[i], p) \in Down
  BY BlankFrame, CastFacts DEF Heard
<1>3. h \in [1..Len(box) -> Down] /\ DOMAIN h = 1..Len(box)
  BY <1>1, <1>2
<1>4. h \in Seq(Down) /\ Len(h) = Len(box)
  BY <1>1, <1>3, LenProperties
<1>5. h = <<>> <=> box = <<>>
  BY <1>1, <1>4
<1> QED BY <1>1, <1>3, <1>4, <1>5 DEF HeardBy

LEMMA HeardAppend ==
  ASSUME NEW box \in Seq(Cast), NEW b \in Cast, NEW p
  PROVE  HeardBy(Append(box, b), p) = Append(HeardBy(box, p), Heard(b, p))
<1> DEFINE l == HeardBy(Append(box, b), p)
           r == Append(HeardBy(box, p), Heard(b, p))
<1>1. Heard(b, p) \in Down
  BY BlankFrame, CastFacts DEF Heard
<1>2. /\ Append(box, b) \in Seq(Cast) /\ Len(Append(box, b)) = Len(box) + 1
      /\ Len(box) \in Nat /\ DOMAIN box = 1..Len(box)
      /\ \A i \in DOMAIN box : Append(box, b)[i] = box[i]
      /\ Append(box, b)[Len(box) + 1] = b
      /\ DOMAIN Append(box, b) = DOMAIN box \cup {Len(box) + 1}
  BY Appended, QueueFacts
<1>3. /\ l \in Seq(Down) /\ Len(l) = Len(box) + 1
      /\ \A i \in DOMAIN box : l[i] = Heard(box[i], p)
      /\ l[Len(box) + 1] = Heard(b, p)
  <2> DEFINE a == Append(box, b)
  <2>1. /\ HeardBy(a, p) \in Seq(Down) /\ Len(HeardBy(a, p)) = Len(a)
        /\ \A i \in DOMAIN a : HeardBy(a, p)[i] = Heard(a[i], p)
    BY <1>2, HeardFacts
  <2> QED BY <1>2, <2>1
<1>4. /\ r \in Seq(Down) /\ Len(r) = Len(box) + 1
      /\ \A i \in DOMAIN box : r[i] = Heard(box[i], p)
      /\ r[Len(box) + 1] = Heard(b, p)
  BY <1>1, <1>2, HeardFacts, Appended
<1> HIDE DEF l, r
<1>5. \A i \in 1..Len(l) : l[i] = r[i]
  BY <1>2, <1>3, <1>4
<1>6. l = r
  BY <1>3, <1>4, <1>5, SeqEqual
<1> QED BY <1>6 DEF l, r

LEMMA HeardTail ==
  ASSUME NEW box \in Seq(Cast), box # <<>>, NEW p
  PROVE  /\ HeardBy(Tail(box), p) = Tail(HeardBy(box, p))
         /\ Head(HeardBy(box, p)) = Heard(Head(box), p)
<1> DEFINE h == HeardBy(box, p)
           l == HeardBy(Tail(box), p)
           r == Tail(h)
<1>1. /\ h \in Seq(Down) /\ h # <<>> /\ Len(h) = Len(box) /\ DOMAIN h = DOMAIN box
      /\ \A i \in DOMAIN box : h[i] = Heard(box[i], p)
  BY HeardFacts
<1>2. /\ Tail(box) \in Seq(Cast) /\ Len(Tail(box)) = Len(box) - 1
      /\ Len(box) \in Nat /\ Len(box) > 0
      /\ \A i \in DOMAIN Tail(box) : i + 1 \in DOMAIN box /\ Tail(box)[i] = box[i + 1]
      /\ 1 \in DOMAIN box /\ Head(box) = box[1]
  BY Tailed, QueueFacts
<1>3. /\ l \in Seq(Down) /\ Len(l) = Len(box) - 1 /\ DOMAIN l = DOMAIN Tail(box)
      /\ \A i \in DOMAIN Tail(box) : l[i] = Heard(box[i + 1], p)
  BY ZenonT(60), <1>2, HeardFacts
<1>4. /\ r \in Seq(Down) /\ Len(r) = Len(box) - 1
      /\ \A i \in DOMAIN r : i + 1 \in DOMAIN h /\ r[i] = h[i + 1]
      /\ Head(h) = h[1]
  BY <1>1, Tailed, QueueFacts
<1> HIDE DEF h, l, r
<1>5. DOMAIN l = 1..Len(l) /\ DOMAIN r = 1..Len(r)
  BY <1>3, <1>4
<1>6. \A i \in 1..Len(l) : l[i] = r[i]
  BY <1>1, <1>3, <1>4, <1>5
<1>7. l = r
  BY <1>3, <1>4, <1>6, SeqEqual
<1>8. Head(h) = Heard(Head(box), p)
  BY <1>1, <1>2, <1>4
<1> QED BY <1>7, <1>8 DEF h, l, r

-----------------------------------------------------------------------------
\* Types.
LEMMA WorldTypes ==
  WorldTypeOK <=>
    /\ exists \subseteq Key
    /\ owner \in [Key -> Player \cup {None}]
    /\ value \in [Key -> Value \cup {None}]
    /\ \A k \in Key \ exists : owner[k] = None /\ value[k] = None
    /\ worldLink \in [Player -> {"up", "down", "evicted"}]
    /\ mirrorOwner \in [Player -> [Key -> Player \cup {None}]]
    /\ mirrorValue \in [Player -> [Key -> Value \cup {None}]]
    /\ driven \in [Player -> Sim \cup {None}]
    /\ inFlight \in [Player -> SUBSET Key] /\ denied \in [Player -> SUBSET Key]
    /\ dropped \in [Player -> SUBSET Key] /\ unheard \in [Player -> SUBSET Key]
    /\ astray \in [Player -> SUBSET Key] /\ stranded \in [Player -> SUBSET Key]
    /\ shut \in [Player -> SUBSET Key]
    /\ moves \in 0..MaxMoves
BY DEF WorldTypeOK

LEMMA Taken ==
  ASSUME NetTypeOK, NEW p \in Player, NEW type, Take(p, type)
  PROVE  /\ Head(worldWire[p]) \in Request /\ Head(worldWire[p]).type = type
         /\ Up(p) /\ worldLink' = worldLink /\ lateWire' = lateWire
         /\ worldWire[p] \in Seq(Request) /\ worldWire[p] # <<>>
         /\ worldWire' \in [Player -> Seq(Request)]
         /\ worldWire'[p] = Tail(worldWire[p])
         /\ \A q \in Player \ {p} : worldWire'[q] = worldWire[q]
<1>1. /\ worldWire \in [Player -> Seq(Request)] /\ worldWire[p] # <<>>
      /\ worldWire' = [worldWire EXCEPT ![p] = Tail(@)]
      /\ Head(worldWire[p]).type = type
  BY DEF NetTypeOK, Take
<1>2. Head(worldWire[p]) \in Request /\ Tail(worldWire[p]) \in Seq(Request)
  BY <1>1, QueueFacts, Tailed
<1> QED BY <1>1, <1>2 DEF Take

\* A frame of a broken connection: the reading goes on, or ends.
LEMMA TakenLate ==
  ASSUME NetTypeOK, NEW p \in Player, NEW type, TakeLate(p, type)
  PROVE  /\ Head(lateWire[p]) \in Request /\ Head(lateWire[p]).type = type
         /\ worldLink' = worldLink /\ worldWire' = worldWire /\ inbox' = inbox
         /\ ReadsOn(p) => lateWire' \in [Player -> Seq(Request)]
         /\ HangsUp(p) => lateWire' \in [Player -> Seq(Request)] /\ outbox' = outbox
<1>1. /\ lateWire \in [Player -> Seq(Request)] /\ lateWire[p] # <<>>
      /\ Head(lateWire[p]).type = type
  BY DEF NetTypeOK, TakeLate
<1>2. Head(lateWire[p]) \in Request /\ Tail(lateWire[p]) \in Seq(Request) /\ <<>> \in Seq(Request)
  BY <1>1, QueueFacts, Tailed
<1>3. ReadsOn(p) => lateWire' \in [Player -> Seq(Request)]
  BY <1>1, <1>2 DEF ReadsOn
<1>4. HangsUp(p) => lateWire' \in [Player -> Seq(Request)] /\ outbox' = outbox
  BY <1>1, <1>2 DEF HangsUp
<1> QED BY <1>1, <1>2, <1>3, <1>4 DEF TakeLate

LEMMA Replied ==
  ASSUME NetTypeOK, NEW p \in Player, NEW f \in Down, Reply(p, f)
  PROVE  /\ inbox' \in [Player -> Seq(Down)]
         /\ inbox'[p] = Append(inbox[p], f) /\ inbox[p] \in Seq(Down)
         /\ \A q \in Player \ {p} : inbox'[q] = inbox[q]
<1>1. inbox \in [Player -> Seq(Down)] /\ inbox' = [inbox EXCEPT ![p] = Append(@, f)]
  BY DEF NetTypeOK, Reply
<1>2. Append(inbox[p], f) \in Seq(Down)
  BY <1>1, Appended
<1> QED BY <1>1, <1>2

\* The broadcast of a handler.
LEMMA Broadcasts ==
  ASSUME NetTypeOK, NEW p \in Player, NEW f \in Down, Broadcast(p, f),
         worldLink \in [Player -> {"up", "down", "evicted"}]
  PROVE  /\ outbox' \in Seq(Cast)
         /\ \A i \in DOMAIN outbox' :
              \/ i \in DOMAIN outbox /\ outbox'[i] = outbox[i]
              \/ outbox'[i].frame = f /\ outbox'[i].to \subseteq {q \in Player : Up(q)}
         /\ \A q \in Player : q # p /\ Up(q) => HeardBy(outbox', q) = Append(HeardBy(outbox, q), f)
         /\ HeardBy(outbox', p) = Append(HeardBy(outbox, p), Blank)
<1> DEFINE b == [from |-> p, to |-> {q \in Player \ {p} : Up(q)}, frame |-> f]
<1>1. b \in Cast /\ outbox \in Seq(Cast) /\ outbox' = Append(outbox, b)
  BY DEF NetTypeOK, Broadcast, Cast
<1>2. b.frame = f /\ b.to = {q \in Player \ {p} : Up(q)}
  OBVIOUS
<1> HIDE DEF b
<1>3. /\ outbox' \in Seq(Cast)
      /\ DOMAIN outbox' = DOMAIN outbox \cup {Len(outbox) + 1}
      /\ \A i \in DOMAIN outbox : outbox'[i] = outbox[i]
      /\ outbox'[Len(outbox) + 1] = b
  BY <1>1, Appended
<1>4. \A q \in Player : HeardBy(outbox', q) = Append(HeardBy(outbox, q), Heard(b, q))
  BY <1>1, HeardAppend
<1>5. \A q \in Player : q # p /\ Up(q) => Heard(b, q) = f
  BY <1>2 DEF Heard
<1>6. Heard(b, p) = Blank
  BY <1>2 DEF Heard
<1> QED BY <1>2, <1>3, <1>4, <1>5, <1>6

\* A handler leaves the network as it should be.
LEMMA HandlerNet ==
  ASSUME Base, NEW p \in Player, NEW type,
         Take(p, type) \/ (TakeLate(p, type) /\ (ReadsOn(p) \/ HangsUp(p))),
         inbox' \in [Player -> Seq(Down)], \A q \in Player \ {p} : inbox'[q] = inbox[q],
         stranded' = stranded,
         \/ outbox' = outbox
         \/ \E f \in Down : f.type \in {"OWNER", "DELTA", "GONE"} /\ Broadcast(p, f)
  PROVE  NetTypeOK' /\ Away' /\ Casting'
<1>1. NetTypeOK /\ Away /\ Casting /\ worldLink \in [Player -> {"up", "down", "evicted"}]
  BY WorldTypes DEF Base
<1>2. /\ worldLink' = worldLink /\ inFlight' = inFlight
      /\ worldWire' \in [Player -> Seq(Request)] /\ lateWire' \in [Player -> Seq(Request)]
      /\ \A q \in Player \ {p} : worldWire'[q] = worldWire[q] /\ inbox'[q] = inbox[q]
      /\ Up(p) \/ (worldWire'[p] = worldWire[p] /\ inbox'[p] = inbox[p])
  <2>1. CASE Take(p, type)
    BY <1>1, <2>1, Taken DEF Take, claimState, NetTypeOK
  <2>2. CASE TakeLate(p, type) /\ (ReadsOn(p) \/ HangsUp(p))
    BY <1>1, <2>2, TakenLate DEF TakeLate, claimState, NetTypeOK
  <2> QED BY <2>1, <2>2
<1>3. \A q \in Player : Up(q)' <=> Up(q)
  BY <1>2 DEF Up
<1>4. Away'
  BY <1>1, <1>2, <1>3 DEF Away
<1>5. outbox' \in Seq(Cast) /\ Casting'
  <2>1. CASE outbox' = outbox
    BY <1>1, <1>3, <2>1 DEF NetTypeOK, Casting
  <2>2. CASE \E f \in Down : f.type \in {"OWNER", "DELTA", "GONE"} /\ Broadcast(p, f)
    <3>1. PICK f \in Down : f.type \in {"OWNER", "DELTA", "GONE"} /\ Broadcast(p, f)
      BY <2>2
    <3>2. /\ outbox' \in Seq(Cast)
          /\ \A i \in DOMAIN outbox' :
               \/ i \in DOMAIN outbox /\ outbox'[i] = outbox[i]
               \/ outbox'[i].frame = f /\ outbox'[i].to \subseteq {q \in Player : Up(q)}
      BY <1>1, <3>1, Broadcasts
    <3>3. {q \in Player : Up(q)}' = {q \in Player : Up(q)}
      BY <1>2 DEF Up
    <3> QED BY <1>1, <3>1, <3>2, <3>3 DEF Casting
  <2> QED BY <2>1, <2>2
<1> QED BY <1>2, <1>4, <1>5 DEF NetTypeOK

LEMMA Applied ==
  ASSUME Base, NEW p \in Player, NEW type, Apply(p, type)
  PROVE  /\ Head(inbox[p]) \in Down /\ Head(inbox[p]).type = type
         /\ Up(p) /\ worldLink' = worldLink /\ outbox' = outbox /\ outbox = <<>>
         /\ lateWire' = lateWire
         /\ inbox[p] \in Seq(Down) /\ inbox[p] # <<>>
         /\ inbox' \in [Player -> Seq(Down)]
         /\ inbox'[p] = Tail(inbox[p])
         /\ \A q \in Player \ {p} : inbox'[q] = inbox[q]
<1>1. /\ inbox \in [Player -> Seq(Down)] /\ inbox[p] # <<>>
      /\ inbox' = [inbox EXCEPT ![p] = Tail(@)]
      /\ Head(inbox[p]).type = type
  BY DEF Base, NetTypeOK, Apply
<1>2. Head(inbox[p]) \in Down /\ Tail(inbox[p]) \in Seq(Down)
  BY <1>1, QueueFacts, Tailed
<1> QED BY <1>1, <1>2 DEF Apply, BetweenTurns

LEMMA ReadingNet ==
  ASSUME Base, NEW p \in Player, NEW type, Apply(p, type),
         worldWire' \in [Player -> Seq(Request)], \A q \in Player \ {p} : worldWire'[q] = worldWire[q],
         \A q \in Player \ {p} : inFlight'[q] = inFlight[q],
         stranded' = stranded
  PROVE  NetTypeOK' /\ Away' /\ Casting'
<1>1. NetTypeOK /\ Away /\ Casting
  BY DEF Base
<1>2. /\ worldLink' = worldLink /\ outbox' = outbox /\ lateWire' = lateWire /\ Up(p)
      /\ inbox' \in [Player -> Seq(Down)]
      /\ \A q \in Player \ {p} : inbox'[q] = inbox[q]
  BY Applied
<1>3. \A q \in Player : Up(q)' <=> Up(q)
  BY <1>2 DEF Up
<1>4. Away'
  BY <1>1, <1>2, <1>3 DEF Away
<1>5. Casting'
  BY <1>1, <1>2, <1>3 DEF Casting
<1> QED BY <1>1, <1>2, <1>4, <1>5 DEF NetTypeOK

\* A player sends.
LEMMA Sending ==
  ASSUME NetTypeOK, NEW p \in Player, NEW frames \in Seq(Request), Send(p, frames)
  PROVE  /\ worldWire' \in [Player -> Seq(Request)]
         /\ worldWire'[p] = worldWire[p] \o frames /\ worldWire[p] \in Seq(Request)
         /\ \A q \in Player \ {p} : worldWire'[q] = worldWire[q]
<1>1. worldWire \in [Player -> Seq(Request)] /\ worldWire' = [worldWire EXCEPT ![p] = @ \o frames]
  BY DEF NetTypeOK, Send
<1>2. worldWire[p] \o frames \in Seq(Request)
  BY <1>1, ConcatProperties
<1> QED BY <1>1, <1>2

LEMMA SamplingNet ==
  ASSUME Base, NEW p \in Player, Up(p), outbox = <<>>,
         worldLink' = worldLink, lateWire' = lateWire, inbox' = inbox, outbox' = outbox,
         stranded' = stranded,
         worldWire' \in [Player -> Seq(Request)], \A q \in Player \ {p} : worldWire'[q] = worldWire[q],
         \A q \in Player \ {p} : inFlight'[q] = inFlight[q]
  PROVE  NetTypeOK' /\ Away' /\ Casting'
<1>1. NetTypeOK /\ Away /\ Casting
  BY DEF Base
<1>3. \A q \in Player : Up(q)' <=> Up(q)
  BY DEF Up
<1>4. Away'
  BY <1>1, <1>3 DEF Away
<1>5. Casting'
  BY <1>1, <1>3 DEF Casting
<1> QED BY <1>1, <1>4, <1>5 DEF NetTypeOK

-----------------------------------------------------------------------------
\* Each action keeps Base.
LEMMA SampleFrames ==
  ASSUME WorldTypeOK, NEW p \in Player, NEW active, NEW edited, NEW fields \in [Key -> Value]
  PROVE  /\ Released(p, active) \in Seq(Request)
         /\ Mine(p) \subseteq Key /\ Claimable(p, active, edited) \subseteq Key
         /\ \A k \in Key : Claims(p, k) \in Seq(Request)
         /\ Message("UPDATE", None, None, [k \in Mine(p) |-> fields[k]]) \in Request
<1>1. Mine(p) \subseteq Key /\ Claimable(p, active, edited) \subseteq Key
  BY DEF Mine, Claimable
<1>2. \A k \in Key : Claims(p, k) \in Seq(Request)
  BY Requests DEF Claims
<1>3. Released(p, active) \in Seq(Request)
  <2>1. CASE driven[p] # active /\ driven[p] \in Mine(p)
    <3>1. Message("RELEASE", driven[p], None, Nothing) \in Request
      BY <1>1, <2>1, Requests
    <3> QED BY <2>1, <3>1 DEF Released
  <2>2. CASE ~(driven[p] # active /\ driven[p] \in Mine(p))
    BY <2>2 DEF Released
  <2> QED BY <2>1, <2>2
<1>4. [k \in Mine(p) |-> fields[k]] \in [Mine(p) -> Value]
  BY <1>1
<1>5. Message("UPDATE", None, None, [k \in Mine(p) |-> fields[k]]) \in Request
  BY <1>1, <1>4, UpdateRequest
<1> QED BY <1>1, <1>2, <1>3, <1>5

\* What a tick sends, and the claims it leaves open.
LEMMA SampleSends ==
  ASSUME Base, NEW p \in Player, NEW active, NEW edited,
         NEW fields \in [Key -> Value], SampleTick(p, active, edited, fields)
  PROVE  /\ worldWire' \in [Player -> Seq(Request)]
         /\ \A q \in Player \ {p} : worldWire'[q] = worldWire[q] /\ inFlight'[q] = inFlight[q]
         /\ inFlight' \in [Player -> SUBSET Key]
         /\ \E frames \in Seq(Request) : worldWire'[p] = worldWire[p] \o frames
         /\ \A k \in inFlight'[p] \ inFlight[p] : Sent(p, "CLAIM", k)'
<1> DEFINE claim == Claimable(p, active, edited)
           update == Message("UPDATE", None, None, [k \in Mine(p) |-> fields[k]])
           updates == IF Mine(p) = {} THEN <<>> ELSE <<update>>
<1>1. /\ Released(p, active) \in Seq(Request) /\ claim \subseteq Key
      /\ \A k \in Key : Claims(p, k) \in Seq(Request)
      /\ update \in Request
  BY SampleFrames DEF Base
<1>2. updates \in Seq(Request)
  BY <1>1
<1>3. /\ inFlight \in [Player -> SUBSET Key] /\ NetTypeOK
  BY WorldTypes DEF Base
<1>4. \/ Send(p, Released(p, active) \o updates) /\ inFlight' = inFlight
      \/ \E k \in claim :
           /\ Send(p, Released(p, active) \o Claims(p, k) \o updates)
           /\ inFlight' = [inFlight EXCEPT ![p] = @ \cup {k}]
  BY DEF SampleTick
<1> HIDE DEF updates, update, claim
<1>5. CASE Send(p, Released(p, active) \o updates) /\ inFlight' = inFlight
  <2>1. Released(p, active) \o updates \in Seq(Request)
    BY <1>1, <1>2, ConcatProperties
  <2> QED BY <1>3, <1>5, <2>1, Sending
<1>6. CASE \E k \in claim :
             /\ Send(p, Released(p, active) \o Claims(p, k) \o updates)
             /\ inFlight' = [inFlight EXCEPT ![p] = @ \cup {k}]
  <2>1. PICK k \in claim :
             /\ Send(p, Released(p, active) \o Claims(p, k) \o updates)
             /\ inFlight' = [inFlight EXCEPT ![p] = @ \cup {k}]
    BY <1>6
  <2> DEFINE rel == Released(p, active)
             rc == rel \o Claims(p, k)
             frames == rc \o updates
             n == Len(worldWire[p]) + Len(rel) + 1
  <2>2. k \in Key /\ Claims(p, k) = <<Message("CLAIM", k, None, Nothing)>>
    BY <1>1 DEF Claims
  <2>3. /\ rc \in Seq(Request) /\ Len(rc) = Len(rel) + 1 /\ Len(rel) \in Nat
        /\ rc[Len(rel) + 1] = Message("CLAIM", k, None, Nothing)
    <3>1. Claims(p, k) \in Seq(Request) /\ Len(Claims(p, k)) = 1
      BY <1>1, <2>2
    <3>2. Claims(p, k)[1] = Message("CLAIM", k, None, Nothing)
      BY <2>2
    <3>3. /\ rc \in Seq(Request) /\ Len(rc) = Len(rel) + 1 /\ Len(rel) \in Nat
          /\ \A i \in 1..Len(rel) + 1 : rc[i] = IF i <= Len(rel) THEN rel[i] ELSE Claims(p, k)[i - Len(rel)]
      BY <1>1, <3>1, ConcatProperties, QueueFacts
    <3> HIDE DEF rc, rel
    <3> QED BY <3>2, <3>3
  <2>4. /\ frames \in Seq(Request) /\ Len(frames) >= Len(rel) + 1 /\ Len(frames) \in Nat
        /\ frames[Len(rel) + 1] = Message("CLAIM", k, None, Nothing)
    <3> HIDE DEF rc, rel
    <3>1. /\ frames \in Seq(Request) /\ Len(frames) = Len(rc) + Len(updates) /\ Len(updates) \in Nat
          /\ \A i \in 1..Len(rc) + Len(updates) :
               frames[i] = IF i <= Len(rc) THEN rc[i] ELSE updates[i - Len(rc)]
      BY <1>2, <2>3, ConcatProperties, QueueFacts
    <3> HIDE DEF frames
    <3> QED BY <2>3, <3>1
  <2> HIDE DEF frames
  <2>5. /\ worldWire' \in [Player -> Seq(Request)]
        /\ worldWire'[p] = worldWire[p] \o frames /\ worldWire[p] \in Seq(Request)
        /\ \A q \in Player \ {p} : worldWire'[q] = worldWire[q]
    BY <1>3, <2>1, <2>4, Sending DEF frames
  <2>6. n \in DOMAIN worldWire'[p] /\ worldWire'[p][n] = Message("CLAIM", k, None, Nothing)
    <3> DEFINE w == worldWire[p]
               w2 == worldWire'[p]
    <3>1. /\ w2 \in Seq(Request) /\ Len(w2) = Len(w) + Len(frames) /\ Len(w) \in Nat
          /\ \A i \in 1..Len(w) + Len(frames) : w2[i] = IF i <= Len(w) THEN w[i] ELSE frames[i - Len(w)]
          /\ DOMAIN w2 = 1..Len(w2)
      BY <2>4, <2>5, ConcatProperties, QueueFacts
    <3> HIDE DEF w, w2, rel
    <3>2. Len(w) + Len(rel) + 1 \in 1..Len(w) + Len(frames)
      BY <2>3, <2>4, <3>1
    <3>3. w2[Len(w) + Len(rel) + 1] = frames[Len(rel) + 1]
      BY <2>3, <2>4, <3>1, <3>2
    <3> QED BY <2>4, <3>1, <3>2, <3>3 DEF w, w2
  <2>7. Sent(p, "CLAIM", k)'
    <3>1. Message("CLAIM", k, None, Nothing).type = "CLAIM" /\ Message("CLAIM", k, None, Nothing).key = k
      BY DEF Message
    <3> HIDE DEF n
    <3> QED BY <2>6, <3>1 DEF Sent
  <2> QED BY <1>3, <2>1, <2>2, <2>4, <2>5, <2>7
<1> QED BY <1>4, <1>5, <1>6

LEMMA SampleBase ==
  ASSUME Base, NEW p \in Player, NEW active \in Sim \cup {None}, NEW edited,
         NEW fields \in [Key -> Value], SampleTick(p, active, edited, fields)
  PROVE  Base'
<1>1. /\ worldWire' \in [Player -> Seq(Request)]
      /\ \A q \in Player \ {p} : worldWire'[q] = worldWire[q] /\ inFlight'[q] = inFlight[q]
      /\ inFlight' \in [Player -> SUBSET Key]
  BY SampleSends
<1>2. /\ Up(p) /\ outbox = <<>> /\ worldLink' = worldLink /\ inbox' = inbox /\ outbox' = outbox
      /\ lateWire' = lateWire /\ stranded' = stranded
  BY DEF SampleTick, Move, BetweenTurns, worldHistory
<1>3. NetTypeOK' /\ Away' /\ Casting'
  BY <1>1, <1>2, SamplingNet
<1>4. moves' \in 0..MaxMoves
  BY WorldTypes, Constants DEF Base, SampleTick, Move
<1>5. driven' \in [Player -> Sim \cup {None}]
  BY WorldTypes DEF Base, SampleTick
<1>6. UNCHANGED <<catalog, worldLink, mirror, denied, dropped, worldHistory>>
  BY DEF SampleTick
<1>7. WorldTypeOK'
  BY <1>1, <1>4, <1>5, <1>6, WorldTypes DEF Base, WorldTypeOK, catalog, mirror, worldHistory
<1> QED BY <1>3, <1>7 DEF Base

LEMMA ObjectGoneBase ==
  ASSUME Base, NEW p \in Player, NEW k \in Key, ObjectGone(p, k)
  PROVE  Base'
<1>1. <<Message("GONE", k, None, Nothing)>> \in Seq(Request)
  BY Requests
<1>2. /\ worldWire' \in [Player -> Seq(Request)]
      /\ \A q \in Player \ {p} : worldWire'[q] = worldWire[q]
  BY <1>1, Sending DEF Base, ObjectGone
<1>3. /\ Up(p) /\ outbox = <<>> /\ worldLink' = worldLink /\ inbox' = inbox /\ outbox' = outbox
      /\ lateWire' = lateWire /\ stranded' = stranded /\ inFlight' = inFlight
  BY DEF ObjectGone, Move, BetweenTurns, worldHistory, claimState
<1>4. NetTypeOK' /\ Away' /\ Casting'
  BY <1>2, <1>3, SamplingNet
<1>5. moves' \in 0..MaxMoves
  BY WorldTypes, Constants DEF Base, ObjectGone, Move
<1>6. /\ mirrorOwner' \in [Player -> [Key -> Player \cup {None}]]
      /\ mirrorValue' \in [Player -> [Key -> Value \cup {None}]]
  BY WorldTypes DEF Base, ObjectGone
<1>7. UNCHANGED <<catalog, worldLink, claimState, worldHistory>>
  BY DEF ObjectGone
<1>8. WorldTypeOK'
  BY <1>5, <1>6, <1>7, WorldTypes DEF Base, WorldTypeOK, catalog, claimState, worldHistory
<1> QED BY <1>4, <1>8 DEF Base

\* What a client has after it has read.
LEMMA ApplyOwnerBase ==
  ASSUME Base, NEW p \in Player, ApplyOwner(p)
  PROVE  Base'
<1>1. Apply(p, "OWNER")
  BY DEF ApplyOwner
<1>2. Head(inbox[p]).key \in Key /\ Head(inbox[p]).owner \in Player \cup {None}
  BY <1>1, Applied, DownFacts
<1>3. worldWire' \in [Player -> Seq(Request)] /\ worldWire' = worldWire /\ stranded' = stranded
  BY DEF ApplyOwner, Base, NetTypeOK, worldHistory
<1>4. \A q \in Player \ {p} : inFlight'[q] = inFlight[q]
  BY WorldTypes DEF ApplyOwner, Base
<1>5. NetTypeOK' /\ Away' /\ Casting'
  BY <1>1, <1>3, <1>4, ReadingNet
<1>6. /\ mirrorOwner' \in [Player -> [Key -> Player \cup {None}]]
      /\ inFlight' \in [Player -> SUBSET Key] /\ denied' \in [Player -> SUBSET Key]
  BY <1>2, WorldTypes DEF ApplyOwner, Base, Noted
<1>7. UNCHANGED <<catalog, worldLink, driven, moves, mirrorValue, dropped, worldHistory>>
  BY <1>1 DEF ApplyOwner, Apply
<1>8. WorldTypeOK'
  BY <1>6, <1>7, WorldTypes DEF Base, WorldTypeOK, catalog, worldHistory
<1> QED BY <1>5, <1>8 DEF Base

LEMMA ApplyDeltaBase ==
  ASSUME Base, NEW p \in Player, ApplyDelta(p)
  PROVE  Base'
<1>1. Apply(p, "DELTA")
  BY DEF ApplyDelta
<1>2. /\ DOMAIN Head(inbox[p]).values \subseteq Key
      /\ \A k \in DOMAIN Head(inbox[p]).values : Head(inbox[p]).values[k] \in Value \cup {None}
  BY <1>1, Applied, DeltaFacts
<1>3. /\ worldWire' \in [Player -> Seq(Request)] /\ worldWire' = worldWire
      /\ stranded' = stranded /\ inFlight' = inFlight
  BY DEF ApplyDelta, Base, NetTypeOK, worldHistory
<1>5. NetTypeOK' /\ Away' /\ Casting'
  BY <1>1, <1>3, ReadingNet
<1>6. mirrorValue' \in [Player -> [Key -> Value \cup {None}]]
  <2>1. mirrorValue \in [Player -> [Key -> Value \cup {None}]]
    BY WorldTypes DEF Base
  <2>2. Merged(p, Head(inbox[p]).values) \in [Key -> Value \cup {None}]
    BY <1>2, <2>1 DEF Merged
  <2> QED BY <2>1, <2>2 DEF ApplyDelta
<1>7. UNCHANGED <<catalog, worldLink, driven, moves, mirrorOwner, inFlight, denied, dropped, worldHistory>>
  BY <1>1 DEF ApplyDelta, Apply
<1>8. WorldTypeOK'
  BY <1>6, <1>7, WorldTypes DEF Base, WorldTypeOK, catalog, worldHistory
<1> QED BY <1>5, <1>8 DEF Base

LEMMA ApplyGoneBase ==
  ASSUME Base, NEW p \in Player, ApplyGone(p)
  PROVE  Base'
<1>1. Apply(p, "GONE")
  BY DEF ApplyGone
<1>2. Head(inbox[p]).key \in Key
  BY <1>1, Applied, DownFacts
<1>3. /\ worldWire' \in [Player -> Seq(Request)] /\ worldWire' = worldWire
      /\ stranded' = stranded /\ inFlight' = inFlight
  BY DEF ApplyGone, Base, NetTypeOK, worldHistory
<1>5. NetTypeOK' /\ Away' /\ Casting'
  BY <1>1, <1>3, ReadingNet
<1>6. /\ mirrorOwner' \in [Player -> [Key -> Player \cup {None}]]
      /\ mirrorValue' \in [Player -> [Key -> Value \cup {None}]]
  BY <1>2, WorldTypes DEF ApplyGone, Base
<1>7. UNCHANGED <<catalog, worldLink, driven, moves, inFlight, denied, dropped, worldHistory>>
  BY <1>1 DEF ApplyGone, Apply
<1>8. WorldTypeOK'
  BY <1>6, <1>7, WorldTypes DEF Base, WorldTypeOK, catalog, worldHistory
<1> QED BY <1>5, <1>8 DEF Base

LEMMA ApplyLockedBase ==
  ASSUME Base, NEW p \in Player, ApplyLocked(p)
  PROVE  Base'
<1>1. Apply(p, "LOCKED")
  BY DEF ApplyLocked
<1>2. Head(inbox[p]).key \in Key
  BY <1>1, Applied, DownFacts
<1>3. worldWire' \in [Player -> Seq(Request)] /\ worldWire' = worldWire /\ stranded' = stranded
  BY DEF ApplyLocked, Base, NetTypeOK, worldHistory
<1>4. \A q \in Player \ {p} : inFlight'[q] = inFlight[q]
  BY WorldTypes DEF ApplyLocked, Base, Answered
<1>5. NetTypeOK' /\ Away' /\ Casting'
  BY <1>1, <1>3, <1>4, ReadingNet
<1>6. inFlight' \in [Player -> SUBSET Key] /\ denied' \in [Player -> SUBSET Key]
  BY <1>2, WorldTypes DEF ApplyLocked, Base, Answered
<1>7. UNCHANGED <<catalog, worldLink, driven, moves, mirror, dropped, worldHistory>>
  BY <1>1 DEF ApplyLocked, Apply
<1>8. WorldTypeOK'
  BY <1>6, <1>7, WorldTypes DEF Base, WorldTypeOK, catalog, mirror, worldHistory
<1> QED BY <1>5, <1>8 DEF Base

LEMMA ApplyNotFoundBase ==
  ASSUME Base, NEW p \in Player, ApplyNotFound(p)
  PROVE  Base'
<1>1. Apply(p, "NOT_FOUND")
  BY DEF ApplyNotFound
<1>3. /\ worldWire' \in [Player -> Seq(Request)] /\ worldWire' = worldWire
      /\ stranded' = stranded /\ inFlight' = inFlight
  BY DEF ApplyNotFound, Base, NetTypeOK, worldHistory
<1>5. NetTypeOK' /\ Away' /\ Casting'
  BY <1>1, <1>3, ReadingNet
<1>7. UNCHANGED <<catalog, worldLink, driven, moves, mirror, inFlight, denied, dropped, worldHistory>>
  BY <1>1 DEF ApplyNotFound, Apply
<1>8. WorldTypeOK'
  BY <1>7, WorldTypes DEF Base, WorldTypeOK, catalog, mirror, worldHistory
<1> QED BY <1>5, <1>8 DEF Base

\* The claims that are sent again, and the keys that are freed, one after another.
LEMMA Listed ==
  ASSUME NEW K \in SUBSET Key, NEW s \in [1..Cardinality(K) -> K]
  PROVE  /\ Cardinality(K) \in Nat
         /\ [i \in DOMAIN s |-> Message("CLAIM", s[i], None, Nothing)] \in Seq(Request)
<1>1. Cardinality(K) \in Nat
  BY FS_CardinalityType, FS_Subset, Constants
<1>2. \A i \in 1..Cardinality(K) : Message("CLAIM", s[i], None, Nothing) \in Request
  BY Requests
<1>3. [i \in DOMAIN s |-> Message("CLAIM", s[i], None, Nothing)] \in [1..Cardinality(K) -> Request]
  BY <1>2
<1> QED BY <1>1, <1>3

LEMMA ApplyStateBase ==
  ASSUME Base, NEW p \in Player, ApplyState(p)
  PROVE  /\ Base'
         /\ \E frames \in Seq(Request) : worldWire'[p] = worldWire[p] \o frames
         /\ worldWire[p] \in Seq(Request)
<1> DEFINE f == Head(inbox[p])
           again == {k \in dropped[p] : f.owner[k] \in {None, p}}
<1>1. Apply(p, "STATE")
  BY DEF ApplyState
<1>2. f.owner \in [Key -> Player \cup {None}] /\ f.values \in [Key -> Value \cup {None}]
  BY <1>1, Applied, DownFacts
<1>3. again \in SUBSET Key
  BY WorldTypes DEF Base
<1>4. PICK s \in [1..Cardinality(again) -> again] :
        worldWire' = [worldWire EXCEPT ![p] = @ \o [i \in DOMAIN s |-> Message("CLAIM", s[i], None, Nothing)]]
  BY DEF ApplyState
<1>5. [i \in DOMAIN s |-> Message("CLAIM", s[i], None, Nothing)] \in Seq(Request)
  BY <1>3, <1>4, Listed
<1> DEFINE frames == [i \in DOMAIN s |-> Message("CLAIM", s[i], None, Nothing)]
<1> HIDE DEF again, frames
<1>6. worldWire \in [Player -> Seq(Request)] /\ frames \in Seq(Request)
      /\ worldWire' = [worldWire EXCEPT ![p] = @ \o frames]
  BY <1>4, <1>5 DEF Base, NetTypeOK, frames
<1>7. worldWire[p] \o frames \in Seq(Request) /\ worldWire[p] \in Seq(Request)
  BY <1>6, ConcatProperties
<1>8. /\ worldWire' \in [Player -> Seq(Request)] /\ worldWire'[p] = worldWire[p] \o frames
      /\ \A q \in Player \ {p} : worldWire'[q] = worldWire[q]
  BY <1>6, <1>7
<1>9. NetTypeOK' /\ Away' /\ Casting'
  BY <1>1, <1>8, ReadingNet DEF ApplyState, worldHistory
<1>10. /\ mirrorOwner' \in [Player -> [Key -> Player \cup {None}]]
       /\ mirrorValue' \in [Player -> [Key -> Value \cup {None}]]
       /\ dropped' \in [Player -> SUBSET Key]
  BY <1>2, WorldTypes DEF ApplyState, Base
<1>11. UNCHANGED <<catalog, worldLink, driven, moves, inFlight, denied, worldHistory>>
  BY <1>1 DEF ApplyState, Apply
<1>12. WorldTypeOK'
  BY <1>10, <1>11, WorldTypes DEF Base, WorldTypeOK, catalog, worldHistory
<1> QED BY <1>6, <1>7, <1>8, <1>9, <1>12 DEF Base

\* The server's handlers.
LEMMA ServeClaimBase ==
  ASSUME Base, NEW p \in Player, ServeClaim(p)
  PROVE  Base'
<1> DEFINE k == Head(worldWire[p]).key
           f == Message("OWNER", k, p, Nothing)
<1>1. Take(p, "CLAIM") /\ Reply(p, f) /\ Broadcast(p, f) /\ stranded' = stranded
  BY DEF ServeClaim
<1>2. k \in Key
  BY <1>1, Taken, RequestFacts DEF Base
<1>3. f \in Down /\ f.type = "OWNER"
  BY <1>2, DownFrames DEF Message
<1> HIDE DEF f, k
<1>4. inbox' \in [Player -> Seq(Down)] /\ \A q \in Player \ {p} : inbox'[q] = inbox[q]
  BY <1>1, <1>3, Replied DEF Base
<1>5. NetTypeOK' /\ Away' /\ Casting'
  BY <1>1, <1>3, <1>4, HandlerNet
<1>6. /\ exists' = exists \cup {k} /\ owner' = [owner EXCEPT ![k] = p]
      /\ astray' = Told(p, k)
      /\ UNCHANGED <<value, unheard, stranded, shut>>
  BY DEF ServeClaim, Created, k
<1>7. UNCHANGED <<worldLink, mirror, claimState, moves>>
  BY <1>1 DEF Take
<1>8. Told(p, k) \in [Player -> SUBSET Key]
  BY <1>2, WorldTypes DEF Base, Told
<1>9. WorldTypeOK'
  BY <1>2, <1>6, <1>7, <1>8, WorldTypes DEF Base, WorldTypeOK, mirror, claimState
<1> QED BY <1>5, <1>9 DEF Base

LEMMA RefuseClaimBase ==
  ASSUME Base, NEW p \in Player, RefuseClaim(p)
  PROVE  Base'
<1> DEFINE k == Head(worldWire[p]).key
           f == Message("LOCKED", k, None, Nothing)
<1>1. Take(p, "CLAIM") /\ Reply(p, f) /\ stranded' = stranded /\ outbox' = outbox
  BY DEF RefuseClaim, worldHistory
<1>2. k \in Key
  BY <1>1, Taken, RequestFacts DEF Base
<1>3. f \in Down
  BY <1>2, DownFrames
<1> HIDE DEF f, k
<1>4. inbox' \in [Player -> Seq(Down)] /\ \A q \in Player \ {p} : inbox'[q] = inbox[q]
  BY <1>1, <1>3, Replied DEF Base
<1>5. NetTypeOK' /\ Away' /\ Casting'
  BY <1>1, <1>4, HandlerNet
<1>6. UNCHANGED <<catalog, worldHistory, worldLink, mirror, claimState, moves>>
  BY <1>1 DEF Take, RefuseClaim
<1>7. WorldTypeOK'
  BY <1>6, WorldTypes DEF Base, WorldTypeOK, catalog, worldHistory, mirror, claimState
<1> QED BY <1>5, <1>7 DEF Base

LEMMA ServeReleaseBase ==
  ASSUME Base, NEW p \in Player, ServeRelease(p)
  PROVE  Base'
<1> DEFINE k == Head(worldWire[p]).key
           free == Message("OWNER", k, None, Nothing)
           kept == Message("OWNER", k, owner[k], Nothing)
<1>1. Take(p, "RELEASE") /\ UNCHANGED <<exists, value, unheard, stranded>>
  BY DEF ServeRelease
<1>2. k \in Key
  BY <1>1, Taken, RequestFacts DEF Base
<1>3. UNCHANGED <<worldLink, mirror, claimState, moves>>
  BY <1>1 DEF Take
<1>4. free \in Down /\ kept \in Down /\ free.type = "OWNER"
  BY <1>2, DownFrames, WorldTypes DEF Message, Base
<1>5. CASE /\ owner[k] = p
           /\ owner' = [owner EXCEPT ![k] = None]
           /\ Reply(p, free) /\ Broadcast(p, free)
           /\ astray' = Told(p, k) /\ shut' = Reopened(p, k)
  <2> HIDE DEF free, kept, k
  <2>1. inbox' \in [Player -> Seq(Down)] /\ \A q \in Player \ {p} : inbox'[q] = inbox[q]
    BY <1>4, <1>5, Replied DEF Base
  <2>2. NetTypeOK' /\ Away' /\ Casting'
    BY <1>1, <1>4, <1>5, <2>1, HandlerNet
  <2>3. Told(p, k) \in [Player -> SUBSET Key] /\ Reopened(p, k) \in [Player -> SUBSET Key]
    BY <1>2, WorldTypes DEF Base, Told, Reopened
  <2>4. WorldTypeOK'
    BY <1>1, <1>2, <1>3, <1>5, <2>3, WorldTypes DEF Base, WorldTypeOK, mirror, claimState
  <2> QED BY <2>2, <2>4 DEF Base
<1>6. CASE /\ owner[k] # p
           /\ Reply(p, kept)
           /\ astray' = [astray EXCEPT ![p] = IF Overtakes(p, k) THEN @ \cup {k} ELSE @ \ {k}]
           /\ UNCHANGED <<owner, outbox, shut>>
  <2> HIDE DEF free, kept, k
  <2>1. inbox' \in [Player -> Seq(Down)] /\ \A q \in Player \ {p} : inbox'[q] = inbox[q]
    BY <1>4, <1>6, Replied DEF Base
  <2>2. NetTypeOK' /\ Away' /\ Casting'
    BY <1>1, <1>6, <2>1, HandlerNet
  <2>3. astray' \in [Player -> SUBSET Key]
    BY <1>2, <1>6, WorldTypes DEF Base
  <2>4. WorldTypeOK'
    BY <1>1, <1>2, <1>3, <1>6, <2>3, WorldTypes DEF Base, WorldTypeOK, mirror, claimState
  <2> QED BY <2>2, <2>4 DEF Base
<1> QED BY <1>5, <1>6 DEF ServeRelease

\* What an update stores.
LEMMA Stored ==
  ASSUME WorldTypeOK, NEW fields, NEW K \in SUBSET Key, Store(fields, K),
         \A k \in K : fields[k] \in Value /\ owner[k] \in Player
  PROVE  /\ value' \in [Key -> Value \cup {None}]
         /\ \A k \in Key \ exists : value'[k] = None
         /\ \A k \in Key : value'[k] = IF k \in K THEN fields[k] ELSE value[k]
<1>1. value' = [k \in Key |-> IF k \in K THEN fields[k] ELSE value[k]]
  BY DEF Store
<1>2. \A k \in Key \ exists : k \notin K
  BY WorldTypes, Constants
<1> QED BY <1>1, <1>2, WorldTypes

LEMMA StoreOwnBase ==
  ASSUME Base, NEW p \in Player, NEW r \in Request, r.type = "UPDATE",
         Take(p, "UPDATE") \/ (TakeLate(p, "UPDATE") /\ ReadsOn(p)), StoreOwn(p, r.values)
  PROVE  Base'
<1> DEFINE fields == r.values
           news == Changed(fields, DOMAIN fields)
           f == Message("DELTA", None, None, [k \in news |-> fields[k]])
<1>1. UNCHANGED <<exists, owner, inbox, astray, stranded, shut>>
  BY DEF StoreOwn
<1>2. DOMAIN fields \subseteq Key /\ \A k \in DOMAIN fields : fields[k] \in Value
  BY RequestFacts
<1>3. news \subseteq DOMAIN fields
  BY DEF Changed
<1>4. f \in Down /\ f.type = "DELTA"
  <2>1. [k \in news |-> fields[k]] \in [news -> Value \cup {None}] /\ news \in SUBSET Key
    BY <1>2, <1>3
  <2> HIDE DEF news
  <2>2. f \in Down
    BY <2>1, DeltaFrame
  <2> QED BY <2>2 DEF Message
<1>5. outbox' = outbox \/ Broadcast(p, f)
  BY DEF StoreOwn
<1>6. inbox' \in [Player -> Seq(Down)] /\ \A q \in Player \ {p} : inbox'[q] = inbox[q]
  BY <1>1 DEF Base, NetTypeOK
<1>7. Store(fields, DOMAIN fields) /\ \A k \in DOMAIN fields : owner[k] = p
  BY DEF StoreOwn
<1>8. unheard' = [q \in Player |-> IF q = p THEN unheard[q] \cup news ELSE unheard[q] \ news]
  BY DEF StoreOwn
<1> HIDE DEF f, news, fields
<1>9. NetTypeOK' /\ Away' /\ Casting'
  BY <1>1, <1>4, <1>5, <1>6, HandlerNet
<1>10. value' \in [Key -> Value \cup {None}] /\ \A k \in Key \ exists : value'[k] = None
  BY <1>2, <1>7, Stored DEF Base
<1>11. unheard' \in [Player -> SUBSET Key]
  BY <1>2, <1>3, <1>8, WorldTypes DEF Base
<1>12. UNCHANGED <<worldLink, mirror, claimState, moves>>
  BY DEF Take, TakeLate
<1>13. WorldTypeOK'
  BY <1>1, <1>10, <1>11, <1>12, WorldTypes DEF Base, WorldTypeOK, mirror, claimState
<1> QED BY <1>9, <1>13 DEF Base

LEMMA RefuseUpdateBase ==
  ASSUME Base, NEW p \in Player, NEW j \in Key, NEW K \in SUBSET Key, RefuseUpdate(p, j, K)
  PROVE  Base'
<1> DEFINE fields == Head(worldWire[p]).values
           f == Message(IF j \in exists THEN "LOCKED" ELSE "NOT_FOUND", j, None, Nothing)
<1>1. Take(p, "UPDATE") /\ stranded' = stranded /\ Reply(p, f) /\ outbox' = outbox
      /\ UNCHANGED <<exists, owner, astray>>
  BY DEF RefuseUpdate, StoreSome
<1>2. DOMAIN fields \subseteq Key /\ \A k \in DOMAIN fields : fields[k] \in Value
  BY <1>1, Taken, RequestFacts DEF Base
<1>3. K \subseteq DOMAIN fields /\ \A k \in K : owner[k] = p
  BY DEF RefuseUpdate, StoreSome
<1>4. f \in Down
  BY DownFrames
<1>5. Store(fields, K)
  BY DEF RefuseUpdate, StoreSome
<1>6. unheard' = [q \in Player |-> unheard[q] \cup Changed(fields, K)]
  BY DEF RefuseUpdate, StoreSome
<1>7. shut' = shut \/ shut' = [shut EXCEPT ![p] = @ \cup {j}]
  BY DEF RefuseUpdate
<1> HIDE DEF f, fields
<1>8. inbox' \in [Player -> Seq(Down)] /\ \A q \in Player \ {p} : inbox'[q] = inbox[q]
  BY <1>1, <1>4, Replied DEF Base
<1>9. NetTypeOK' /\ Away' /\ Casting'
  BY <1>1, <1>8, HandlerNet
<1>10. value' \in [Key -> Value \cup {None}] /\ \A k \in Key \ exists : value'[k] = None
  <2>1. \A k \in K : fields[k] \in Value /\ owner[k] \in Player
    BY <1>2, <1>3
  <2> QED BY <2>1, <1>5, Stored DEF Base
<1>11. unheard' \in [Player -> SUBSET Key] /\ shut' \in [Player -> SUBSET Key]
  <2>1. Changed(fields, K) \subseteq Key
    BY DEF Changed
  <2>2. unheard' \in [Player -> SUBSET Key]
    BY <1>6, <2>1, WorldTypes DEF Base
  <2>3. shut' \in [Player -> SUBSET Key]
    <3>1. shut \in [Player -> SUBSET Key]
      BY WorldTypes DEF Base
    <3> QED BY <1>7, <3>1
  <2> QED BY <2>2, <2>3
<1>12. UNCHANGED <<worldLink, mirror, claimState, moves>>
  BY <1>1 DEF Take
<1>13. WorldTypeOK'
  BY <1>1, <1>10, <1>11, <1>12, WorldTypes DEF Base, WorldTypeOK, mirror, claimState
<1> QED BY <1>9, <1>13 DEF Base

LEMMA DiscardBase ==
  ASSUME Base, NEW p \in Player, NEW k \in Key,
         Take(p, "GONE") \/ (TakeLate(p, "GONE") /\ ReadsOn(p)), Discard(p, k)
  PROVE  Base'
<1> DEFINE f == Message("GONE", k, None, Nothing)
<1>1. stranded' = stranded /\ inbox' = inbox /\ Broadcast(p, f)
  BY DEF Discard
<1>3. f \in Down /\ f.type = "GONE"
  BY DownFrames DEF Message
<1>4. /\ exists' = exists \ {k} /\ owner' = [owner EXCEPT ![k] = None]
      /\ value' = [value EXCEPT ![k] = None]
      /\ unheard' = [q \in Player |-> IF q = p /\ Readmits(p, k) THEN unheard[q] \cup {k} ELSE unheard[q] \ {k}]
      /\ astray' = [q \in Player |-> IF q = p /\ Readmits(p, k) THEN astray[q] \cup {k} ELSE astray[q] \ {k}]
      /\ shut' = [q \in Player |-> shut[q] \cup {k}]
  BY DEF Discard
<1> HIDE DEF f
<1>5. inbox' \in [Player -> Seq(Down)] /\ \A q \in Player \ {p} : inbox'[q] = inbox[q]
  BY <1>1 DEF Base, NetTypeOK
<1>6. NetTypeOK' /\ Away' /\ Casting'
  BY <1>1, <1>3, <1>5, HandlerNet
<1>7. /\ unheard' \in [Player -> SUBSET Key] /\ astray' \in [Player -> SUBSET Key]
      /\ shut' \in [Player -> SUBSET Key]
  BY <1>4, WorldTypes DEF Base
<1>8. /\ exists' \subseteq Key /\ owner' \in [Key -> Player \cup {None}]
      /\ value' \in [Key -> Value \cup {None}]
      /\ \A j \in Key \ exists' : owner'[j] = None /\ value'[j] = None
  BY <1>4, WorldTypes DEF Base
<1>9. UNCHANGED <<worldLink, mirror, claimState, moves, stranded>>
  BY <1>1 DEF Take, TakeLate
<1>10. WorldTypeOK'
  BY <1>7, <1>8, <1>9, WorldTypes DEF Base, WorldTypeOK, mirror, claimState
<1> QED BY <1>6, <1>10 DEF Base

LEMMA RefuseGoneBase ==
  ASSUME Base, NEW p \in Player, RefuseGone(p)
  PROVE  Base'
<1> DEFINE k == Head(worldWire[p]).key
           f == Message("LOCKED", k, None, Nothing)
<1>1. Take(p, "GONE") /\ stranded' = stranded /\ Reply(p, f) /\ outbox' = outbox
      /\ UNCHANGED <<catalog, shut>>
  BY DEF RefuseGone
<1>2. k \in Key
  BY <1>1, Taken, RequestFacts DEF Base
<1>3. f \in Down
  BY <1>2, DownFrames
<1>4. unheard' = [unheard EXCEPT ![p] = @ \cup {k}] /\ astray' = [astray EXCEPT ![p] = @ \cup {k}]
  BY DEF RefuseGone
<1> HIDE DEF f, k
<1>5. inbox' \in [Player -> Seq(Down)] /\ \A q \in Player \ {p} : inbox'[q] = inbox[q]
  BY <1>1, <1>3, Replied DEF Base
<1>6. NetTypeOK' /\ Away' /\ Casting'
  BY <1>1, <1>5, HandlerNet
<1>7. unheard' \in [Player -> SUBSET Key] /\ astray' \in [Player -> SUBSET Key]
  BY <1>2, <1>4, WorldTypes DEF Base
<1>8. UNCHANGED <<worldLink, mirror, claimState, moves>>
  BY <1>1 DEF Take
<1>9. WorldTypeOK'
  BY <1>1, <1>7, <1>8, WorldTypes DEF Base, WorldTypeOK, catalog, mirror, claimState
<1> QED BY <1>6, <1>9 DEF Base

\* The handlers a failing reply ends.
LEMMA CutNet ==
  ASSUME Base, NEW p \in Player, NEW type, TakeLate(p, type), HangsUp(p), stranded' = stranded
  PROVE  /\ NetTypeOK' /\ Away' /\ Casting'
         /\ UNCHANGED <<worldLink, mirror, claimState, moves, inbox, outbox>>
<1>1. inbox' = inbox /\ outbox' = outbox
  BY TakenLate DEF Base
<1>2. inbox' \in [Player -> Seq(Down)]
  BY <1>1 DEF Base, NetTypeOK
<1>3. NetTypeOK' /\ Away' /\ Casting'
  BY <1>1, <1>2, HandlerNet
<1> QED BY <1>1, <1>3 DEF TakeLate

LEMMA LateClaimBase ==
  ASSUME Base, NEW p \in Player, LateClaim(p)
  PROVE  Base'
<1> DEFINE k == Head(lateWire[p]).key
<1>1. TakeLate(p, "CLAIM") /\ HangsUp(p) /\ UNCHANGED <<value, unheard, stranded, shut>>
      /\ exists' = exists \cup {k} /\ owner' = [owner EXCEPT ![k] = p]
      /\ astray' = [q \in Player |-> astray[q] \cup {k}]
  BY DEF LateClaim, Created, Untold
<1>2. k \in Key
  BY <1>1, TakenLate, RequestFacts DEF Base
<1> HIDE DEF k
<1>3. /\ NetTypeOK' /\ Away' /\ Casting'
      /\ UNCHANGED <<worldLink, mirror, claimState, moves>>
  BY <1>1, CutNet
<1>4. WorldTypeOK'
  BY <1>1, <1>2, <1>3, WorldTypes DEF Base, WorldTypeOK, mirror, claimState
<1> QED BY <1>3, <1>4 DEF Base

LEMMA LateReleaseBase ==
  ASSUME Base, NEW p \in Player, LateRelease(p)
  PROVE  Base'
<1> DEFINE k == Head(lateWire[p]).key
<1>1. TakeLate(p, "RELEASE") /\ HangsUp(p) /\ UNCHANGED <<exists, value, unheard, stranded>>
      /\ owner' = [owner EXCEPT ![k] = None]
      /\ astray' = [q \in Player |-> astray[q] \cup {k}]
      /\ shut' = [q \in Player |-> shut[q] \cup {k}]
  BY DEF LateRelease, Untold
<1>2. k \in Key
  BY <1>1, TakenLate, RequestFacts DEF Base
<1> HIDE DEF k
<1>3. /\ NetTypeOK' /\ Away' /\ Casting'
      /\ UNCHANGED <<worldLink, mirror, claimState, moves>>
  BY <1>1, CutNet
<1>4. WorldTypeOK'
  BY <1>1, <1>2, <1>3, WorldTypes DEF Base, WorldTypeOK, mirror, claimState
<1> QED BY <1>3, <1>4 DEF Base

LEMMA LateRefusalBase ==
  ASSUME Base, NEW p \in Player, NEW j \in Key, NEW K \in SUBSET Key, LateRefusal(p, j, K)
  PROVE  Base'
<1> DEFINE fields == Head(lateWire[p]).values
<1>1. TakeLate(p, "UPDATE") /\ HangsUp(p) /\ UNCHANGED <<exists, owner, astray, stranded, shut>>
      /\ Store(fields, K) /\ unheard' = [q \in Player |-> unheard[q] \cup Changed(fields, K)]
      /\ K \subseteq DOMAIN fields /\ \A k \in K : owner[k] = p
  BY DEF LateRefusal, StoreSome
<1>2. \A k \in DOMAIN fields : fields[k] \in Value
  BY <1>1, TakenLate, RequestFacts DEF Base
<1> HIDE DEF fields
<1>3. /\ NetTypeOK' /\ Away' /\ Casting'
      /\ UNCHANGED <<worldLink, mirror, claimState, moves>>
  BY <1>1, CutNet
<1>4. value' \in [Key -> Value \cup {None}] /\ \A k \in Key \ exists : value'[k] = None
  <2>1. \A k \in K : fields[k] \in Value /\ owner[k] \in Player
    BY <1>1, <1>2
  <2> QED BY <2>1, <1>1, Stored DEF Base
<1>5. unheard' \in [Player -> SUBSET Key]
  <2>1. Changed(fields, K) \subseteq Key
    BY DEF Changed
  <2> QED BY <1>1, <2>1, WorldTypes DEF Base
<1>6. WorldTypeOK'
  BY <1>1, <1>3, <1>4, <1>5, WorldTypes DEF Base, WorldTypeOK, mirror, claimState
<1> QED BY <1>3, <1>6 DEF Base

LEMMA LateInVainBase ==
  ASSUME Base, NEW p \in Player, LateInVain(p)
  PROVE  Base'
<1>1. HangsUp(p) /\ UNCHANGED <<catalog, worldHistory>>
      /\ \E type \in {"CLAIM", "RELEASE", "GONE"} : TakeLate(p, type)
  BY DEF LateInVain
<1>2. stranded' = stranded
  BY <1>1 DEF worldHistory
<1>3. /\ NetTypeOK' /\ Away' /\ Casting'
      /\ UNCHANGED <<worldLink, mirror, claimState, moves>>
  BY <1>1, <1>2, CutNet
<1>4. WorldTypeOK'
  BY <1>1, <1>3, WorldTypes DEF Base, WorldTypeOK, catalog, worldHistory, mirror, claimState
<1> QED BY <1>3, <1>4 DEF Base

\* The network itself.
LEMMA DeliverBase ==
  ASSUME Base, Deliver
  PROVE  Base'
<1>1. /\ outbox \in Seq(Cast) /\ outbox # <<>> /\ outbox' = Tail(outbox)
      /\ worldWire \in [Player -> Seq(Request)] /\ lateWire \in [Player -> Seq(Request)]
      /\ inbox \in [Player -> Seq(Down)]
      /\ UNCHANGED <<catalog, worldLink, worldWire, lateWire, mirror, claimState, moves, worldHistory>>
  BY DEF Base, NetTypeOK, Deliver
<1>2. Head(outbox) \in Cast
  BY <1>1, QueueFacts
<1>3. Head(outbox).frame \in Down
  BY <1>2, CastFacts
<1>4. \A q \in Player : Append(inbox[q], Head(outbox).frame) \in Seq(Down)
  BY <1>1, <1>3, Appended
<1>5. inbox' \in [Player -> Seq(Down)]
  BY <1>1, <1>4 DEF Deliver
<1>6. /\ outbox' \in Seq(Cast)
      /\ \A i \in DOMAIN outbox' : i + 1 \in DOMAIN outbox /\ outbox'[i] = outbox[i + 1]
  BY <1>1, Tailed
<1>7. \A q \in Player : (Up(q)' <=> Up(q)) /\ (~Up(q) => inbox'[q] = inbox[q])
  BY <1>1 DEF Up, Deliver
<1>8. Away'
  BY <1>1, <1>7 DEF Base, Away, claimState, worldHistory
<1>9. Casting'
  BY <1>6, <1>7 DEF Base, Casting
<1>10. NetTypeOK'
  BY <1>1, <1>5, <1>6 DEF NetTypeOK
<1>11. WorldTypeOK'
  BY <1>1, WorldTypes DEF Base, WorldTypeOK, catalog, mirror, claimState, worldHistory
<1> QED BY <1>8, <1>9, <1>10, <1>11 DEF Base

\* What the server has received of a queue.
LEMMA Received ==
  ASSUME NEW S, NEW q \in Seq(S), NEW n \in 0..Len(q)
  PROVE  SubSeq(q, 1, n) \in Seq(S)
<1>1. Len(q) \in Nat /\ \A i \in 1..n : q[i] \in S
  OBVIOUS
<1> QED BY <1>1, SubSeqProperties

LEMMA LinkBreaksBase ==
  ASSUME Base, NEW p \in Player, LinkBreaks(p)
  PROVE  Base'
<1>1. /\ outbox = <<>> /\ outbox' = outbox /\ moves' = moves + 1 /\ moves < MaxMoves
      /\ worldLink' = [worldLink EXCEPT ![p] = "down"]
      /\ worldWire' = [worldWire EXCEPT ![p] = <<>>]
      /\ inbox' = [inbox EXCEPT ![p] = <<>>]
      /\ dropped' = [dropped EXCEPT ![p] = Mine(p)]
      /\ stranded' = [stranded EXCEPT ![p] = @ \cup inFlight[p]]
      /\ UNCHANGED <<catalog, mirror, driven, inFlight, denied, unheard, astray, shut>>
      /\ \E n \in 0..Len(worldWire[p]) : lateWire' = [lateWire EXCEPT ![p] = SubSeq(worldWire[p], 1, n)]
  BY DEF LinkBreaks, Move, BetweenTurns
<1>2. WorldTypeOK'
  BY <1>1, WorldTypes, Constants DEF Base, WorldTypeOK, catalog, mirror, Mine
<1>3. NetTypeOK'
  <2>1. <<>> \in Seq(Request) /\ <<>> \in Seq(Down)
    OBVIOUS
  <2>2. worldWire[p] \in Seq(Request)
    BY DEF Base, NetTypeOK
  <2>3. \A n \in 0..Len(worldWire[p]) : SubSeq(worldWire[p], 1, n) \in Seq(Request)
    BY <2>2, Received
  <2>4. lateWire' \in [Player -> Seq(Request)]
    BY <1>1, <2>3 DEF Base, NetTypeOK
  <2> QED BY <1>1, <2>1, <2>4 DEF Base, NetTypeOK
<1>4. Away'
  <2>1. \A q \in Player : q # p => (Up(q)' <=> Up(q)) /\ worldWire'[q] = worldWire[q]
                               /\ inbox'[q] = inbox[q] /\ stranded'[q] = stranded[q]
    BY <1>1, WorldTypes DEF Base, NetTypeOK, Up
  <2>2. worldWire'[p] = <<>> /\ inbox'[p] = <<>> /\ inFlight'[p] \subseteq stranded'[p]
    BY <1>1, WorldTypes DEF Base, NetTypeOK
  <2> QED BY <1>1, <2>1, <2>2 DEF Base, Away
<1>5. Casting'
  BY <1>1 DEF Casting
<1> QED BY <1>2, <1>3, <1>4, <1>5 DEF Base

LEMMA RejoinBase ==
  ASSUME Base, NEW p \in Player, Rejoin(p)
  PROVE  Base'
<1> DEFINE f == Message("STATE", None, owner, value)
<1>1. /\ worldLink' = [worldLink EXCEPT ![p] = "up"]
      /\ inbox' = [inbox EXCEPT ![p] = <<f>>]
      /\ unheard' = [unheard EXCEPT ![p] = {}]
      /\ astray' = [astray EXCEPT ![p] = {}]
      /\ shut' = [shut EXCEPT ![p] = @ \cup denied[p]]
      /\ UNCHANGED <<catalog, worldWire, lateWire, outbox, mirror, claimState, moves, stranded>>
  BY DEF Rejoin
<1>2. f \in Down
  BY StateFrame, WorldTypes DEF Base
<1> HIDE DEF f
<1>3. WorldTypeOK'
  BY <1>1, WorldTypes DEF Base, WorldTypeOK, catalog, mirror, claimState
<1>4. NetTypeOK'
  <2>1. <<f>> \in Seq(Down)
    BY <1>2
  <2> QED BY <1>1, <2>1 DEF Base, NetTypeOK
<1>5. \A q \in Player : /\ Up(q) => Up(q)'
                        /\ q # p => (Up(q)' <=> Up(q)) /\ inbox'[q] = inbox[q]
  BY <1>1, WorldTypes DEF Base, NetTypeOK, Up
<1>6. Up(p)'
  BY <1>1, WorldTypes DEF Base, Up
<1>7. Away'
  BY <1>1, <1>5, <1>6 DEF Base, Away, claimState
<1>8. Casting'
  BY <1>1, <1>5 DEF Base, Casting
<1> QED BY <1>3, <1>4, <1>7, <1>8 DEF Base

\* The broadcasts of an eviction.
LEMMA EvictSends ==
  ASSUME Base, NEW p \in Player, Evict(p)
  PROVE  /\ outbox = <<>> /\ outbox' \in Seq(Cast)
         /\ \A i \in DOMAIN outbox' : \E k \in Key :
              /\ owner[k] = p
              /\ outbox'[i] = [from |-> p, to |-> {q \in Player : Up(q)},
                                frame |-> Message("OWNER", k, None, Nothing)]
         /\ \A k \in Key : owner[k] = p => \E i \in DOMAIN outbox' :
              outbox'[i] = [from |-> p, to |-> {q \in Player : Up(q)},
                            frame |-> Message("OWNER", k, None, Nothing)]
<1> DEFINE lost == {k \in Key : owner[k] = p}
           cast(k) == [from |-> p, to |-> {q \in Player : Up(q)},
                       frame |-> Message("OWNER", k, None, Nothing)]
<1>1. PICK s \in [1..Cardinality(lost) -> lost] :
        Range(s) = lost /\ outbox' = outbox \o [i \in DOMAIN s |-> cast(s[i])]
  BY DEF Evict
<1>2. Cardinality(lost) \in Nat
  BY FS_CardinalityType, FS_Subset, Constants
<1>3. outbox = <<>>
  BY DEF Evict, Move, BetweenTurns
<1>4. \A k \in Key : cast(k) \in Cast
  BY DownFrames DEF Cast
<1>5. DOMAIN s = 1..Cardinality(lost) /\ \A i \in DOMAIN s : s[i] \in Key /\ owner[s[i]] = p
  BY <1>1
<1>6. \A k \in lost : \E i \in DOMAIN s : s[i] = k
  BY <1>1 DEF Range
<1> DEFINE block == [i \in DOMAIN s |-> cast(s[i])]
<1>7. DOMAIN block = DOMAIN s /\ \A i \in DOMAIN s : block[i] = cast(s[i])
  OBVIOUS
<1>8. block \in Seq(Cast)
  <2>1. \A i \in 1..Cardinality(lost) : cast(s[i]) \in Cast
    BY <1>4, <1>5
  <2> HIDE DEF cast, lost
  <2>2. block \in [1..Cardinality(lost) -> Cast]
    BY <1>5, <2>1
  <2> HIDE DEF block
  <2> QED BY <1>2, <2>2
<1>9. outbox' = block
  <2> HIDE DEF block
  <2>1. <<>> \o block = block
    BY <1>8, ConcatEmptySeq
  <2> QED BY <1>1, <1>3, <2>1 DEF block
<1> HIDE DEF block
<1> QED BY <1>3, <1>5, <1>6, <1>7, <1>8, <1>9

LEMMA EvictBase ==
  ASSUME Base, NEW p \in Player, Evict(p)
  PROVE  Base'
<1> DEFINE lost == {k \in Key : owner[k] = p}
<1>1. /\ worldLink[p] = "down" /\ moves' = moves + 1 /\ moves < MaxMoves
      /\ worldLink' = [worldLink EXCEPT ![p] = "evicted"]
      /\ owner' = [k \in Key |-> IF k \in lost THEN None ELSE owner[k]]
      /\ astray' = [q \in Player |-> IF q = p THEN astray[q] ELSE astray[q] \ lost]
      /\ shut' = [q \in Player |-> IF q = p THEN shut[q] ELSE shut[q] \ lost]
      /\ UNCHANGED <<exists, value, worldWire, lateWire, inbox, mirror, claimState, unheard, stranded>>
  BY DEF Evict, Move
<1>2. WorldTypeOK'
  BY <1>1, WorldTypes, Constants DEF Base, WorldTypeOK, mirror, claimState
<1>3. outbox' \in Seq(Cast)
      /\ \A i \in DOMAIN outbox' : \E k \in Key :
           outbox'[i] = [from |-> p, to |-> {q \in Player : Up(q)},
                         frame |-> Message("OWNER", k, None, Nothing)]
  BY EvictSends
<1>4. NetTypeOK'
  BY <1>1, <1>3 DEF Base, NetTypeOK
<1>5. \A q \in Player : Up(q)' <=> Up(q)
  BY <1>1, WorldTypes DEF Base, Up
<1>6. Away'
  BY <1>1, <1>5 DEF Base, Away, claimState
<1>7. {q \in Player : Up(q)}' = {q \in Player : Up(q)}
  BY <1>5
<1>8. Casting'
  BY <1>3, <1>7 DEF Casting, Message
<1> QED BY <1>2, <1>4, <1>6, <1>8 DEF Base

-----------------------------------------------------------------------------
\* What a client has and should have, now and after the step.
LEMMA Holds ==
  ASSUME NEW p, NEW k
  PROVE  /\ Has("owner", p, k) = mirrorOwner[p][k] /\ Has("value", p, k) = mirrorValue[p][k]
         /\ Has("denied", p, k) = IF k \in denied[p] THEN "yes" ELSE "no"
         /\ Has("claim", p, k) = IF k \in inFlight[p] THEN "yes" ELSE "no"
BY DEF Has

LEMMA HoldsNext ==
  ASSUME NEW p, NEW k
  PROVE  /\ Has("owner", p, k)' = mirrorOwner'[p][k] /\ Has("value", p, k)' = mirrorValue'[p][k]
         /\ Has("denied", p, k)' = IF k \in denied'[p] THEN "yes" ELSE "no"
         /\ Has("claim", p, k)' = IF k \in inFlight'[p] THEN "yes" ELSE "no"
BY DEF Has

LEMMA Dues ==
  ASSUME NEW k
  PROVE  /\ Due("owner", k) = owner[k] /\ Due("value", k) = value[k]
         /\ Due("denied", k) = "no" /\ Due("claim", k) = "no"
BY DEF Due

LEMMA DuesNext ==
  ASSUME NEW k
  PROVE  /\ Due("owner", k)' = owner'[k] /\ Due("value", k)' = value'[k]
         /\ Due("denied", k)' = "no" /\ Due("claim", k)' = "no"
BY DEF Due

LEMMA FinalNext ==
  ASSUME NEW c, NEW p, NEW k
  PROVE  Final(c, p, k)' <=>
           Leads(HeardBy(outbox', p), inbox'[p], Has(c, p, k)', c, p, k, Due(c, k)')
BY DEF Final, Out

\* A frame stays on its way to the server when more are sent.
LEMMA SentMore ==
  ASSUME NEW q \in Player, worldWire[q] \in Seq(Request), NEW frames \in Seq(Request),
         worldWire'[q] = worldWire[q] \o frames, NEW t, NEW k, Sent(q, t, k)
  PROVE  Sent(q, t, k)'
<1> DEFINE w == worldWire[q]
           w2 == worldWire'[q]
<1>1. /\ Len(w) \in Nat /\ DOMAIN w = 1..Len(w) /\ Len(frames) \in Nat
      /\ w2 \in Seq(Request) /\ Len(w2) = Len(w) + Len(frames) /\ DOMAIN w2 = 1..Len(w2)
      /\ \A i \in 1..Len(w) + Len(frames) : w2[i] = IF i <= Len(w) THEN w[i] ELSE frames[i - Len(w)]
  BY ConcatProperties, QueueFacts
<1>2. PICK i \in DOMAIN w : w[i].type = t /\ w[i].key = k
  BY DEF Sent
<1> HIDE DEF w, w2
<1>3. i \in DOMAIN w2 /\ w2[i] = w[i]
  BY <1>1, <1>2
<1> QED BY <1>2, <1>3 DEF Sent, w, w2

LEMMA SentSame ==
  ASSUME NEW q, worldWire'[q] = worldWire[q], NEW t, NEW k
  PROVE  Sent(q, t, k)' <=> Sent(q, t, k)
BY DEF Sent

\* A client has read: nothing else has changed.
LEMMA Reading ==
  ASSUME WInv, NEW p \in Player, NEW type, Apply(p, type), worldHistory' = worldHistory,
         \A q \in Player, t \in {"CLAIM", "GONE"}, k \in Key : Sent(q, t, k) => Sent(q, t, k)',
         \A c \in Channel, k \in Key :
           Has(c, p, k)' =
             IF Tells(c, p, Head(inbox[p]), k) THEN Says(c, Head(inbox[p]), k) ELSE Has(c, p, k),
         \A q \in Player \ {p}, c \in Channel, k \in Key : Has(c, q, k)' = Has(c, q, k)
  PROVE  Converging'
<1>1. /\ Up(p) /\ worldLink' = worldLink /\ outbox' = outbox /\ outbox = <<>>
      /\ inbox[p] \in Seq(Down) /\ inbox[p] # <<>> /\ inbox'[p] = Tail(inbox[p])
      /\ \A q \in Player \ {p} : inbox'[q] = inbox[q]
  BY Applied DEF WInv
<1>2. catalog' = catalog
  BY DEF Apply
<1> SUFFICES ASSUME NEW q \in Player, Up(q)', NEW c \in Channel, NEW k \in Key
             PROVE  Exempt(c, q, k)' \/ Final(c, q, k)'
  BY DEF Converging
<1>3. Exempt(c, q, k) \/ Final(c, q, k)
  BY <1>1 DEF WInv, Converging, Up
<1>4. Exempt(c, q, k) => Exempt(c, q, k)'
  BY <1>2 DEF Exempt, catalog, worldHistory
<1>5. Due(c, k)' = Due(c, k)
  BY <1>2 DEF Due, catalog
<1>6. HeardBy(outbox', q) = <<>> /\ Out(q) = <<>>
  BY <1>1 DEF Out, HeardBy
<1>7. CASE q = p
  BY <1>1, <1>3, <1>4, <1>5, <1>6, <1>7, LeadsApply, FinalNext DEF Final
<1>8. CASE q # p
  BY <1>1, <1>3, <1>4, <1>5, <1>6, <1>8, FinalNext DEF Final
<1> QED BY <1>7, <1>8

LEMMA ApplyOwnerConverges ==
  ASSUME WInv, NEW p \in Player, ApplyOwner(p)
  PROVE  Converging'
<1> DEFINE f == Head(inbox[p])
<1>1. Apply(p, "OWNER") /\ worldHistory' = worldHistory /\ worldWire' = worldWire
  BY DEF ApplyOwner
<1>2. f.type = "OWNER" /\ f.key \in Key
  BY <1>1, Applied, DownFacts DEF WInv
<1>3. /\ mirrorOwner \in [Player -> [Key -> Player \cup {None}]]
      /\ inFlight \in [Player -> SUBSET Key] /\ denied \in [Player -> SUBSET Key]
  BY WorldTypes DEF WInv, Base
<1>4. /\ mirrorOwner' = [mirrorOwner EXCEPT ![p][f.key] = f.owner]
      /\ inFlight' = [inFlight EXCEPT ![p] = @ \ {f.key}]
      /\ denied' = [denied EXCEPT ![p] = IF Reopens(p, f.owner) THEN @ \ {f.key} ELSE @]
      /\ mirrorValue' = mirrorValue
  BY DEF ApplyOwner, Noted
<1> HIDE DEF f
<1>5. /\ \A k \in Key : mirrorOwner'[p][k] = IF k = f.key THEN f.owner ELSE mirrorOwner[p][k]
      /\ \A k \in Key : k \in inFlight'[p] <=> k \in inFlight[p] /\ k # f.key
      /\ \A k \in Key : k \in denied'[p] <=> k \in denied[p] /\ ~(k = f.key /\ Reopens(p, f.owner))
      /\ \A q \in Player \ {p} : /\ mirrorOwner'[q] = mirrorOwner[q] /\ inFlight'[q] = inFlight[q]
                                 /\ denied'[q] = denied[q]
  BY <1>2, <1>3, <1>4
<1>6. \A q \in Player \ {p}, c \in Channel, k \in Key : Has(c, q, k)' = Has(c, q, k)
  BY <1>4, <1>5 DEF Has
<1>7. \A q \in Player, t \in {"CLAIM", "GONE"}, k \in Key : Sent(q, t, k) => Sent(q, t, k)'
  BY <1>1 DEF Sent
<1>8. ASSUME NEW c \in Channel, NEW k \in Key
      PROVE  Has(c, p, k)' = IF Tells(c, p, f, k) THEN Says(c, f, k) ELSE Has(c, p, k)
  <2>1. /\ Tells(c, p, f, k) <=> f.key = k /\ (c \in {"owner", "claim"} \/ (c = "denied" /\ Reopens(p, f.owner)))
        /\ c = "owner" => Says(c, f, k) = f.owner
        /\ c \in {"claim", "denied"} => Says(c, f, k) = "no"
    BY <1>2, OwnerTells
  <2>2. CASE c = "owner"
    BY <1>5, <2>1, <2>2, Holds, HoldsNext
  <2>3. CASE c = "value"
    BY <1>4, <2>1, <2>3, Holds, HoldsNext
  <2>4. CASE c = "denied"
    BY <1>5, <2>1, <2>4, Holds, HoldsNext
  <2>5. CASE c = "claim"
    BY <1>5, <2>1, <2>5, Holds, HoldsNext
  <2> QED BY <2>2, <2>3, <2>4, <2>5 DEF Channel
<1> QED BY <1>1, <1>6, <1>7, <1>8, Reading DEF f

LEMMA ApplyDeltaConverges ==
  ASSUME WInv, NEW p \in Player, ApplyDelta(p)
  PROVE  Converging'
<1> DEFINE f == Head(inbox[p])
<1>1. Apply(p, "DELTA") /\ worldHistory' = worldHistory /\ worldWire' = worldWire
      /\ UNCHANGED <<mirrorOwner, inFlight, denied>>
  BY DEF ApplyDelta
<1>2. f.type = "DELTA"
  BY <1>1, Applied DEF WInv
<1>3. mirrorValue \in [Player -> [Key -> Value \cup {None}]]
  BY WorldTypes DEF WInv, Base
<1>4. mirrorValue' = [mirrorValue EXCEPT ![p] =
        [k \in Key |-> IF k \in DOMAIN f.values THEN f.values[k] ELSE mirrorValue[p][k]]]
  BY DEF ApplyDelta, Merged
<1> HIDE DEF f
<1>5. /\ \A k \in Key : mirrorValue'[p][k] = IF k \in DOMAIN f.values THEN f.values[k] ELSE mirrorValue[p][k]
      /\ \A q \in Player \ {p} : mirrorValue'[q] = mirrorValue[q]
  BY <1>3, <1>4
<1>6. \A q \in Player \ {p}, c \in Channel, k \in Key : Has(c, q, k)' = Has(c, q, k)
  BY <1>1, <1>5 DEF Has
<1>7. \A q \in Player, t \in {"CLAIM", "GONE"}, k \in Key : Sent(q, t, k) => Sent(q, t, k)'
  BY <1>1 DEF Sent
<1>8. ASSUME NEW c \in Channel, NEW k \in Key
      PROVE  Has(c, p, k)' = IF Tells(c, p, f, k) THEN Says(c, f, k) ELSE Has(c, p, k)
  <2>1. /\ Tells(c, p, f, k) <=> c = "value" /\ k \in DOMAIN f.values
        /\ c = "value" => Says(c, f, k) = f.values[k]
    BY <1>2, DeltaTells
  <2>2. CASE c = "value"
    BY <1>5, <2>1, <2>2, Holds, HoldsNext
  <2>3. CASE c # "value"
    BY <1>1, <2>1, <2>3, Holds, HoldsNext DEF Channel
  <2> QED BY <2>2, <2>3
<1> QED BY <1>1, <1>6, <1>7, <1>8, Reading DEF f

LEMMA ApplyGoneConverges ==
  ASSUME WInv, NEW p \in Player, ApplyGone(p)
  PROVE  Converging'
<1> DEFINE f == Head(inbox[p])
<1>1. Apply(p, "GONE") /\ worldHistory' = worldHistory /\ worldWire' = worldWire
      /\ UNCHANGED <<inFlight, denied>>
  BY DEF ApplyGone
<1>2. f.type = "GONE" /\ f.owner = None /\ f.key \in Key
  BY <1>1, Applied, DownFacts DEF WInv
<1>3. /\ mirrorValue \in [Player -> [Key -> Value \cup {None}]]
      /\ mirrorOwner \in [Player -> [Key -> Player \cup {None}]]
  BY WorldTypes DEF WInv, Base
<1>4. /\ mirrorValue' = [mirrorValue EXCEPT ![p][f.key] = None]
      /\ mirrorOwner' = [mirrorOwner EXCEPT ![p][f.key] = None]
  BY DEF ApplyGone
<1> HIDE DEF f
<1>5. /\ \A k \in Key : mirrorValue'[p][k] = IF k = f.key THEN None ELSE mirrorValue[p][k]
      /\ \A k \in Key : mirrorOwner'[p][k] = IF k = f.key THEN None ELSE mirrorOwner[p][k]
      /\ \A q \in Player \ {p} : mirrorValue'[q] = mirrorValue[q] /\ mirrorOwner'[q] = mirrorOwner[q]
  BY <1>2, <1>3, <1>4
<1>6. \A q \in Player \ {p}, c \in Channel, k \in Key : Has(c, q, k)' = Has(c, q, k)
  BY <1>1, <1>5 DEF Has
<1>7. \A q \in Player, t \in {"CLAIM", "GONE"}, k \in Key : Sent(q, t, k) => Sent(q, t, k)'
  BY <1>1 DEF Sent
<1>8. ASSUME NEW c \in Channel, NEW k \in Key
      PROVE  Has(c, p, k)' = IF Tells(c, p, f, k) THEN Says(c, f, k) ELSE Has(c, p, k)
  <2>1. /\ Tells(c, p, f, k) <=> f.key = k /\ c \in {"owner", "value"}
        /\ c \in {"owner", "value"} => Says(c, f, k) = None
    BY <1>2, GoneTells
  <2>2. CASE c = "owner"
    BY <1>5, <2>1, <2>2, Holds, HoldsNext
  <2>3. CASE c = "value"
    BY <1>5, <2>1, <2>3, Holds, HoldsNext
  <2>4. CASE c \notin {"owner", "value"}
    BY <1>1, <2>1, <2>4, Holds, HoldsNext DEF Channel
  <2> QED BY <2>2, <2>3, <2>4
<1> QED BY <1>1, <1>6, <1>7, <1>8, Reading DEF f

LEMMA ApplyLockedConverges ==
  ASSUME WInv, NEW p \in Player, ApplyLocked(p)
  PROVE  Converging'
<1> DEFINE f == Head(inbox[p])
<1>1. Apply(p, "LOCKED") /\ worldHistory' = worldHistory /\ worldWire' = worldWire
      /\ UNCHANGED <<mirrorOwner, mirrorValue>>
  BY DEF ApplyLocked, mirror
<1>2. f.type = "LOCKED" /\ f.key \in Key
  BY <1>1, Applied, DownFacts DEF WInv
<1>3. inFlight \in [Player -> SUBSET Key] /\ denied \in [Player -> SUBSET Key]
  BY WorldTypes DEF WInv, Base
<1>4. inFlight' = [inFlight EXCEPT ![p] = @ \ {f.key}] /\ denied' = [denied EXCEPT ![p] = @ \cup {f.key}]
  BY DEF ApplyLocked, Answered
<1> HIDE DEF f
<1>5. /\ \A k \in Key : k \in inFlight'[p] <=> k \in inFlight[p] /\ k # f.key
      /\ \A k \in Key : k \in denied'[p] <=> k \in denied[p] \/ k = f.key
      /\ \A q \in Player \ {p} : inFlight'[q] = inFlight[q] /\ denied'[q] = denied[q]
  BY <1>2, <1>3, <1>4
<1>6. \A q \in Player \ {p}, c \in Channel, k \in Key : Has(c, q, k)' = Has(c, q, k)
  BY <1>1, <1>5 DEF Has
<1>7. \A q \in Player, t \in {"CLAIM", "GONE"}, k \in Key : Sent(q, t, k) => Sent(q, t, k)'
  BY <1>1 DEF Sent
<1>8. ASSUME NEW c \in Channel, NEW k \in Key
      PROVE  Has(c, p, k)' = IF Tells(c, p, f, k) THEN Says(c, f, k) ELSE Has(c, p, k)
  <2>1. /\ Tells(c, p, f, k) <=> f.key = k /\ c \in {"denied", "claim"}
        /\ c = "denied" => Says(c, f, k) = "yes"
        /\ c = "claim" => Says(c, f, k) = "no"
    BY <1>2, LockedTells
  <2>2. CASE c = "denied"
    BY <1>5, <2>1, <2>2, Holds, HoldsNext
  <2>3. CASE c = "claim"
    BY <1>5, <2>1, <2>3, Holds, HoldsNext
  <2>4. CASE c \notin {"denied", "claim"}
    BY <1>1, <2>1, <2>4, Holds, HoldsNext DEF Channel
  <2> QED BY <2>2, <2>3, <2>4
<1> QED BY <1>1, <1>6, <1>7, <1>8, Reading DEF f

LEMMA ApplyNotFoundConverges ==
  ASSUME WInv, NEW p \in Player, ApplyNotFound(p)
  PROVE  Converging'
<1>1. Apply(p, "NOT_FOUND") /\ worldHistory' = worldHistory /\ worldWire' = worldWire
      /\ UNCHANGED <<mirrorOwner, mirrorValue, inFlight, denied>>
  BY DEF ApplyNotFound, mirror
<1>2. Head(inbox[p]).type = "NOT_FOUND"
  BY <1>1, Applied DEF WInv
<1>3. \A q \in Player, c \in Channel, k \in Key : Has(c, q, k)' = Has(c, q, k)
  BY <1>1 DEF Has
<1>4. \A q \in Player, t \in {"CLAIM", "GONE"}, k \in Key : Sent(q, t, k) => Sent(q, t, k)'
  BY <1>1 DEF Sent
<1>5. \A c \in Channel, k \in Key : ~Tells(c, p, Head(inbox[p]), k)
  BY <1>2, NotFoundTells
<1> QED BY <1>1, <1>3, <1>4, <1>5, Reading

LEMMA ApplyStateConverges ==
  ASSUME WInv, NEW p \in Player, ApplyState(p)
  PROVE  Converging'
<1> DEFINE f == Head(inbox[p])
<1>1. Apply(p, "STATE") /\ worldHistory' = worldHistory
      /\ UNCHANGED <<inFlight, denied>>
  BY DEF ApplyState
<1>2. /\ f.type = "STATE" /\ f.owner \in [Key -> Player \cup {None}]
      /\ f.values \in [Key -> Value \cup {None}]
  BY <1>1, Applied, DownFacts DEF WInv
<1>3. /\ mirrorValue \in [Player -> [Key -> Value \cup {None}]]
      /\ mirrorOwner \in [Player -> [Key -> Player \cup {None}]]
  BY WorldTypes DEF WInv, Base
<1>4. /\ mirrorValue' = [mirrorValue EXCEPT ![p] = f.values]
      /\ mirrorOwner' = [mirrorOwner EXCEPT ![p] = f.owner]
  BY DEF ApplyState
<1> HIDE DEF f
<1>5. /\ mirrorValue'[p] = f.values /\ mirrorOwner'[p] = f.owner
      /\ \A q \in Player \ {p} : mirrorValue'[q] = mirrorValue[q] /\ mirrorOwner'[q] = mirrorOwner[q]
  BY <1>3, <1>4
<1>6. \A q \in Player \ {p}, c \in Channel, k \in Key : Has(c, q, k)' = Has(c, q, k)
  BY <1>1, <1>5 DEF Has
<1>7. ASSUME NEW q \in Player, NEW t \in {"CLAIM", "GONE"}, NEW k \in Key, Sent(q, t, k)
      PROVE  Sent(q, t, k)'
  <2>1. CASE q = p
    <3>1. worldWire[p] \in Seq(Request) /\ \E frames \in Seq(Request) : worldWire'[p] = worldWire[p] \o frames
      BY ApplyStateBase DEF WInv
    <3> QED BY <1>7, <2>1, <3>1, SentMore
  <2>2. CASE q # p
    <3>1. worldWire'[q] = worldWire[q]
      <4>1. worldWire \in [Player -> Seq(Request)]
        BY DEF WInv, Base, NetTypeOK
      <4> QED BY <2>2, <4>1 DEF ApplyState
    <3> QED BY <1>7, <3>1, SentSame
  <2> QED BY <2>1, <2>2
<1>8. ASSUME NEW c \in Channel, NEW k \in Key
      PROVE  Has(c, p, k)' = IF Tells(c, p, f, k) THEN Says(c, f, k) ELSE Has(c, p, k)
  <2>1. /\ Tells(c, p, f, k) <=> c \in {"owner", "value"}
        /\ c = "owner" => Says(c, f, k) = f.owner[k]
        /\ c = "value" => Says(c, f, k) = f.values[k]
    BY <1>2, StateTells
  <2>2. CASE c = "owner"
    BY <1>5, <2>1, <2>2, Holds, HoldsNext
  <2>3. CASE c = "value"
    BY <1>5, <2>1, <2>3, Holds, HoldsNext
  <2>4. CASE c \notin {"owner", "value"}
    BY <1>1, <2>1, <2>4, Holds, HoldsNext DEF Channel
  <2> QED BY <2>2, <2>3, <2>4
<1> QED BY <1>1, <1>6, <1>7, <1>8, Reading DEF f

\* A client has acted, and cleared what it removed from the lot.
LEMMA SampleConverges ==
  ASSUME WInv, NEW p \in Player, NEW active, NEW edited, NEW fields \in [Key -> Value],
         SampleTick(p, active, edited, fields)
  PROVE  Converging'
<1>1. /\ Up(p) /\ UNCHANGED <<catalog, worldLink, inbox, outbox, mirror, denied, worldHistory>>
  BY DEF SampleTick
<1>2. /\ \A q \in Player \ {p} : worldWire'[q] = worldWire[q] /\ inFlight'[q] = inFlight[q]
      /\ \E frames \in Seq(Request) : worldWire'[p] = worldWire[p] \o frames
      /\ \A k \in inFlight'[p] \ inFlight[p] : Sent(p, "CLAIM", k)'
  BY SampleSends DEF WInv
<1>3. worldWire[p] \in Seq(Request)
  BY DEF WInv, Base, NetTypeOK
<1>4. \A q \in Player : \A t, k : Sent(q, t, k) => Sent(q, t, k)'
  BY <1>2, <1>3, SentMore, SentSame
<1>5. \A k \in inFlight[p] \ inFlight'[p] : FALSE
  <2>1. inFlight \in [Player -> SUBSET Key]
    BY WorldTypes DEF WInv, Base
  <2> QED BY <2>1 DEF SampleTick
<1> SUFFICES ASSUME NEW q \in Player, Up(q)', NEW c \in Channel, NEW k \in Key
             PROVE  Exempt(c, q, k)' \/ Final(c, q, k)'
  BY DEF Converging
<1>6. Exempt(c, q, k) \/ Final(c, q, k)
  BY <1>1 DEF WInv, Converging, Up
<1>7. Exempt(c, q, k) => Exempt(c, q, k)'
  BY <1>1, <1>4 DEF Exempt, catalog, worldHistory
<1>8. Due(c, k)' = Due(c, k)
  BY <1>1 DEF Due, catalog
<1>9. HeardBy(outbox', q) = Out(q) /\ inbox'[q] = inbox[q]
  BY <1>1 DEF Out
<1>10. CASE c = "claim" /\ q = p /\ k \in inFlight'[p] \ inFlight[p]
  BY <1>2, <1>10 DEF Exempt
<1>11. CASE ~(c = "claim" /\ q = p /\ k \in inFlight'[p] \ inFlight[p])
  <2>1. Has(c, q, k)' = Has(c, q, k)
    BY <1>1, <1>2, <1>5, <1>11 DEF Has, mirror
  <2> QED BY <1>6, <1>7, <1>8, <1>9, <2>1, FinalNext DEF Final
<1> QED BY <1>10, <1>11

LEMMA ObjectGoneConverges ==
  ASSUME WInv, NEW p \in Player, NEW j \in Key, ObjectGone(p, j)
  PROVE  Converging'
<1> DEFINE f == Message("GONE", j, None, Nothing)
<1>1. /\ Up(p) /\ UNCHANGED <<catalog, worldLink, inbox, outbox, inFlight, denied, worldHistory>>
      /\ Send(p, <<f>>)
      /\ mirrorOwner' = [mirrorOwner EXCEPT ![p][j] = None]
      /\ mirrorValue' = [mirrorValue EXCEPT ![p][j] = None]
  BY DEF ObjectGone, claimState
<1>2. f \in Request /\ f.type = "GONE" /\ f.key = j
  BY Requests
<1> HIDE DEF f
<1>3. <<f>> \in Seq(Request)
  BY <1>2
<1>4. /\ worldWire'[p] = worldWire[p] \o <<f>> /\ worldWire[p] \in Seq(Request)
      /\ \A q \in Player \ {p} : worldWire'[q] = worldWire[q]
  BY <1>1, <1>3, Sending DEF WInv, Base
<1>5. \A q \in Player : \A t, k : Sent(q, t, k) => Sent(q, t, k)'
  BY <1>3, <1>4, SentMore, SentSame
<1>6. Sent(p, "GONE", j)'
  <2> DEFINE w == worldWire[p]
             w2 == worldWire'[p]
  <2>1. w \in Seq(Request) /\ w2 = Append(w, f)
    BY <1>2, <1>4
  <2>2. DOMAIN w2 = DOMAIN w \cup {Len(w) + 1} /\ w2[Len(w) + 1] = f
    BY <1>2, <2>1, Appended
  <2> HIDE DEF w, w2
  <2>3. \E i \in DOMAIN w2 : w2[i].type = "GONE" /\ w2[i].key = j
    BY <1>2, <2>2
  <2> QED BY <2>3 DEF Sent, w2
<1>7. /\ mirrorOwner \in [Player -> [Key -> Player \cup {None}]]
      /\ mirrorValue \in [Player -> [Key -> Value \cup {None}]]
  BY WorldTypes DEF WInv, Base
<1>8. \A q \in Player, k \in Key : q # p \/ k # j =>
        mirrorOwner'[q][k] = mirrorOwner[q][k] /\ mirrorValue'[q][k] = mirrorValue[q][k]
  BY <1>1, <1>7
<1> SUFFICES ASSUME NEW q \in Player, Up(q)', NEW c \in Channel, NEW k \in Key
             PROVE  Exempt(c, q, k)' \/ Final(c, q, k)'
  BY DEF Converging
<1>9. Exempt(c, q, k) \/ Final(c, q, k)
  BY <1>1 DEF WInv, Converging, Up
<1>10. Exempt(c, q, k) => Exempt(c, q, k)'
  BY <1>1, <1>5 DEF Exempt, catalog, worldHistory
<1>11. Due(c, k)' = Due(c, k)
  BY <1>1 DEF Due, catalog
<1>12. HeardBy(outbox', q) = Out(q) /\ inbox'[q] = inbox[q]
  BY <1>1 DEF Out
<1>13. CASE c \in {"owner", "value"} /\ q = p /\ k = j
  BY <1>6, <1>13 DEF Exempt
<1>14. CASE ~(c \in {"owner", "value"} /\ q = p /\ k = j)
  <2>1. Has(c, q, k)' = Has(c, q, k)
    BY <1>1, <1>8, <1>14 DEF Has
  <2> QED BY <1>9, <1>10, <1>11, <1>12, <2>1, FinalNext DEF Final
<1> QED BY <1>13, <1>14

-----------------------------------------------------------------------------
\* The server's handlers.  What is left of the wire, and of everybody.
LEMMA SentTail ==
  ASSUME NetTypeOK, NEW p \in Player, NEW type, Take(p, type), NEW q \in Player, NEW t, NEW k,
         Sent(q, t, k), ~(q = p /\ t = type /\ k = Head(worldWire[p]).key)
  PROVE  Sent(q, t, k)'
<1>1. /\ worldWire[p] \in Seq(Request) /\ worldWire[p] # <<>>
      /\ Head(worldWire[p]).type = type
      /\ worldWire'[p] = Tail(worldWire[p])
      /\ \A r \in Player \ {p} : worldWire'[r] = worldWire[r]
  BY Taken
<1>2. CASE q # p
  BY <1>1, <1>2, SentSame
<1>3. CASE q = p
  <2> DEFINE w == worldWire[p]
             w2 == worldWire'[p]
  <2>1. /\ \A i \in DOMAIN w : i # 1 => i - 1 \in DOMAIN w2 /\ w2[i - 1] = w[i]
        /\ Head(w) = w[1]
    BY <1>1, Tailed, QueueFacts
  <2>2. PICK i \in DOMAIN w : w[i].type = t /\ w[i].key = k
    BY <1>3 DEF Sent
  <2>3. i # 1
    BY <1>1, <1>3, <2>1, <2>2
  <2>4. i - 1 \in DOMAIN w2 /\ w2[i - 1] = w[i]
    BY <2>1, <2>3
  <2> HIDE DEF w, w2
  <2> QED BY <1>3, <2>2, <2>4 DEF Sent, w2
<1> QED BY <1>2, <1>3

LEMMA Handling ==
  ASSUME WInv, NEW p \in Player, NEW type, Take(p, type) \/ TakeLate(p, type)
  PROVE  /\ \A q \in Player : Up(q)' <=> Up(q)
         /\ \A q \in Player, c \in Channel, k \in Key :
              /\ Has(c, q, k)' = Has(c, q, k)
              /\ Up(q) => Exempt(c, q, k) \/ Final(c, q, k)
         /\ \A q \in Player, t \in {"CLAIM", "GONE"}, k \in Key :
              Sent(q, t, k) /\ ~(q = p /\ t = type /\ k = Head(worldWire[p]).key) => Sent(q, t, k)'
         /\ TakeLate(p, type) =>
              \A q \in Player, t \in {"CLAIM", "GONE"}, k \in Key : Sent(q, t, k) => Sent(q, t, k)'
<1>1. UNCHANGED <<worldLink, mirror, claimState>>
  BY DEF Take, TakeLate
<1>2. \A q \in Player : Up(q)' <=> Up(q)
  BY <1>1 DEF Up
<1>3. \A q \in Player, c \in Channel, k \in Key : Has(c, q, k)' = Has(c, q, k)
  BY <1>1 DEF Has, mirror, claimState
<1>4. \A q \in Player, c \in Channel, k \in Key : Up(q) => Exempt(c, q, k) \/ Final(c, q, k)
  BY DEF WInv, Converging
<1>5. NetTypeOK
  BY DEF WInv, Base
<1>6. TakeLate(p, type) =>
        \A q \in Player, t \in {"CLAIM", "GONE"}, k \in Key : Sent(q, t, k) => Sent(q, t, k)'
  BY DEF TakeLate, Sent
<1>7. Take(p, type) =>
        \A q \in Player, t \in {"CLAIM", "GONE"}, k \in Key :
          Sent(q, t, k) /\ ~(q = p /\ t = type /\ k = Head(worldWire[p]).key) => Sent(q, t, k)'
  BY <1>5, SentTail
<1> QED BY <1>2, <1>3, <1>4, <1>6, <1>7

\* A client hears nothing that contradicts what it should have.
LEMMA HandlerKeeps ==
  ASSUME Base, NEW q \in Player, NEW c \in Channel, NEW k \in Key, Final(c, q, k),
         Has(c, q, k)' = Has(c, q, k), Due(c, k)' = Due(c, k),
         NEW f \in Down, NEW g \in Down,
         \/ HeardBy(outbox', q) = Out(q)
         \/ HeardBy(outbox', q) = Append(Out(q), f)
         \/ HeardBy(outbox', q) = Append(Out(q), Blank),
         inbox'[q] = inbox[q] \/ inbox'[q] = Append(inbox[q], g),
         Tells(c, q, f, k) => Says(c, f, k) = Due(c, k),
         Tells(c, q, g, k) => Says(c, g, k) = Due(c, k)
  PROVE  Final(c, q, k)'
<1> DEFINE h == Has(c, q, k)
           x == Due(c, k)
<1>1. Out(q) \in Seq(Down) /\ inbox[q] \in Seq(Down)
  BY HeardFacts DEF Base, NetTypeOK, Out
<1>2. Leads(Out(q), inbox[q], h, c, q, k, x)
  BY DEF Final
<1> HIDE DEF h, x
<1>3. Leads(Out(q), inbox'[q], h, c, q, k, x)
  BY <1>1, <1>2, LeadsReply DEF x
<1>4. inbox'[q] \in Seq(Down)
  <2>1. Append(inbox[q], g) \in Seq(Down)
    BY <1>1, Appended
  <2> QED BY <1>1, <2>1
<1>5. Leads(HeardBy(outbox', q), inbox'[q], h, c, q, k, x)
  BY <1>1, <1>3, <1>4, LeadsCast, BlankFrame, BlankTells DEF x
<1> QED BY <1>5, FinalNext DEF h, x

\* The broadcast tells it.
LEMMA HandlerTells ==
  ASSUME Base, NEW q \in Player, NEW c \in Channel, NEW k \in Key, NEW f \in Down,
         HeardBy(outbox', q) = Append(Out(q), f),
         Tells(c, q, f, k), Says(c, f, k) = Due(c, k)'
  PROVE  Final(c, q, k)'
<1>1. Out(q) \in Seq(Down)
  BY HeardFacts DEF Base, NetTypeOK, Out
<1> QED BY <1>1, LeadsTold, FinalNext

\* The reply does, and no broadcast on its way contradicts it.
LEMMA HandlerReplies ==
  ASSUME Base, NEW q \in Player, NEW c \in Channel, NEW k \in Key, NEW g \in Down,
         HeardBy(outbox', q) = Out(q) \/ HeardBy(outbox', q) = Append(Out(q), Blank),
         inbox'[q] = Append(inbox[q], g),
         Tells(c, q, g, k), Says(c, g, k) = Due(c, k)',
         Quiet(Out(q), c, q, k, Due(c, k)')
  PROVE  Final(c, q, k)'
<1> DEFINE h == Has(c, q, k)'
           x == Due(c, k)'
<1>1. Out(q) \in Seq(Down) /\ inbox[q] \in Seq(Down)
  BY HeardFacts DEF Base, NetTypeOK, Out
<1> HIDE DEF h, x
<1>2. Leads(Out(q), inbox'[q], h, c, q, k, x)
  BY <1>1, LeadsReplied DEF x
<1>3. inbox'[q] \in Seq(Down)
  BY <1>1, Appended
<1>4. Leads(HeardBy(outbox', q), inbox'[q], h, c, q, k, x)
  BY <1>1, <1>2, <1>3, LeadsCast, BlankFrame, BlankTells DEF x
<1> QED BY <1>4, FinalNext DEF h, x

\* No broadcast denies or leaves a claim open; and none that a reply does not
\* overtake tells anything of k.
LEMMA NoDenials ==
  ASSUME Base, NEW q \in Player, NEW c \in {"denied", "claim"}, NEW k \in Key
  PROVE  Quiet(Out(q), c, q, k, "no")
<1>1. outbox \in Seq(Cast) /\ Casting
  BY DEF Base, NetTypeOK
<1>2. ASSUME NEW i \in DOMAIN outbox, Tells(c, q, Heard(outbox[i], q), k)
      PROVE  Says(c, Heard(outbox[i], q), k) = "no"
  <2>1. q \in outbox[i].to
    BY <1>2, BlankTells DEF Heard, Channel
  <2>2. Heard(outbox[i], q).type # "LOCKED"
    BY <1>1, <2>1 DEF Heard, Casting
  <2> QED BY <2>2 DEF Says
<1> QED BY <1>1, <1>2, HeardFacts DEF Out, Quiet

LEMMA NotOvertaken ==
  ASSUME Base, NEW q \in Player, NEW c \in {"owner", "value"}, NEW k \in Key, NEW x, ~Overtakes(q, k)
  PROVE  Quiet(Out(q), c, q, k, x)
<1>1. outbox \in Seq(Cast) /\ Casting
  BY DEF Base, NetTypeOK
<1>2. ASSUME NEW i \in DOMAIN outbox, Tells(c, q, Heard(outbox[i], q), k)
      PROVE  FALSE
  <2>1. q \in outbox[i].to
    BY <1>2, BlankTells DEF Heard, Channel
  <2>2. Heard(outbox[i], q) = outbox[i].frame /\ outbox[i].frame.type \in {"OWNER", "DELTA", "GONE"}
    BY <1>1, <2>1 DEF Heard, Casting
  <2>3. About(outbox[i].frame, k)
    BY <1>2, <2>2 DEF Tells, About
  <2> QED BY <2>1, <2>3 DEF Overtakes
<1> QED BY <1>1, <1>2, HeardFacts DEF Out, Quiet

LEMMA ServeClaimConverges ==
  ASSUME WInv, NEW p \in Player, ServeClaim(p)
  PROVE  Converging'
<1> DEFINE j == Head(worldWire[p]).key
           f == Message("OWNER", j, p, Nothing)
<1>1. Take(p, "CLAIM") /\ Reply(p, f) /\ Broadcast(p, f) /\ UNCHANGED <<value, unheard, stranded, shut>>
      /\ owner' = [owner EXCEPT ![j] = p] /\ astray' = Told(p, j)
  BY DEF ServeClaim
<1>2. /\ Base /\ NetTypeOK /\ owner \in [Key -> Player \cup {None}]
      /\ worldLink \in [Player -> {"up", "down", "evicted"}] /\ astray \in [Player -> SUBSET Key]
  BY WorldTypes DEF WInv, Base
<1>3. j \in Key
  BY ZenonT(60), <1>1, <1>2, Taken, RequestFacts
<1>4. f \in Down /\ f.type = "OWNER" /\ f.key = j /\ f.owner = p
  BY <1>3, DownFrames DEF Message
<1> HIDE DEF f
<1>5. /\ inbox'[p] = Append(inbox[p], f) /\ \A q \in Player \ {p} : inbox'[q] = inbox[q]
      /\ \A q \in Player : q # p /\ Up(q) => HeardBy(outbox', q) = Append(Out(q), f)
      /\ HeardBy(outbox', p) = Append(Out(p), Blank)
  BY <1>1, <1>2, <1>4, Replied, Broadcasts DEF Out
<1>6. /\ \A k \in Key : owner'[k] = IF k = j THEN p ELSE owner[k]
      /\ \A q \in Player, k \in Key : k # j => (k \in astray'[q] <=> k \in astray[q])
      /\ Overtakes(p, j) => j \in astray'[p]
  BY <1>3, <1>1, <1>2 DEF Told
<1> SUFFICES ASSUME NEW q \in Player, Up(q)', NEW c \in Channel, NEW k \in Key
             PROVE  Exempt(c, q, k)' \/ Final(c, q, k)'
  BY DEF Converging
<1>7. /\ Up(q) /\ Has(c, q, k)' = Has(c, q, k) /\ (Exempt(c, q, k) \/ Final(c, q, k))
      /\ Sent(q, "GONE", k) => Sent(q, "GONE", k)'
      /\ k # j /\ Sent(q, "CLAIM", k) => Sent(q, "CLAIM", k)'
  BY <1>1, Handling
<1>8. /\ Tells(c, q, f, k) <=> j = k /\ (c \in {"owner", "claim"} \/ (c = "denied" /\ Reopens(q, p)))
      /\ c = "owner" => Says(c, f, k) = p
      /\ c \in {"claim", "denied"} => Says(c, f, k) = "no"
  BY <1>4, OwnerTells
<1> HIDE DEF j
<1>9. CASE k # j \/ c = "value"
  <2>1. Due(c, k)' = Due(c, k)
    BY <1>1, <1>6, <1>9, Dues, DuesNext DEF Channel
  <2>2. Exempt(c, q, k) => Exempt(c, q, k)'
    BY <1>1, <1>6, <1>7, <1>9 DEF Exempt
  <2>3. Final(c, q, k) => Final(c, q, k)'
    BY <1>2, <1>4, <1>5, <1>7, <1>8, <1>9, <2>1, HandlerKeeps
  <2> QED BY <1>7, <2>2, <2>3
<1>10. CASE k = j /\ q # p /\ c = "denied"
  BY <1>6, <1>10, Constants DEF Exempt
<1>11. CASE k = j /\ q # p /\ c \in {"owner", "claim"}
  BY <1>2, <1>4, <1>5, <1>6, <1>7, <1>8, <1>11, HandlerTells, DuesNext
<1>12. CASE k = j /\ q = p /\ c = "owner"
  <2>1. CASE Overtakes(p, j)
    BY <1>6, <1>12, <2>1 DEF Exempt
  <2>2. CASE ~Overtakes(p, j)
    BY <1>2, <1>4, <1>5, <1>6, <1>8, <1>12, <2>2, NotOvertaken, HandlerReplies, DuesNext
  <2> QED BY <2>1, <2>2
<1>13. CASE k = j /\ q = p /\ c \in {"denied", "claim"}
  <2>1. Due(c, k)' = "no" /\ Tells(c, q, f, k) /\ Says(c, f, k) = "no"
    BY <1>8, <1>13, DuesNext DEF Reopens
  <2>2. Quiet(Out(q), c, q, k, Due(c, k)')
    BY <1>2, <1>13, <2>1, NoDenials
  <2> QED BY <1>2, <1>4, <1>5, <1>13, <2>1, <2>2, HandlerReplies
<1> QED BY <1>9, <1>10, <1>11, <1>12, <1>13 DEF Channel

LEMMA RefuseClaimConverges ==
  ASSUME WInv, NEW p \in Player, RefuseClaim(p)
  PROVE  Converging'
<1> DEFINE j == Head(worldWire[p]).key
           g == Message("LOCKED", j, None, Nothing)
<1>1. Take(p, "CLAIM") /\ Reply(p, g) /\ UNCHANGED <<owner, value, outbox, unheard, astray, stranded, shut>>
      /\ owner[j] \notin {None, p}
  BY DEF RefuseClaim, catalog, worldHistory, Free
<1>2. Base /\ NetTypeOK
  BY DEF WInv, Base
<1>3. j \in Key
  BY <1>1, <1>2, Taken, RequestFacts
<1>4. g \in Down /\ g.type = "LOCKED" /\ g.key = j
  BY <1>3, DownFrames DEF Message
<1> HIDE DEF g
<1>5. /\ inbox'[p] = Append(inbox[p], g) /\ \A q \in Player \ {p} : inbox'[q] = inbox[q]
      /\ \A q \in Player : HeardBy(outbox', q) = Out(q)
  BY <1>1, <1>2, <1>4, Replied DEF Out
<1> SUFFICES ASSUME NEW q \in Player, Up(q)', NEW c \in Channel, NEW k \in Key
             PROVE  Exempt(c, q, k)' \/ Final(c, q, k)'
  BY DEF Converging
<1>6. /\ Up(q) /\ Has(c, q, k)' = Has(c, q, k) /\ (Exempt(c, q, k) \/ Final(c, q, k))
      /\ Sent(q, "GONE", k) => Sent(q, "GONE", k)'
      /\ k # j \/ q # p => (Sent(q, "CLAIM", k) => Sent(q, "CLAIM", k)')
  BY <1>1, Handling
<1>7. /\ Tells(c, q, g, k) <=> j = k /\ c \in {"denied", "claim"}
      /\ c = "denied" => Says(c, g, k) = "yes"
      /\ c = "claim" => Says(c, g, k) = "no"
  BY <1>4, LockedTells
<1>8. Due(c, k)' = Due(c, k)
  BY <1>1 DEF Due
<1> HIDE DEF j
<1>9. CASE k # j \/ q # p \/ c \in {"owner", "value"}
  <2>1. Exempt(c, q, k) => Exempt(c, q, k)'
    BY <1>1, <1>6, <1>9 DEF Exempt
  <2>2. CASE q = p
    BY <1>2, <1>4, <1>5, <1>6, <1>7, <1>8, <1>9, <2>1, <2>2, HandlerKeeps
  <2>3. CASE q # p
    BY <1>2, <1>5, <1>6, <1>8, <2>1, <2>3, HandlerKeeps, BlankFrame, BlankTells
  <2> QED BY <2>2, <2>3
<1>10. CASE k = j /\ q = p /\ c = "denied"
  BY <1>1, <1>10 DEF Exempt
<1>11. CASE k = j /\ q = p /\ c = "claim"
  <2>1. Due(c, k)' = "no"
    BY <1>11, DuesNext
  <2>2. Quiet(Out(q), c, q, k, Due(c, k)')
    BY <1>2, <1>11, <2>1, NoDenials
  <2> QED BY <1>2, <1>4, <1>5, <1>7, <1>11, <2>1, <2>2, HandlerReplies
<1> QED BY <1>9, <1>10, <1>11 DEF Channel

\* A release that is one.
LEMMA ReleaseConverges ==
  ASSUME WInv, NEW p \in Player, ServeRelease(p), owner[Head(worldWire[p]).key] = p
  PROVE  Converging'
<1> DEFINE j == Head(worldWire[p]).key
           f == Message("OWNER", j, None, Nothing)
<1>1. Take(p, "RELEASE") /\ Reply(p, f) /\ Broadcast(p, f) /\ UNCHANGED <<value, unheard, stranded>>
      /\ owner' = [owner EXCEPT ![j] = None] /\ astray' = Told(p, j) /\ shut' = Reopened(p, j)
  BY DEF ServeRelease
<1>2. /\ Base /\ NetTypeOK /\ owner \in [Key -> Player \cup {None}]
      /\ worldLink \in [Player -> {"up", "down", "evicted"}]
      /\ astray \in [Player -> SUBSET Key] /\ shut \in [Player -> SUBSET Key]
  BY WorldTypes DEF WInv, Base
<1>3. j \in Key
  BY <1>1, <1>2, Taken, RequestFacts
<1>4. f \in Down /\ f.type = "OWNER" /\ f.key = j /\ f.owner = None
  BY <1>3, DownFrames DEF Message
<1> HIDE DEF f
<1>5. /\ inbox'[p] = Append(inbox[p], f) /\ \A q \in Player \ {p} : inbox'[q] = inbox[q]
      /\ \A q \in Player : q # p /\ Up(q) => HeardBy(outbox', q) = Append(Out(q), f)
      /\ HeardBy(outbox', p) = Append(Out(p), Blank)
  BY <1>1, <1>2, <1>4, Replied, Broadcasts DEF Out
<1>6. /\ \A k \in Key : owner'[k] = IF k = j THEN None ELSE owner[k]
      /\ \A q \in Player, k \in Key : k # j => (k \in astray'[q] <=> k \in astray[q])
      /\ \A q \in Player, k \in Key : k # j => (k \in shut'[q] <=> k \in shut[q])
      /\ Overtakes(p, j) => j \in astray'[p]
  BY <1>1, <1>2, <1>3 DEF Told, Reopened
<1> SUFFICES ASSUME NEW q \in Player, Up(q)', NEW c \in Channel, NEW k \in Key
             PROVE  Exempt(c, q, k)' \/ Final(c, q, k)'
  BY DEF Converging
<1>7. /\ Up(q) /\ Has(c, q, k)' = Has(c, q, k) /\ (Exempt(c, q, k) \/ Final(c, q, k))
      /\ Sent(q, "GONE", k) => Sent(q, "GONE", k)'
      /\ Sent(q, "CLAIM", k) => Sent(q, "CLAIM", k)'
  BY <1>1, Handling
<1>8. /\ Tells(c, q, f, k) <=> j = k /\ c \in {"owner", "claim", "denied"}
      /\ c = "owner" => Says(c, f, k) = None
      /\ c \in {"claim", "denied"} => Says(c, f, k) = "no"
  BY <1>4, OwnerTells DEF Reopens
<1> HIDE DEF j
<1>9. CASE k # j \/ c = "value"
  <2>1. Due(c, k)' = Due(c, k)
    BY <1>1, <1>6, <1>9, Dues, DuesNext DEF Channel
  <2>2. Exempt(c, q, k) => Exempt(c, q, k)'
    BY <1>1, <1>6, <1>7, <1>9 DEF Exempt
  <2>3. Final(c, q, k) => Final(c, q, k)'
    BY <1>2, <1>4, <1>5, <1>7, <1>8, <1>9, <2>1, HandlerKeeps
  <2> QED BY <1>7, <2>2, <2>3
<1>10. CASE k = j /\ q # p /\ c # "value"
  BY <1>2, <1>4, <1>5, <1>6, <1>7, <1>8, <1>10, HandlerTells, DuesNext DEF Channel
<1>11. CASE k = j /\ q = p /\ c = "owner"
  <2>1. CASE Overtakes(p, j)
    BY <1>6, <1>11, <2>1 DEF Exempt
  <2>2. CASE ~Overtakes(p, j)
    BY <1>2, <1>4, <1>5, <1>6, <1>8, <1>11, <2>2, NotOvertaken, HandlerReplies, DuesNext
  <2> QED BY <2>1, <2>2
<1>12. CASE k = j /\ q = p /\ c \in {"denied", "claim"}
  <2>1. Due(c, k)' = "no" /\ Tells(c, q, f, k) /\ Says(c, f, k) = "no"
    BY <1>8, <1>12, DuesNext
  <2>2. Quiet(Out(q), c, q, k, Due(c, k)')
    BY <1>2, <1>12, <2>1, NoDenials
  <2> QED BY <1>2, <1>4, <1>5, <1>12, <2>1, <2>2, HandlerReplies
<1> QED BY <1>9, <1>10, <1>11, <1>12 DEF Channel

\* A release of what is not the player's: it is told whose it is.
LEMMA OthersReleaseConverges ==
  ASSUME WInv, NEW p \in Player, ServeRelease(p), owner[Head(worldWire[p]).key] # p
  PROVE  Converging'
<1> DEFINE j == Head(worldWire[p]).key
           g == Message("OWNER", j, owner[j], Nothing)
<1>1. Take(p, "RELEASE") /\ Reply(p, g)
      /\ UNCHANGED <<owner, value, outbox, unheard, stranded, shut>>
      /\ astray' = [astray EXCEPT ![p] = IF Overtakes(p, j) THEN @ \cup {j} ELSE @ \ {j}]
  BY DEF ServeRelease
<1>2. /\ Base /\ NetTypeOK /\ owner \in [Key -> Player \cup {None}] /\ astray \in [Player -> SUBSET Key]
  BY WorldTypes DEF WInv, Base
<1>3. j \in Key
  BY <1>1, <1>2, Taken, RequestFacts
<1>4. g \in Down /\ g.type = "OWNER" /\ g.key = j /\ g.owner = owner[j]
  BY <1>2, <1>3, DownFrames DEF Message
<1> HIDE DEF g
<1>5. /\ inbox'[p] = Append(inbox[p], g) /\ \A q \in Player \ {p} : inbox'[q] = inbox[q]
      /\ \A q \in Player : HeardBy(outbox', q) = Out(q)
  BY <1>1, <1>2, <1>4, Replied DEF Out
<1>6. /\ \A q \in Player, k \in Key : k # j \/ q # p => (k \in astray'[q] <=> k \in astray[q])
      /\ Overtakes(p, j) => j \in astray'[p]
  BY <1>1, <1>2
<1> SUFFICES ASSUME NEW q \in Player, Up(q)', NEW c \in Channel, NEW k \in Key
             PROVE  Exempt(c, q, k)' \/ Final(c, q, k)'
  BY DEF Converging
<1>7. /\ Up(q) /\ Has(c, q, k)' = Has(c, q, k) /\ (Exempt(c, q, k) \/ Final(c, q, k))
      /\ Sent(q, "GONE", k) => Sent(q, "GONE", k)'
      /\ Sent(q, "CLAIM", k) => Sent(q, "CLAIM", k)'
  BY <1>1, Handling
<1>8. /\ Tells(c, q, g, k) <=> j = k /\ (c \in {"owner", "claim"} \/ (c = "denied" /\ Reopens(q, owner[j])))
      /\ c = "owner" => Says(c, g, k) = owner[j]
      /\ c \in {"claim", "denied"} => Says(c, g, k) = "no"
  BY <1>4, OwnerTells
<1>9. Due(c, k)' = Due(c, k)
  BY <1>1 DEF Due
<1> HIDE DEF j
<1>10. CASE k # j \/ q # p \/ c = "value"
  <2>1. Exempt(c, q, k) => Exempt(c, q, k)'
    BY <1>1, <1>6, <1>7, <1>10 DEF Exempt
  <2>2. CASE q = p
    BY <1>2, <1>4, <1>5, <1>7, <1>8, <1>9, <1>10, <2>1, <2>2, HandlerKeeps
  <2>3. CASE q # p
    BY <1>2, <1>5, <1>7, <1>9, <2>1, <2>3, HandlerKeeps, BlankFrame, BlankTells
  <2> QED BY <2>2, <2>3
<1>11. CASE k = j /\ q = p /\ c = "owner"
  <2>1. CASE Overtakes(p, j)
    BY <1>6, <1>11, <2>1 DEF Exempt
  <2>2. CASE ~Overtakes(p, j)
    <3>1. Due(c, k)' = owner[j]
      BY <1>1, <1>11, DuesNext
    <3> QED BY <1>2, <1>4, <1>5, <1>8, <1>11, <2>2, <3>1, NotOvertaken, HandlerReplies
  <2> QED BY <2>1, <2>2
<1>12. CASE k = j /\ q = p /\ c = "denied" /\ ~Reopens(p, owner[j])
  BY <1>1, <1>12 DEF Exempt, Reopens
<1>13. CASE k = j /\ q = p /\ (c = "claim" \/ (c = "denied" /\ Reopens(p, owner[j])))
  <2>1. Due(c, k)' = "no" /\ Tells(c, q, g, k) /\ Says(c, g, k) = "no"
    BY <1>8, <1>13, DuesNext
  <2>2. Quiet(Out(q), c, q, k, Due(c, k)')
    BY <1>2, <1>13, <2>1, NoDenials
  <2> QED BY <1>2, <1>4, <1>5, <1>13, <2>1, <2>2, HandlerReplies
<1> QED BY <1>10, <1>11, <1>12, <1>13 DEF Channel

LEMMA StoreOwnConverges ==
  ASSUME WInv, NEW p \in Player, NEW r \in Request, r.type = "UPDATE",
         Take(p, "UPDATE") \/ TakeLate(p, "UPDATE"), StoreOwn(p, r.values)
  PROVE  Converging'
<1> DEFINE fields == r.values
           news == Changed(fields, DOMAIN fields)
           delta == [k \in news |-> fields[k]]
           f == Message("DELTA", None, None, delta)
<1>1. UNCHANGED <<owner, inbox, astray, stranded, shut>>
      /\ Store(fields, DOMAIN fields)
      /\ (\A k \in DOMAIN fields : owner[k] = p)
      /\ unheard' = [q \in Player |-> IF q = p THEN unheard[q] \cup news ELSE unheard[q] \ news]
  BY DEF StoreOwn
<1>2. IF news = {} THEN outbox' = outbox ELSE Broadcast(p, f)
  BY DEF StoreOwn
<1>3. /\ Base /\ NetTypeOK /\ WorldTypeOK
      /\ worldLink \in [Player -> {"up", "down", "evicted"}]
      /\ unheard \in [Player -> SUBSET Key]
  BY WorldTypes DEF WInv, Base
<1>4. DOMAIN fields \subseteq Key /\ \A k \in DOMAIN fields : fields[k] \in Value
  BY RequestFacts
<1>5. /\ news \subseteq DOMAIN fields
      /\ \A k \in DOMAIN fields : k \notin news => fields[k] = value[k]
  BY DEF Changed
<1>6. \A k \in Key : value'[k] = IF k \in DOMAIN fields THEN fields[k] ELSE value[k]
  BY <1>1, <1>3, <1>4, Stored
<1> HIDE DEF news, fields
<1>7. f \in Down /\ f.type = "DELTA" /\ f.values = delta
  <2>1. delta \in [news -> Value \cup {None}] /\ news \in SUBSET Key
    BY <1>4, <1>5
  <2> HIDE DEF delta
  <2>2. f \in Down
    BY <2>1, DeltaFrame
  <2> QED BY <2>2 DEF Message
<1>8. DOMAIN delta = news /\ \A k \in news : delta[k] = fields[k]
  OBVIOUS
<1> HIDE DEF delta, f
<1>9. /\ \A q \in Player : inbox'[q] = inbox[q]
      /\ \A q \in Player : Up(q) =>
           \/ news = {} /\ HeardBy(outbox', q) = Out(q)
           \/ q # p /\ HeardBy(outbox', q) = Append(Out(q), f)
           \/ q = p /\ HeardBy(outbox', q) = Append(Out(q), Blank)
  <2>1. CASE news = {}
    BY <1>1, <1>2, <2>1 DEF Out
  <2>2. CASE news # {}
    BY <1>1, <1>2, <1>3, <1>7, <2>2, Broadcasts DEF Out
  <2> QED BY <2>1, <2>2
<1>10. \A q \in Player, k \in Key : k \in unheard'[q] <=> IF k \in news THEN q = p ELSE k \in unheard[q]
  BY <1>1, <1>3
<1> SUFFICES ASSUME NEW q \in Player, Up(q)', NEW c \in Channel, NEW k \in Key
             PROVE  Exempt(c, q, k)' \/ Final(c, q, k)'
  BY DEF Converging
<1>11. /\ Up(q) /\ Has(c, q, k)' = Has(c, q, k) /\ (Exempt(c, q, k) \/ Final(c, q, k))
       /\ Sent(q, "GONE", k) => Sent(q, "GONE", k)'
       /\ Sent(q, "CLAIM", k) => Sent(q, "CLAIM", k)'
  <2>1. /\ Up(q) /\ Has(c, q, k)' = Has(c, q, k) /\ (Exempt(c, q, k) \/ Final(c, q, k))
        /\ \A t \in {"CLAIM", "GONE"} : Sent(q, t, k) => Sent(q, t, k)'
    BY Handling
  <2> QED BY <2>1
<1>12. /\ Tells(c, q, f, k) <=> c = "value" /\ k \in news
       /\ c = "value" => Says(c, f, k) = delta[k]
  BY <1>7, <1>8, DeltaTells
<1>13. CASE c # "value" \/ k \notin news
  <2>1. Due(c, k)' = Due(c, k)
    BY <1>1, <1>5, <1>6, <1>13, Dues, DuesNext DEF Channel
  <2>2. Exempt(c, q, k) => Exempt(c, q, k)'
    BY <1>1, <1>10, <1>11, <1>13 DEF Exempt
  <2>3. Final(c, q, k) => Final(c, q, k)'
    BY <1>3, <1>7, <1>9, <1>11, <1>12, <1>13, <2>1, HandlerKeeps
  <2> QED BY <1>11, <2>2, <2>3
<1>14. CASE c = "value" /\ k \in news /\ q = p
  BY <1>10, <1>14 DEF Exempt
<1>15. CASE c = "value" /\ k \in news /\ q # p
  <2>1. HeardBy(outbox', q) = Append(Out(q), f)
    BY <1>9, <1>11, <1>15
  <2>2. Due(c, k)' = delta[k]
    BY <1>5, <1>6, <1>8, <1>15, DuesNext
  <2> QED BY <1>3, <1>7, <1>12, <1>15, <2>1, <2>2, HandlerTells
<1> QED BY <1>13, <1>14, <1>15

LEMMA RefuseUpdateConverges ==
  ASSUME WInv, NEW p \in Player, NEW j \in Key, NEW K \in SUBSET Key, RefuseUpdate(p, j, K)
  PROVE  Converging'
<1> DEFINE fields == Head(worldWire[p]).values
           news == Changed(fields, K)
           g == Message(IF j \in exists THEN "LOCKED" ELSE "NOT_FOUND", j, None, Nothing)
<1>1. Take(p, "UPDATE") /\ UNCHANGED <<owner, outbox, astray, stranded>>
      /\ Store(fields, K) /\ Reply(p, g)
      /\ owner[j] # p /\ K \subseteq DOMAIN fields /\ (\A k \in K : owner[k] = p)
      /\ unheard' = [q \in Player |-> unheard[q] \cup news]
  BY DEF RefuseUpdate, StoreSome
<1>2. shut' = IF j \in exists /\ owner[j] = None THEN [shut EXCEPT ![p] = @ \cup {j}] ELSE shut
  BY DEF RefuseUpdate
<1>3. /\ Base /\ NetTypeOK /\ WorldTypeOK
      /\ unheard \in [Player -> SUBSET Key] /\ shut \in [Player -> SUBSET Key]
  BY WorldTypes DEF WInv, Base
<1>4. DOMAIN fields \subseteq Key /\ \A k \in DOMAIN fields : fields[k] \in Value
  BY ZenonT(60), <1>1, <1>3, Taken, RequestFacts
<1>5. news \subseteq K /\ \A k \in K : k \notin news => fields[k] = value[k]
  BY DEF Changed
<1>6. \A k \in Key : value'[k] = IF k \in K THEN fields[k] ELSE value[k]
  <2>1. \A k \in K : fields[k] \in Value /\ owner[k] \in Player
    BY <1>1, <1>4
  <2> QED BY <1>1, <1>3, <2>1, Stored
<1>7. /\ g \in Down /\ g.key = j
      /\ g.type = IF j \in exists THEN "LOCKED" ELSE "NOT_FOUND"
  BY DownFrames DEF Message
<1> HIDE DEF news, fields, g
<1>8. /\ inbox'[p] = Append(inbox[p], g) /\ \A q \in Player \ {p} : inbox'[q] = inbox[q]
      /\ \A q \in Player : HeardBy(outbox', q) = Out(q)
  BY <1>1, <1>3, <1>7, Replied DEF Out
<1>9. /\ \A q \in Player, k \in Key : k \in unheard'[q] <=> k \in unheard[q] \/ k \in news
      /\ \A q \in Player, k \in Key : k \in shut[q] => k \in shut'[q]
      /\ j \in exists /\ owner[j] = None => j \in shut'[p]
  BY <1>1, <1>2, <1>3
<1> SUFFICES ASSUME NEW q \in Player, Up(q)', NEW c \in Channel, NEW k \in Key
             PROVE  Exempt(c, q, k)' \/ Final(c, q, k)'
  BY DEF Converging
<1>10. /\ Up(q) /\ Has(c, q, k)' = Has(c, q, k) /\ (Exempt(c, q, k) \/ Final(c, q, k))
       /\ Sent(q, "GONE", k) => Sent(q, "GONE", k)'
       /\ Sent(q, "CLAIM", k) => Sent(q, "CLAIM", k)'
  BY <1>1, Handling
<1>11. /\ Tells(c, q, g, k) => j \in exists /\ j = k /\ c \in {"denied", "claim"}
       /\ Tells(c, q, g, k) /\ c = "claim" => Says(c, g, k) = "no"
  BY <1>7, LockedTells, NotFoundTells
<1>12. Exempt(c, q, k) => Exempt(c, q, k)'
  BY <1>1, <1>9, <1>10 DEF Exempt
<1>13. CASE c = "value" /\ k \in news
  BY <1>9, <1>13 DEF Exempt
<1>14. CASE c = "denied" /\ q = p /\ k = j /\ j \in exists
  BY <1>1, <1>9, <1>14 DEF Exempt
<1>15. CASE ~(c = "value" /\ k \in news) /\ ~(c = "denied" /\ q = p /\ k = j /\ j \in exists)
  <2>1. Due(c, k)' = Due(c, k)
    BY <1>1, <1>5, <1>6, <1>15, Dues, DuesNext DEF Channel
  <2>2. CASE q = p
    <3>1. Tells(c, q, g, k) => Says(c, g, k) = Due(c, k)
      BY <1>11, <1>15, <2>2, Dues
    <3> QED BY <1>3, <1>7, <1>8, <1>10, <1>12, <2>1, <2>2, <3>1, HandlerKeeps
  <2>3. CASE q # p
    BY <1>3, <1>8, <1>10, <1>12, <2>1, <2>3, HandlerKeeps, BlankFrame, BlankTells
  <2> QED BY <2>2, <2>3
<1> QED BY <1>13, <1>14, <1>15

\* A player that was told nothing of an object since it removed it.
LEMMA Unreadmitted ==
  ASSUME Base, NEW p \in Player, NEW k \in Key, NEW c \in {"owner", "value"}, ~Readmits(p, k)
  PROVE  Leads(Out(p), inbox[p], Has(c, p, k), c, p, k, None)
<1>1. ~Overtakes(p, k) /\ mirrorOwner[p][k] = None /\ mirrorValue[p][k] = None
      /\ ~\E i \in DOMAIN inbox[p] : About(inbox[p][i], k)
  BY DEF Readmits
<1>2. Quiet(Out(p), c, p, k, None)
  BY <1>1, NotOvertaken
<1>3. Quiet(inbox[p], c, p, k, None)
  <2>1. inbox[p] \in Seq(Down)
    BY DEF Base, NetTypeOK
  <2>2. ASSUME NEW i \in DOMAIN inbox[p], Tells(c, p, inbox[p][i], k)
        PROVE  About(inbox[p][i], k)
    <3>1. inbox[p][i] \in Down
      BY <2>1, QueueFacts
    <3>2. inbox[p][i].type = "STATE" => k \in DOMAIN inbox[p][i].values
      BY <3>1, DownFacts
    <3> QED BY <2>2, <3>2 DEF Tells, About
  <2> QED BY <1>1, <2>2 DEF Quiet
<1>4. Has(c, p, k) = None
  BY <1>1, Holds
<1> QED BY <1>2, <1>3, <1>4 DEF Leads

LEMMA DiscardConverges ==
  ASSUME WInv, NEW p \in Player, NEW j \in Key, Discard(p, j),
         \/ Take(p, "GONE") /\ j = Head(worldWire[p]).key
         \/ TakeLate(p, "GONE")
  PROVE  Converging'
<1> DEFINE f == Message("GONE", j, None, Nothing)
<1>1. Broadcast(p, f) /\ UNCHANGED <<inbox, stranded>>
      /\ owner' = [owner EXCEPT ![j] = None] /\ value' = [value EXCEPT ![j] = None]
      /\ unheard' = [q \in Player |-> IF q = p /\ Readmits(p, j) THEN unheard[q] \cup {j} ELSE unheard[q] \ {j}]
      /\ astray' = [q \in Player |-> IF q = p /\ Readmits(p, j) THEN astray[q] \cup {j} ELSE astray[q] \ {j}]
      /\ shut' = [q \in Player |-> shut[q] \cup {j}]
  BY DEF Discard
<1>2. /\ Base /\ NetTypeOK /\ owner \in [Key -> Player \cup {None}] /\ value \in [Key -> Value \cup {None}]
      /\ worldLink \in [Player -> {"up", "down", "evicted"}]
      /\ astray \in [Player -> SUBSET Key] /\ shut \in [Player -> SUBSET Key]
      /\ unheard \in [Player -> SUBSET Key]
  BY WorldTypes DEF WInv, Base
<1>4. f \in Down /\ f.type = "GONE" /\ f.key = j /\ f.owner = None
  BY DownFrames DEF Message
<1> HIDE DEF f
<1>5. /\ \A q \in Player : inbox'[q] = inbox[q]
      /\ \A q \in Player : q # p /\ Up(q) => HeardBy(outbox', q) = Append(Out(q), f)
      /\ HeardBy(outbox', p) = Append(Out(p), Blank)
  BY <1>1, <1>2, <1>4, Broadcasts DEF Out
<1>6. /\ \A k \in Key : owner'[k] = IF k = j THEN None ELSE owner[k]
      /\ \A k \in Key : value'[k] = IF k = j THEN None ELSE value[k]
  BY <1>1, <1>2
<1>7. /\ \A q \in Player, k \in Key : k # j => (k \in astray'[q] <=> k \in astray[q])
      /\ \A q \in Player, k \in Key : k # j => (k \in unheard'[q] <=> k \in unheard[q])
      /\ \A q \in Player, k \in Key : k \in shut'[q] <=> k = j \/ k \in shut[q]
      /\ Readmits(p, j) => j \in astray'[p] /\ j \in unheard'[p]
  BY <1>1, <1>2
<1> SUFFICES ASSUME NEW q \in Player, Up(q)', NEW c \in Channel, NEW k \in Key
             PROVE  Exempt(c, q, k)' \/ Final(c, q, k)'
  BY DEF Converging
<1>8. /\ Up(q) /\ Has(c, q, k)' = Has(c, q, k) /\ (Exempt(c, q, k) \/ Final(c, q, k))
      /\ k # j => (Sent(q, "GONE", k) => Sent(q, "GONE", k)')
      /\ Sent(q, "CLAIM", k) => Sent(q, "CLAIM", k)'
  BY Handling
<1>9. /\ Tells(c, q, f, k) <=> j = k /\ c \in {"owner", "value"}
      /\ c \in {"owner", "value"} => Says(c, f, k) = None
  BY <1>4, GoneTells
<1>10. CASE k # j \/ c = "claim"
  <2>1. Due(c, k)' = Due(c, k)
    BY <1>6, <1>10, Dues, DuesNext DEF Channel
  <2>2. Exempt(c, q, k) => Exempt(c, q, k)'
    BY <1>1, <1>6, <1>7, <1>8, <1>10 DEF Exempt
  <2>3. Final(c, q, k) => Final(c, q, k)'
    BY <1>2, <1>4, <1>5, <1>8, <1>9, <1>10, <2>1, HandlerKeeps
  <2> QED BY <1>8, <2>2, <2>3
<1>11. CASE k = j /\ c = "denied"
  BY <1>7, <1>11 DEF Exempt
<1>12. CASE k = j /\ q # p /\ c \in {"owner", "value"}
  <2>1. Due(c, k)' = None
    BY <1>6, <1>12, DuesNext
  <2> QED BY <1>2, <1>4, <1>5, <1>8, <1>9, <1>12, <2>1, HandlerTells
<1>13. CASE k = j /\ q = p /\ c \in {"owner", "value"}
  <2>1. CASE Readmits(p, j)
    BY <1>7, <1>13, <2>1 DEF Exempt
  <2>2. CASE ~Readmits(p, j)
    <3> DEFINE h == Has(c, p, k)
    <3>1. Leads(Out(p), inbox[p], h, c, p, k, None)
      BY <1>2, <1>13, <2>2, Unreadmitted
    <3>2. Out(p) \in Seq(Down) /\ inbox[p] \in Seq(Down)
      BY <1>2, HeardFacts DEF NetTypeOK, Out
    <3> HIDE DEF h
    <3>3. Leads(Append(Out(p), Blank), inbox[p], h, c, p, k, None)
      BY <3>1, <3>2, LeadsCast, BlankFrame, BlankTells
    <3>4. Due(c, k)' = None
      BY <1>6, <1>13, DuesNext
    <3> QED BY <1>5, <1>8, <1>13, <3>3, <3>4, FinalNext DEF h
  <2> QED BY <2>1, <2>2
<1> QED BY <1>10, <1>11, <1>12, <1>13 DEF Channel

LEMMA RefuseGoneConverges ==
  ASSUME WInv, NEW p \in Player, RefuseGone(p)
  PROVE  Converging'
<1> DEFINE j == Head(worldWire[p]).key
           g == Message("LOCKED", j, None, Nothing)
<1>1. Take(p, "GONE") /\ Reply(p, g) /\ UNCHANGED <<owner, value, outbox, stranded, shut>>
      /\ owner[j] \notin {None, p}
      /\ unheard' = [unheard EXCEPT ![p] = @ \cup {j}] /\ astray' = [astray EXCEPT ![p] = @ \cup {j}]
  BY DEF RefuseGone, catalog, Free
<1>2. Base /\ NetTypeOK /\ astray \in [Player -> SUBSET Key] /\ unheard \in [Player -> SUBSET Key]
  BY WorldTypes DEF WInv, Base
<1>3. j \in Key
  BY <1>1, <1>2, Taken, RequestFacts
<1>4. g \in Down /\ g.type = "LOCKED" /\ g.key = j
  BY <1>3, DownFrames DEF Message
<1> HIDE DEF g
<1>5. /\ inbox'[p] = Append(inbox[p], g) /\ \A q \in Player \ {p} : inbox'[q] = inbox[q]
      /\ \A q \in Player : HeardBy(outbox', q) = Out(q)
  BY <1>1, <1>2, <1>4, Replied DEF Out
<1>6. /\ \A q \in Player, k \in Key : k \in astray'[q] <=> k \in astray[q] \/ (q = p /\ k = j)
      /\ \A q \in Player, k \in Key : k \in unheard'[q] <=> k \in unheard[q] \/ (q = p /\ k = j)
  BY <1>1, <1>2
<1> SUFFICES ASSUME NEW q \in Player, Up(q)', NEW c \in Channel, NEW k \in Key
             PROVE  Exempt(c, q, k)' \/ Final(c, q, k)'
  BY DEF Converging
<1>7. /\ Up(q) /\ Has(c, q, k)' = Has(c, q, k) /\ (Exempt(c, q, k) \/ Final(c, q, k))
      /\ k # j \/ q # p => (Sent(q, "GONE", k) => Sent(q, "GONE", k)')
      /\ Sent(q, "CLAIM", k) => Sent(q, "CLAIM", k)'
  BY <1>1, Handling
<1>8. /\ Tells(c, q, g, k) <=> j = k /\ c \in {"denied", "claim"}
      /\ c = "claim" => Says(c, g, k) = "no"
  BY <1>4, LockedTells
<1>9. Due(c, k)' = Due(c, k)
  BY <1>1 DEF Due
<1> HIDE DEF j
<1>10. CASE k # j \/ q # p \/ c = "claim"
  <2>1. Exempt(c, q, k) => Exempt(c, q, k)'
    BY <1>1, <1>6, <1>7, <1>10 DEF Exempt
  <2>2. CASE q = p
    <3>1. Tells(c, q, g, k) => Says(c, g, k) = Due(c, k)
      BY <1>8, <1>10, <2>2, Dues
    <3> QED BY <1>2, <1>4, <1>5, <1>7, <1>9, <2>1, <2>2, <3>1, HandlerKeeps
  <2>3. CASE q # p
    BY <1>2, <1>5, <1>7, <1>9, <2>1, <2>3, HandlerKeeps, BlankFrame, BlankTells
  <2> QED BY <2>2, <2>3
<1>11. CASE k = j /\ q = p /\ c \in {"owner", "value"}
  BY <1>6, <1>11 DEF Exempt
<1>12. CASE k = j /\ q = p /\ c = "denied"
  BY <1>1, <1>12 DEF Exempt
<1> QED BY <1>10, <1>11, <1>12 DEF Channel

\* The handlers a failing reply ends: whoever should have been told is exempt.
LEMMA CutKeeps ==
  ASSUME WInv, NEW p \in Player, NEW type, TakeLate(p, type), HangsUp(p), stranded' = stranded,
         NEW q \in Player, NEW c \in Channel, NEW k \in Key, Up(q)'
  PROVE  /\ Up(q) /\ (Exempt(c, q, k) \/ Final(c, q, k))
         /\ Sent(q, "GONE", k) => Sent(q, "GONE", k)'
         /\ Sent(q, "CLAIM", k) => Sent(q, "CLAIM", k)'
         /\ Due(c, k)' = Due(c, k) => (Final(c, q, k) => Final(c, q, k)')
<1>1. Base
  BY DEF WInv
<1>2. UNCHANGED <<inbox, outbox>>
  BY <1>1, CutNet
<1>3. /\ Up(q) /\ Has(c, q, k)' = Has(c, q, k) /\ (Exempt(c, q, k) \/ Final(c, q, k))
      /\ \A t \in {"CLAIM", "GONE"} : Sent(q, t, k) => Sent(q, t, k)'
  BY Handling
<1>4. HeardBy(outbox', q) = Out(q) /\ inbox'[q] = inbox[q]
  BY <1>2 DEF Out
<1>5. ASSUME Due(c, k)' = Due(c, k), Final(c, q, k) PROVE Final(c, q, k)'
  BY <1>3, <1>4, <1>5, FinalNext DEF Final
<1> QED BY <1>3, <1>5

LEMMA LateClaimConverges ==
  ASSUME WInv, NEW p \in Player, LateClaim(p)
  PROVE  Converging'
<1> DEFINE j == Head(lateWire[p]).key
<1>1. TakeLate(p, "CLAIM") /\ HangsUp(p) /\ UNCHANGED <<value, unheard, stranded, shut>>
      /\ owner[j] = None /\ owner' = [owner EXCEPT ![j] = p]
      /\ astray' = [q \in Player |-> astray[q] \cup {j}]
  BY DEF LateClaim, Untold
<1>2. j \in Key /\ owner \in [Key -> Player \cup {None}] /\ astray \in [Player -> SUBSET Key]
  BY <1>1, TakenLate, RequestFacts, WorldTypes DEF WInv, Base
<1> HIDE DEF j
<1>3. /\ \A k \in Key : owner'[k] = IF k = j THEN p ELSE owner[k]
      /\ \A q \in Player, k \in Key : k \in astray'[q] <=> k = j \/ k \in astray[q]
  BY <1>1, <1>2
<1> SUFFICES ASSUME NEW q \in Player, Up(q)', NEW c \in Channel, NEW k \in Key
             PROVE  Exempt(c, q, k)' \/ Final(c, q, k)'
  BY DEF Converging
<1>4. /\ Exempt(c, q, k) \/ Final(c, q, k)
      /\ Sent(q, "GONE", k) => Sent(q, "GONE", k)'
      /\ Sent(q, "CLAIM", k) => Sent(q, "CLAIM", k)'
      /\ Due(c, k)' = Due(c, k) => (Final(c, q, k) => Final(c, q, k)')
  BY <1>1, CutKeeps
<1>5. CASE c = "owner" /\ k = j
  BY <1>3, <1>5 DEF Exempt
<1>6. CASE ~(c = "owner" /\ k = j)
  <2>1. Due(c, k)' = Due(c, k)
    BY <1>1, <1>3, <1>6, Dues, DuesNext DEF Channel
  <2>2. Exempt(c, q, k) => Exempt(c, q, k)'
    BY <1>1, <1>3, <1>4, <1>6 DEF Exempt
  <2> QED BY <1>4, <2>1, <2>2
<1> QED BY <1>5, <1>6

LEMMA LateReleaseConverges ==
  ASSUME WInv, NEW p \in Player, LateRelease(p)
  PROVE  Converging'
<1> DEFINE j == Head(lateWire[p]).key
<1>1. TakeLate(p, "RELEASE") /\ HangsUp(p) /\ UNCHANGED <<value, unheard, stranded>>
      /\ owner' = [owner EXCEPT ![j] = None]
      /\ astray' = [q \in Player |-> astray[q] \cup {j}]
      /\ shut' = [q \in Player |-> shut[q] \cup {j}]
  BY DEF LateRelease, Untold
<1>2. /\ j \in Key /\ owner \in [Key -> Player \cup {None}]
      /\ astray \in [Player -> SUBSET Key] /\ shut \in [Player -> SUBSET Key]
  BY <1>1, TakenLate, RequestFacts, WorldTypes DEF WInv, Base
<1> HIDE DEF j
<1>3. /\ \A k \in Key : owner'[k] = IF k = j THEN None ELSE owner[k]
      /\ \A q \in Player, k \in Key : k \in astray'[q] <=> k = j \/ k \in astray[q]
      /\ \A q \in Player, k \in Key : k \in shut'[q] <=> k = j \/ k \in shut[q]
  BY <1>1, <1>2
<1> SUFFICES ASSUME NEW q \in Player, Up(q)', NEW c \in Channel, NEW k \in Key
             PROVE  Exempt(c, q, k)' \/ Final(c, q, k)'
  BY DEF Converging
<1>4. /\ Exempt(c, q, k) \/ Final(c, q, k)
      /\ Sent(q, "GONE", k) => Sent(q, "GONE", k)'
      /\ Sent(q, "CLAIM", k) => Sent(q, "CLAIM", k)'
      /\ Due(c, k)' = Due(c, k) => (Final(c, q, k) => Final(c, q, k)')
  BY <1>1, CutKeeps
<1>5. CASE c \in {"owner", "denied"} /\ k = j
  BY <1>3, <1>5 DEF Exempt
<1>6. CASE ~(c \in {"owner", "denied"} /\ k = j)
  <2>1. Due(c, k)' = Due(c, k)
    BY <1>1, <1>3, <1>6, Dues, DuesNext DEF Channel
  <2>2. Exempt(c, q, k) => Exempt(c, q, k)'
    BY <1>1, <1>3, <1>4, <1>6 DEF Exempt
  <2> QED BY <1>4, <2>1, <2>2
<1> QED BY <1>5, <1>6

LEMMA LateRefusalConverges ==
  ASSUME WInv, NEW p \in Player, NEW j \in Key, NEW K \in SUBSET Key, LateRefusal(p, j, K)
  PROVE  Converging'
<1> DEFINE fields == Head(lateWire[p]).values
           news == Changed(fields, K)
<1>1. TakeLate(p, "UPDATE") /\ HangsUp(p) /\ UNCHANGED <<exists, owner, astray, stranded, shut>>
      /\ Store(fields, K) /\ unheard' = [q \in Player |-> unheard[q] \cup news]
      /\ K \subseteq DOMAIN fields /\ \A k \in K : owner[k] = p
  BY DEF LateRefusal, StoreSome
<1>2. \A k \in DOMAIN fields : fields[k] \in Value
  BY <1>1, TakenLate, RequestFacts DEF WInv, Base
<1>3. WorldTypeOK /\ unheard \in [Player -> SUBSET Key]
  BY WorldTypes DEF WInv, Base
<1>4. news \subseteq K /\ \A k \in K : k \notin news => fields[k] = value[k]
  BY DEF Changed
<1> HIDE DEF fields, news
<1>5. \A k \in Key : value'[k] = IF k \in K THEN fields[k] ELSE value[k]
  <2>1. \A k \in K : fields[k] \in Value /\ owner[k] \in Player
    BY <1>1, <1>2
  <2> QED BY <1>1, <1>3, <2>1, Stored
<1>6. \A q \in Player, k \in Key : k \in unheard'[q] <=> k \in unheard[q] \/ k \in news
  BY <1>1, <1>3
<1> SUFFICES ASSUME NEW q \in Player, Up(q)', NEW c \in Channel, NEW k \in Key
             PROVE  Exempt(c, q, k)' \/ Final(c, q, k)'
  BY DEF Converging
<1>7. /\ Exempt(c, q, k) \/ Final(c, q, k)
      /\ Sent(q, "GONE", k) => Sent(q, "GONE", k)'
      /\ Sent(q, "CLAIM", k) => Sent(q, "CLAIM", k)'
      /\ Due(c, k)' = Due(c, k) => (Final(c, q, k) => Final(c, q, k)')
  BY <1>1, CutKeeps
<1>8. CASE c = "value" /\ k \in news
  BY <1>6, <1>8 DEF Exempt
<1>9. CASE ~(c = "value" /\ k \in news)
  <2>1. Due(c, k)' = Due(c, k)
    BY <1>1, <1>4, <1>5, <1>9, Dues, DuesNext DEF Channel
  <2>2. Exempt(c, q, k) => Exempt(c, q, k)'
    BY <1>1, <1>6, <1>7 DEF Exempt
  <2> QED BY <1>7, <2>1, <2>2
<1> QED BY <1>8, <1>9

LEMMA LateInVainConverges ==
  ASSUME WInv, NEW p \in Player, LateInVain(p)
  PROVE  Converging'
<1>1. HangsUp(p) /\ UNCHANGED <<catalog, worldHistory>>
  BY DEF LateInVain
<1>2. PICK type \in {"CLAIM", "RELEASE", "GONE"} : TakeLate(p, type)
  BY DEF LateInVain
<1>3. stranded' = stranded
  BY <1>1 DEF worldHistory
<1> SUFFICES ASSUME NEW q \in Player, Up(q)', NEW c \in Channel, NEW k \in Key
             PROVE  Exempt(c, q, k)' \/ Final(c, q, k)'
  BY DEF Converging
<1>4. /\ Exempt(c, q, k) \/ Final(c, q, k)
      /\ Sent(q, "GONE", k) => Sent(q, "GONE", k)'
      /\ Sent(q, "CLAIM", k) => Sent(q, "CLAIM", k)'
      /\ Due(c, k)' = Due(c, k) => (Final(c, q, k) => Final(c, q, k)')
  BY <1>1, <1>2, <1>3, CutKeeps
<1>5. Due(c, k)' = Due(c, k)
  BY <1>1 DEF Due, catalog
<1>6. Exempt(c, q, k) => Exempt(c, q, k)'
  BY <1>1, <1>4 DEF Exempt, catalog, worldHistory
<1> QED BY <1>4, <1>5, <1>6

-----------------------------------------------------------------------------
\* The network.
LEMMA DeliverConverges ==
  ASSUME WInv, Deliver
  PROVE  Converging'
<1>1. /\ outbox \in Seq(Cast) /\ outbox # <<>> /\ outbox' = Tail(outbox)
      /\ inbox \in [Player -> Seq(Down)] /\ Casting
      /\ UNCHANGED <<catalog, worldLink, worldWire, mirror, claimState, worldHistory>>
  BY DEF WInv, Base, NetTypeOK, Deliver
<1>2. 1 \in DOMAIN outbox /\ Head(outbox) = outbox[1]
  BY <1>1, QueueFacts
<1>3. \A q \in Player :
        inbox'[q] = IF q \in Head(outbox).to THEN Append(inbox[q], Head(outbox).frame) ELSE inbox[q]
  <2>1. Head(outbox).to \subseteq {q \in Player : Up(q)}
    BY <1>1, <1>2 DEF Casting
  <2> QED BY <2>1 DEF Deliver
<1> SUFFICES ASSUME NEW q \in Player, Up(q)', NEW c \in Channel, NEW k \in Key
             PROVE  Exempt(c, q, k)' \/ Final(c, q, k)'
  BY DEF Converging
<1>4. Exempt(c, q, k) \/ Final(c, q, k)
  BY <1>1 DEF WInv, Converging, Up
<1>5. Exempt(c, q, k) => Exempt(c, q, k)'
  BY <1>1 DEF Exempt, catalog, worldHistory, Sent
<1>6. Has(c, q, k)' = Has(c, q, k) /\ Due(c, k)' = Due(c, k)
  BY <1>1 DEF Has, Due, catalog, mirror, claimState
<1>7. /\ Out(q) \in Seq(Down) /\ Out(q) # <<>> /\ inbox[q] \in Seq(Down)
      /\ HeardBy(outbox', q) = Tail(Out(q)) /\ Head(Out(q)) = Heard(Head(outbox), q)
  BY <1>1, HeardFacts, HeardTail DEF Out
<1>8. inbox'[q] = Append(inbox[q], Head(Out(q))) \/ (inbox'[q] = inbox[q] /\ ~Tells(c, q, Head(Out(q)), k))
  BY <1>3, <1>7, BlankTells DEF Heard
<1>9. Final(c, q, k) => Final(c, q, k)'
  <2> DEFINE h == Has(c, q, k)
             x == Due(c, k)
  <2>1. ASSUME Leads(Out(q), inbox[q], h, c, q, k, x)
        PROVE  Leads(Tail(Out(q)), inbox'[q], h, c, q, k, x)
    <3> HIDE DEF h, x
    <3> QED BY <1>7, <1>8, <2>1, LeadsDeliver
  <2> QED BY <1>6, <1>7, <2>1, FinalNext DEF Final
<1> QED BY <1>4, <1>5, <1>9

LEMMA LinkBreaksConverges ==
  ASSUME WInv, NEW p \in Player, LinkBreaks(p)
  PROVE  Converging'
<1>1. /\ worldLink' = [worldLink EXCEPT ![p] = "down"]
      /\ worldWire' = [worldWire EXCEPT ![p] = <<>>]
      /\ inbox' = [inbox EXCEPT ![p] = <<>>]
      /\ stranded' = [stranded EXCEPT ![p] = @ \cup inFlight[p]]
      /\ UNCHANGED <<catalog, outbox, mirror, inFlight, denied, unheard, astray, shut>>
  BY DEF LinkBreaks
<1>2. /\ worldLink \in [Player -> {"up", "down", "evicted"}] /\ stranded \in [Player -> SUBSET Key]
      /\ worldWire \in [Player -> Seq(Request)] /\ inbox \in [Player -> Seq(Down)]
  BY WorldTypes DEF WInv, Base, NetTypeOK
<1> SUFFICES ASSUME NEW q \in Player, Up(q)', NEW c \in Channel, NEW k \in Key
             PROVE  Exempt(c, q, k)' \/ Final(c, q, k)'
  BY DEF Converging
<1>3. q # p /\ Up(q)
  BY <1>1, <1>2 DEF Up
<1>4. worldWire'[q] = worldWire[q] /\ inbox'[q] = inbox[q] /\ stranded'[q] = stranded[q]
  BY <1>1, <1>2, <1>3
<1>5. Exempt(c, q, k) \/ Final(c, q, k)
  BY <1>3 DEF WInv, Converging
<1>6. Exempt(c, q, k) => Exempt(c, q, k)'
  BY <1>1, <1>4 DEF Exempt, catalog, Sent
<1>7. Has(c, q, k)' = Has(c, q, k) /\ Due(c, k)' = Due(c, k)
  BY <1>1 DEF Has, Due, catalog, mirror
<1>8. HeardBy(outbox', q) = Out(q)
  BY <1>1 DEF Out
<1> QED BY <1>4, <1>5, <1>6, <1>7, <1>8, FinalNext DEF Final

\* A broadcast is not for a player that is away.
LEMMA NotHeard ==
  ASSUME Base, NEW p \in Player, ~Up(p), NEW c \in Channel, NEW k, NEW x
  PROVE  Quiet(Out(p), c, p, k, x)
<1>1. outbox \in Seq(Cast) /\ Casting
  BY DEF Base, NetTypeOK
<1>2. \A i \in DOMAIN outbox : Heard(outbox[i], p) = Blank
  BY <1>1 DEF Casting, Heard
<1>3. \A i \in DOMAIN outbox : ~Tells(c, p, Heard(outbox[i], p), k)
  BY <1>2, BlankTells
<1> QED BY <1>1, <1>3, HeardFacts DEF Out, Quiet

LEMMA RejoinConverges ==
  ASSUME WInv, NEW p \in Player, Rejoin(p)
  PROVE  Converging'
<1> DEFINE f == Message("STATE", None, owner, value)
<1>1. /\ worldLink' = [worldLink EXCEPT ![p] = "up"]
      /\ inbox' = [inbox EXCEPT ![p] = <<f>>]
      /\ unheard' = [unheard EXCEPT ![p] = {}]
      /\ astray' = [astray EXCEPT ![p] = {}]
      /\ shut' = [shut EXCEPT ![p] = @ \cup denied[p]]
      /\ UNCHANGED <<catalog, worldWire, outbox, mirror, inFlight, denied, stranded>>
      /\ ~Up(p)
  BY DEF Rejoin, claimState
<1>2. /\ worldLink \in [Player -> {"up", "down", "evicted"}] /\ inbox \in [Player -> Seq(Down)]
      /\ unheard \in [Player -> SUBSET Key] /\ astray \in [Player -> SUBSET Key]
      /\ shut \in [Player -> SUBSET Key] /\ Base
      /\ inFlight[p] \subseteq stranded[p]
  BY <1>1, WorldTypes DEF WInv, Base, NetTypeOK, Away
<1>3. /\ f \in Down /\ f.type = "STATE" /\ f.owner = owner /\ f.values = value
  BY StateFrame, WorldTypes DEF WInv, Base, Message
<1> HIDE DEF f
<1> SUFFICES ASSUME NEW q \in Player, Up(q)', NEW c \in Channel, NEW k \in Key
             PROVE  Exempt(c, q, k)' \/ Final(c, q, k)'
  BY DEF Converging
<1>4. Has(c, q, k)' = Has(c, q, k) /\ Due(c, k)' = Due(c, k)
  BY <1>1 DEF Has, Due, catalog, mirror
<1>5. HeardBy(outbox', q) = Out(q)
  BY <1>1 DEF Out
<1>6. CASE q # p
  <2>1. /\ Up(q) /\ inbox'[q] = inbox[q] /\ astray'[q] = astray[q] /\ unheard'[q] = unheard[q]
        /\ shut'[q] = shut[q]
    BY <1>1, <1>2, <1>6 DEF Up
  <2>2. Exempt(c, q, k) \/ Final(c, q, k)
    BY <2>1 DEF WInv, Converging
  <2>3. Exempt(c, q, k) => Exempt(c, q, k)'
    BY <1>1, <2>1 DEF Exempt, catalog, Sent
  <2> QED BY <1>4, <1>5, <2>1, <2>2, <2>3, FinalNext DEF Final
<1>7. CASE q = p
  <2>1. /\ inbox'[p] = <<f>> /\ shut'[p] = shut[p] \cup denied[p] /\ stranded' = stranded
        /\ 1 \in DOMAIN <<f>> /\ <<f>>[1] = f /\ DOMAIN <<f>> = {1}
    BY <1>1, <1>2
  <2>2. Quiet(Out(p), c, p, k, Due(c, k))
    BY <1>1, <1>2, NotHeard
  <2>3. /\ Tells(c, p, f, k) <=> c \in {"owner", "value"}
        /\ c = "owner" => Says(c, f, k) = owner[k]
        /\ c = "value" => Says(c, f, k) = value[k]
    BY <1>3, StateTells
  <2>4. CASE c \in {"owner", "value"}
    <3>1. Says(c, f, k) = Due(c, k)
      BY <2>3, <2>4, Dues
    <3>2. Ends(<<f>>, c, p, k, Due(c, k))
      BY <2>1, <2>3, <2>4, <3>1 DEF Ends
    <3> QED BY <1>4, <1>5, <1>7, <2>1, <2>2, <3>2, FinalNext DEF Leads
  <2>5. CASE c = "denied" /\ k \in denied[p]
    BY <1>7, <2>1, <2>5 DEF Exempt
  <2>6. CASE c = "claim" /\ k \in inFlight[p]
    BY <1>2, <1>7, <2>1, <2>6 DEF Exempt
  <2>7. CASE (c = "denied" /\ k \notin denied[p]) \/ (c = "claim" /\ k \notin inFlight[p])
    <3>1. Has(c, p, k) = Due(c, k)
      BY <2>7, Holds, Dues
    <3>2. Quiet(<<f>>, c, p, k, Due(c, k))
      BY <2>1, <2>3, <2>7 DEF Quiet
    <3> QED BY <1>4, <1>5, <1>7, <2>1, <2>2, <3>1, <3>2, FinalNext DEF Leads
  <2> QED BY <2>4, <2>5, <2>6, <2>7 DEF Channel
<1> QED BY <1>6, <1>7

LEMMA EvictConverges ==
  ASSUME WInv, NEW p \in Player, Evict(p)
  PROVE  Converging'
<1> DEFINE lost == {k \in Key : owner[k] = p}
           cast(k) == [from |-> p, to |-> {q \in Player : Up(q)},
                       frame |-> Message("OWNER", k, None, Nothing)]
<1>1. /\ worldLink[p] = "down"
      /\ worldLink' = [worldLink EXCEPT ![p] = "evicted"]
      /\ owner' = [k \in Key |-> IF k \in lost THEN None ELSE owner[k]]
      /\ astray' = [q \in Player |-> IF q = p THEN astray[q] ELSE astray[q] \ lost]
      /\ shut' = [q \in Player |-> IF q = p THEN shut[q] ELSE shut[q] \ lost]
      /\ UNCHANGED <<value, worldWire, inbox, mirror, claimState, unheard, stranded>>
  BY DEF Evict
<1>2. Base /\ worldLink \in [Player -> {"up", "down", "evicted"}]
      /\ astray \in [Player -> SUBSET Key] /\ shut \in [Player -> SUBSET Key]
      /\ owner \in [Key -> Player \cup {None}]
  BY WorldTypes DEF WInv, Base
<1>3. /\ outbox = <<>> /\ outbox' \in Seq(Cast)
      /\ \A i \in DOMAIN outbox' : \E k \in lost : outbox'[i] = cast(k)
      /\ \A k \in lost : \E i \in DOMAIN outbox' : outbox'[i] = cast(k)
  BY <1>2, EvictSends
<1> SUFFICES ASSUME NEW q \in Player, Up(q)', NEW c \in Channel, NEW k \in Key
             PROVE  Exempt(c, q, k)' \/ Final(c, q, k)'
  BY DEF Converging
<1>4. q # p /\ Up(q)
  BY <1>1, <1>2 DEF Up
<1>5. /\ Has(c, q, k)' = Has(c, q, k) /\ (Exempt(c, q, k) \/ Final(c, q, k))
      /\ inbox'[q] = inbox[q]
  BY <1>1, <1>4 DEF Has, mirror, claimState, WInv, Converging
<1> DEFINE heard == HeardBy(outbox', q)
<1>6. /\ DOMAIN heard = DOMAIN outbox'
      /\ \A i \in DOMAIN outbox' : \E j \in lost : heard[i] = Message("OWNER", j, None, Nothing)
      /\ \A j \in lost : \E i \in DOMAIN outbox' : heard[i] = Message("OWNER", j, None, Nothing)
  <2>1. \A j \in lost : Heard(cast(j), q) = Message("OWNER", j, None, Nothing)
    BY <1>4 DEF Heard
  <2>2. DOMAIN heard = DOMAIN outbox' /\ \A i \in DOMAIN outbox' : heard[i] = Heard(outbox'[i], q)
    BY <1>3, HeardFacts
  <2> HIDE DEF cast, heard, lost
  <2> QED BY <1>3, <2>1, <2>2
<1>7. \A j \in lost :
        LET f == Message("OWNER", j, None, Nothing)
        IN  /\ Tells(c, q, f, k) <=> j = k /\ c \in {"owner", "claim", "denied"}
            /\ c = "owner" => Says(c, f, k) = None
            /\ c \in {"claim", "denied"} => Says(c, f, k) = "no"
  <2> TAKE j \in lost
  <2> DEFINE f == Message("OWNER", j, None, Nothing)
  <2>1. f.type = "OWNER" /\ f.key = j /\ f.owner = None
    BY DEF Message
  <2> HIDE DEF f
  <2>2. /\ Tells(c, q, f, k) <=> j = k /\ c \in {"owner", "claim", "denied"}
        /\ c = "owner" => Says(c, f, k) = None
        /\ c \in {"claim", "denied"} => Says(c, f, k) = "no"
    BY <2>1, OwnerTells DEF Reopens
  <2> QED BY <2>2 DEF f
<1> HIDE DEF heard
<1>8. CASE k \in lost /\ c # "value"
  <2>1. Due(c, k)' = IF c = "owner" THEN None ELSE "no"
    BY <1>1, <1>8 DEF Due
  <2>2. \A j \in lost : LET f == Message("OWNER", j, None, Nothing)
                        IN  /\ j = k => Tells(c, q, f, k)
                            /\ Says(c, f, k) = Due(c, k)'
    BY <1>7, <1>8, <2>1 DEF Channel
  <2>3. Ends(heard, c, q, k, Due(c, k)')
    <3> DEFINE x == Due(c, k)'
    <3>1. \A i \in DOMAIN heard : Says(c, heard[i], k) = x
      BY <1>6, <2>2
    <3>2. \E i \in DOMAIN heard : Tells(c, q, heard[i], k)
      BY <1>6, <1>8, <2>2
    <3> HIDE DEF x
    <3>3. Ends(heard, c, q, k, x)
      BY <3>1, <3>2 DEF Ends
    <3> QED BY <3>3 DEF x
  <2> QED BY <2>3, FinalNext DEF Leads, heard
<1>9. CASE k \notin lost \/ c = "value"
  <2>1. Due(c, k)' = Due(c, k)
    BY <1>1, <1>9 DEF Due
  <2>2. Exempt(c, q, k) => Exempt(c, q, k)'
    BY <1>1, <1>4, <1>9 DEF Exempt, Sent
  <2>3. \A i \in DOMAIN heard : ~Tells(c, q, heard[i], k)
    BY <1>6, <1>7, <1>9
  <2>4. Quiet(heard, c, q, k, Due(c, k))
    BY <2>3 DEF Quiet
  <2>5. ~Ends(Out(q), c, q, k, Due(c, k))
    BY <1>3 DEF Ends, Out, HeardBy
  <2>6. Final(c, q, k) => Final(c, q, k)'
    BY <1>5, <2>1, <2>4, <2>5, FinalNext DEF Final, Leads, heard
  <2> QED BY <1>5, <2>2, <2>6
<1> QED BY <1>8, <1>9

-----------------------------------------------------------------------------
\* The invariant.
LEMMA WorldStarts ==
  ASSUME WorldInit
  PROVE  WInv
<1>1. WorldTypeOK
  BY Constants DEF WorldInit, WorldTypeOK
<1>2. NetTypeOK
  <2>1. <<>> \in Seq(Request) /\ <<>> \in Seq(Down) /\ <<>> \in Seq(Cast)
    OBVIOUS
  <2> QED BY <2>1 DEF WorldInit, NetTypeOK
<1>3. Away /\ Casting
  BY DEF WorldInit, Away, Casting
<1>4. Converging
  <2> SUFFICES ASSUME NEW p \in Player, NEW c \in Channel, NEW k \in Key
               PROVE  Final(c, p, k)
    BY DEF Converging
  <2>1. Has(c, p, k) = Due(c, k)
    BY Holds, Dues DEF WorldInit, Channel
  <2>2. Quiet(Out(p), c, p, k, Due(c, k)) /\ Quiet(inbox[p], c, p, k, Due(c, k))
    BY DEF WorldInit, Quiet, Out, HeardBy
  <2> QED BY <2>1, <2>2 DEF Final, Leads
<1> QED BY <1>1, <1>2, <1>3, <1>4 DEF WInv, Base

LEMMA MirrorKeeps ==
  ASSUME WInv, NEW p \in Player, MirrorNext(p)
  PROVE  WInv'
<1>1. Base
  BY DEF WInv
<1>2. CASE \E active \in Sim \cup {None}, edited \in SUBSET (Key \ Sim), fields \in [Key -> Value] :
             SampleTick(p, active, edited, fields)
  BY <1>1, <1>2, SampleBase, SampleConverges DEF WInv
<1>3. CASE \E k \in Key : ObjectGone(p, k)
  BY <1>1, <1>3, ObjectGoneBase, ObjectGoneConverges DEF WInv
<1>4. CASE ApplyOwner(p)
  BY <1>1, <1>4, ApplyOwnerBase, ApplyOwnerConverges DEF WInv
<1>5. CASE ApplyDelta(p)
  BY <1>1, <1>5, ApplyDeltaBase, ApplyDeltaConverges DEF WInv
<1>6. CASE ApplyGone(p)
  BY <1>1, <1>6, ApplyGoneBase, ApplyGoneConverges DEF WInv
<1>7. CASE ApplyLocked(p)
  BY <1>1, <1>7, ApplyLockedBase, ApplyLockedConverges DEF WInv
<1>8. CASE ApplyNotFound(p)
  BY <1>1, <1>8, ApplyNotFoundBase, ApplyNotFoundConverges DEF WInv
<1>9. CASE ApplyState(p)
  BY <1>1, <1>9, ApplyStateBase, ApplyStateConverges DEF WInv
<1> QED BY <1>2, <1>3, <1>4, <1>5, <1>6, <1>7, <1>8, <1>9 DEF MirrorNext

LEMMA CatalogKeeps ==
  ASSUME WInv, NEW p \in Player, CatalogNext(p)
  PROVE  WInv'
<1>1. Base
  BY DEF WInv
<1>2. CASE ServeClaim(p)
  BY <1>1, <1>2, ServeClaimBase, ServeClaimConverges DEF WInv
<1>3. CASE RefuseClaim(p)
  BY <1>1, <1>3, RefuseClaimBase, RefuseClaimConverges DEF WInv
<1>4. CASE ServeRelease(p)
  BY <1>1, <1>4, ServeReleaseBase, ReleaseConverges, OthersReleaseConverges DEF WInv
<1>5. CASE ServeUpdate(p)
  <2>1. Take(p, "UPDATE") /\ StoreOwn(p, Head(worldWire[p]).values)
    BY <1>5 DEF ServeUpdate
  <2>2. Head(worldWire[p]) \in Request /\ Head(worldWire[p]).type = "UPDATE"
    BY <1>1, <2>1, Taken DEF Base
  <2> QED BY <1>1, <2>1, <2>2, StoreOwnBase, StoreOwnConverges DEF WInv
<1>6. CASE \E k \in Key, K \in SUBSET Key : RefuseUpdate(p, k, K)
  BY <1>1, <1>6, RefuseUpdateBase, RefuseUpdateConverges DEF WInv
<1>7. CASE ServeGone(p)
  <2>1. Take(p, "GONE") /\ Discard(p, Head(worldWire[p]).key)
    BY <1>7 DEF ServeGone
  <2>2. Head(worldWire[p]).key \in Key
    BY <1>1, <2>1, Taken, RequestFacts DEF Base
  <2> QED BY <1>1, <2>1, <2>2, DiscardBase, DiscardConverges DEF WInv
<1>8. CASE RefuseGone(p)
  BY <1>1, <1>8, RefuseGoneBase, RefuseGoneConverges DEF WInv
<1> QED BY <1>2, <1>3, <1>4, <1>5, <1>6, <1>7, <1>8 DEF CatalogNext

LEMMA LateKeeps ==
  ASSUME WInv, NEW p \in Player, LateNext(p)
  PROVE  WInv'
<1>1. Base
  BY DEF WInv
<1>2. CASE LateClaim(p)
  BY <1>1, <1>2, LateClaimBase, LateClaimConverges DEF WInv
<1>3. CASE LateRelease(p)
  BY <1>1, <1>3, LateReleaseBase, LateReleaseConverges DEF WInv
<1>4. CASE LateUpdate(p)
  <2>1. TakeLate(p, "UPDATE") /\ ReadsOn(p) /\ StoreOwn(p, Head(lateWire[p]).values)
    BY <1>4 DEF LateUpdate
  <2>2. Head(lateWire[p]) \in Request /\ Head(lateWire[p]).type = "UPDATE"
    BY <1>1, <2>1, TakenLate DEF Base
  <2> QED BY <1>1, <2>1, <2>2, StoreOwnBase, StoreOwnConverges DEF WInv
<1>5. CASE LateGone(p)
  <2>1. TakeLate(p, "GONE") /\ ReadsOn(p) /\ Discard(p, Head(lateWire[p]).key)
    BY <1>5 DEF LateGone
  <2>2. Head(lateWire[p]).key \in Key
    BY <1>1, <2>1, TakenLate, RequestFacts DEF Base
  <2> QED BY <1>1, <2>1, <2>2, DiscardBase, DiscardConverges DEF WInv
<1>6. CASE LateInVain(p)
  BY <1>1, <1>6, LateInVainBase, LateInVainConverges DEF WInv
<1>7. CASE \E k \in Key, K \in SUBSET Key : LateRefusal(p, k, K)
  BY <1>1, <1>7, LateRefusalBase, LateRefusalConverges DEF WInv
<1> QED BY <1>2, <1>3, <1>4, <1>5, <1>6, <1>7 DEF LateNext

LEMMA Unmoved ==
  ASSUME WInv, UNCHANGED worldVars
  PROVE  WInv'
<1>1. /\ UNCHANGED <<exists, owner, value, worldLink, worldWire, lateWire, inbox, outbox>>
      /\ UNCHANGED <<mirrorOwner, mirrorValue, driven, inFlight, denied, dropped, moves, unheard, astray, stranded, shut>>
  BY DEF worldVars, catalog, worldNet, mirror, claimState, worldHistory
<1>2. WorldTypeOK' /\ NetTypeOK' /\ Away' /\ Casting'
  BY <1>1 DEF WInv, Base, WorldTypeOK, NetTypeOK, Away, Casting, Up
<1>3. Converging'
  <2> SUFFICES ASSUME NEW q \in Player, Up(q)', NEW c \in Channel, NEW k \in Key
               PROVE  Exempt(c, q, k)' \/ Final(c, q, k)'
    BY DEF Converging
  <2>1. Exempt(c, q, k) \/ Final(c, q, k)
    BY <1>1 DEF WInv, Converging, Up
  <2>2. Exempt(c, q, k) => Exempt(c, q, k)'
    BY <1>1 DEF Exempt, Sent
  <2>3. Has(c, q, k)' = Has(c, q, k) /\ Due(c, k)' = Due(c, k)
    BY <1>1 DEF Has, Due
  <2>4. HeardBy(outbox', q) = Out(q) /\ inbox'[q] = inbox[q]
    BY <1>1 DEF Out
  <2> QED BY <2>1, <2>2, <2>3, <2>4, FinalNext DEF Final
<1> QED BY <1>2, <1>3 DEF WInv, Base

LEMMA WorldKeeps ==
  ASSUME WInv, [WorldNext]_worldVars
  PROVE  WInv'
<1>1. Base
  BY DEF WInv
<1>2. CASE Deliver
  BY <1>1, <1>2, DeliverBase, DeliverConverges DEF WInv
<1>3. ASSUME NEW p \in Player, MirrorNext(p) PROVE WInv'
  BY <1>3, MirrorKeeps
<1>4. ASSUME NEW p \in Player, CatalogNext(p) PROVE WInv'
  BY <1>4, CatalogKeeps
<1>5. ASSUME NEW p \in Player, LinkBreaks(p) PROVE WInv'
  BY <1>1, <1>5, LinkBreaksBase, LinkBreaksConverges DEF WInv
<1>6. ASSUME NEW p \in Player, Rejoin(p) PROVE WInv'
  BY <1>1, <1>6, RejoinBase, RejoinConverges DEF WInv
<1>7. ASSUME NEW p \in Player, Evict(p) PROVE WInv'
  BY <1>1, <1>7, EvictBase, EvictConverges DEF WInv
<1>8. ASSUME NEW p \in Player, LateNext(p) PROVE WInv'
  BY <1>8, LateKeeps
<1>9. CASE UNCHANGED worldVars
  BY <1>9, Unmoved
<1> QED BY <1>2, <1>3, <1>4, <1>5, <1>6, <1>7, <1>8, <1>9 DEF WorldNext

LEMMA WorldInvariant == WorldSpec => []WInv
<1>1. WorldInit => WInv
  BY WorldStarts
<1>2. WInv /\ [WorldNext]_worldVars => WInv'
  BY WorldKeeps
<1> QED BY <1>1, <1>2, PTL DEF WorldSpec

\* What a settled player has: nothing that it should not, but where it is exempt.
LEMMA SettledHas ==
  ASSUME WInv, NEW p \in Player, Settled(p), NEW c \in Channel, NEW k \in Key
  PROVE  Exempt(c, p, k) \/ Has(c, p, k) = Due(c, k)
<1>1. Up(p) /\ inbox[p] = <<>> /\ Out(p) = <<>>
  BY DEF Settled, Out, HeardBy
<1>2. Exempt(c, p, k) \/ Final(c, p, k)
  BY <1>1 DEF WInv, Converging
<1>3. Final(c, p, k) => Leads(<<>>, <<>>, Has(c, p, k), c, p, k, Due(c, k))
  BY <1>1 DEF Final
<1> QED BY <1>2, <1>3, LeadsSettled

LEMMA SettledSent ==
  ASSUME NEW p, Settled(p), NEW t, NEW k
  PROVE  ~Sent(p, t, k)
BY DEF Settled, Sent

-----------------------------------------------------------------------------
\* The catalog, the mirrors and the claims have their types: what is not in the
\* catalog has no owner and no value.
THEOREM WorldTypeCorrect == WorldSpec => []WorldTypeOK
<1>1. WInv => WorldTypeOK
  BY DEF WInv, Base
<1> QED BY <1>1, WorldInvariant, PTL

\* A player with nothing on its way has the catalog's values and owners, but for
\* what it was not told: whoever else changed, released, removed or lost them.
THEOREM CatalogConverges == WorldSpec => []CatalogIsMirrored
<1>1. ASSUME WInv PROVE ValuesConverge
  <2> SUFFICES ASSUME NEW p \in Player, Settled(p), NEW k \in Key \ unheard[p]
               PROVE  mirrorValue[p][k] = value[k]
    BY DEF ValuesConverge
  <2>1. ~Exempt("value", p, k)
    BY SettledSent DEF Exempt
  <2>2. Has("value", p, k) = Due("value", k)
    BY <1>1, <2>1, SettledHas DEF Channel
  <2> QED BY <2>2, Holds, Dues
<1>2. ASSUME WInv PROVE OwnersConverge
  <2> SUFFICES ASSUME NEW p \in Player, Settled(p), NEW k \in Key \ astray[p]
               PROVE  mirrorOwner[p][k] = owner[k]
    BY DEF OwnersConverge
  <2>1. ~Exempt("owner", p, k)
    BY SettledSent DEF Exempt
  <2>2. Has("owner", p, k) = Due("owner", k)
    BY <1>2, <2>1, SettledHas DEF Channel
  <2> QED BY <2>2, Holds, Dues
<1>3. WInv => CatalogIsMirrored
  BY <1>1, <1>2 DEF CatalogIsMirrored
<1> QED BY <1>3, WorldInvariant, PTL

\* A player with nothing on its way has no claim open but those lost with a
\* connection, and has given up no key that nobody else owns but those it was
\* denied by something else than its owner.
THEOREM ClaimsSettle == WorldSpec => []ClaimsSettled
<1>1. ASSUME WInv PROVE ClaimsAnswered
  <2> SUFFICES ASSUME NEW p \in Player, Settled(p), NEW k \in inFlight[p]
               PROVE  k \in stranded[p]
    BY DEF ClaimsAnswered
  <2>1. k \in Key
    BY <1>1, WorldTypes DEF WInv, Base
  <2>2. Has("claim", p, k) # Due("claim", k)
    BY Holds, Dues
  <2>3. Exempt("claim", p, k)
    BY <1>1, <2>1, <2>2, SettledHas DEF Channel
  <2> QED BY <2>3, SettledSent DEF Exempt
<1>2. ASSUME WInv PROVE DenialsExplained
  <2> SUFFICES ASSUME NEW p \in Player, Settled(p), NEW k \in denied[p] \ shut[p]
               PROVE  owner[k] \notin {None, p}
    BY DEF DenialsExplained
  <2>1. k \in Key
    BY <1>2, WorldTypes DEF WInv, Base
  <2>2. Has("denied", p, k) # Due("denied", k)
    BY Holds, Dues
  <2>3. Exempt("denied", p, k)
    BY <1>2, <2>1, <2>2, SettledHas DEF Channel
  <2> QED BY <2>3 DEF Exempt
<1>3. WInv => ClaimsSettled
  BY <1>1, <1>2 DEF ClaimsSettled
<1> QED BY <1>3, WorldInvariant, PTL
=============================================================================
