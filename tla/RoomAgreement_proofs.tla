------------------------ MODULE RoomAgreement_proofs ------------------------
(***************************************************************************)
(* What the members of a room come to agree on, for any players: the       *)
(* household balance, who makes which sim do what, and who is the host.    *)
(* Each is told in frames that keep their order, and what is told last is  *)
(* what the server has.                                                    *)
(***************************************************************************)
EXTENDS HouseholdFunds, InteractionMirror, DeepSession, SequenceTheorems, FiniteSetTheorems, TLAPS

-----------------------------------------------------------------------------
\* Queues.
LEMMA QueueFacts ==
  ASSUME NEW S, NEW q \in Seq(S)
  PROVE  /\ Len(q) \in Nat /\ DOMAIN q = 1..Len(q)
         /\ \A i \in DOMAIN q : q[i] \in S
         /\ q # <<>> => 1 \in DOMAIN q /\ Head(q) = q[1] /\ Len(q) > 0 /\ Head(q) \in S /\ Tail(q) \in Seq(S)
         /\ Len(q) = 0 => q = <<>>
OBVIOUS

LEMMA Appended ==
  ASSUME NEW S, NEW q \in Seq(S), NEW f \in S
  PROVE  /\ Append(q, f) \in Seq(S) /\ Len(Append(q, f)) = Len(q) + 1
         /\ DOMAIN Append(q, f) = DOMAIN q \cup {Len(q) + 1}
         /\ \A i \in DOMAIN q : Append(q, f)[i] = q[i] /\ i < Len(q) + 1
         /\ Append(q, f)[Len(q) + 1] = f
         /\ Len(q) + 1 \notin DOMAIN q
         /\ Append(q, f) # <<>>
OBVIOUS

LEMMA Tailed ==
  ASSUME NEW S, NEW q \in Seq(S), q # <<>>
  PROVE  /\ Tail(q) \in Seq(S) /\ Len(Tail(q)) = Len(q) - 1
         /\ \A i \in DOMAIN Tail(q) : i + 1 \in DOMAIN q /\ Tail(q)[i] = q[i + 1] /\ i \in Nat /\ i > 0
         /\ \A i \in DOMAIN q : i # 1 => i - 1 \in DOMAIN Tail(q) /\ Tail(q)[i - 1] = q[i] /\ i \in Nat
OBVIOUS


LEMMA LastLeft ==
  ASSUME NEW S, NEW q \in Seq(S), q # <<>>
  PROVE  /\ Tail(q) # <<>> => Tail(q)[Len(Tail(q))] = q[Len(q)]
         /\ Tail(q) = <<>> => Head(q) = q[Len(q)]
<1> DEFINE t == Tail(q)
<1>1. /\ Len(q) \in Nat /\ Len(q) > 0 /\ Head(q) = q[1] /\ DOMAIN q = 1..Len(q)
  BY QueueFacts
<1>2. /\ t \in Seq(S) /\ Len(t) = Len(q) - 1
      /\ \A i \in DOMAIN q : i # 1 => t[i - 1] = q[i]
  BY Tailed
<1>3. Len(t) = 0 => t = <<>>
  BY <1>2, QueueFacts
<1>4. Len(<<>>) = 0
  OBVIOUS
<1> HIDE DEF t
<1>5. t # <<>> => t[Len(t)] = q[Len(q)]
  BY <1>1, <1>2, <1>3
<1>6. t = <<>> => Head(q) = q[Len(q)]
  BY <1>1, <1>2, <1>4
<1> QED BY <1>5, <1>6 DEF t

\* What the elements of a queue that are in T say: all of them what A says; and
\* the last of them, of which there is one.
AllSay(q, T, A) == \A i \in DOMAIN q : q[i] \in T => q[i] \in A

EndsOn(q, T, A) ==
  \E i \in DOMAIN q :
    /\ q[i] \in T /\ q[i] \in A
    /\ \A j \in DOMAIN q : j > i /\ q[j] \in T => q[j] \in A

LEMMA NothingSaid ==
  ASSUME NEW T, NEW A
  PROVE  AllSay(<<>>, T, A) /\ ~EndsOn(<<>>, T, A)
BY DEF AllSay, EndsOn

LEMMA OneSaid ==
  ASSUME NEW f, NEW T, NEW A
  PROVE  /\ (f \in T => f \in A) => AllSay(<<f>>, T, A)
         /\ f \in T /\ f \in A => EndsOn(<<f>>, T, A)
BY DEF AllSay, EndsOn

\* Without its first element.
LEMMA AllSayTail ==
  ASSUME NEW S, NEW q \in Seq(S), q # <<>>, NEW T, NEW A, AllSay(q, T, A)
  PROVE  AllSay(Tail(q), T, A) /\ (Head(q) \in T => Head(q) \in A)
<1> DEFINE t == Tail(q)
<1>1. /\ \A i \in DOMAIN t : i + 1 \in DOMAIN q /\ t[i] = q[i + 1]
      /\ 1 \in DOMAIN q /\ Head(q) = q[1]
  BY Tailed, QueueFacts
<1> HIDE DEF t
<1>2. AllSay(t, T, A)
  BY <1>1 DEF AllSay
<1>3. Head(q) \in T => Head(q) \in A
  BY <1>1 DEF AllSay
<1> QED BY <1>2, <1>3 DEF t

LEMMA EndsOnTail ==
  ASSUME NEW S, NEW q \in Seq(S), q # <<>>, NEW T, NEW A, EndsOn(q, T, A)
  PROVE  EndsOn(Tail(q), T, A) \/ (Head(q) \in T /\ Head(q) \in A /\ AllSay(Tail(q), T, A))
<1> DEFINE t == Tail(q)
<1>1. /\ \A i \in DOMAIN t : i + 1 \in DOMAIN q /\ t[i] = q[i + 1] /\ i \in Nat /\ i > 0
      /\ \A i \in DOMAIN q : i # 1 => i - 1 \in DOMAIN t /\ t[i - 1] = q[i] /\ i \in Nat
      /\ 1 \in DOMAIN q /\ Head(q) = q[1]
  BY Tailed, QueueFacts
<1> HIDE DEF t
<1>2. PICK i \in DOMAIN q :
        /\ q[i] \in T /\ q[i] \in A
        /\ \A j \in DOMAIN q : j > i /\ q[j] \in T => q[j] \in A
  BY DEF EndsOn
<1>3. CASE i = 1
  <2>1. ASSUME NEW j \in DOMAIN t, t[j] \in T
        PROVE  t[j] \in A
    <3>1. j + 1 \in DOMAIN q /\ j + 1 > 1 /\ t[j] = q[j + 1]
      BY <1>1
    <3> QED BY <2>1, <3>1, <1>2, <1>3
  <2>2. AllSay(t, T, A)
    BY <2>1 DEF AllSay
  <2> QED BY <1>1, <1>2, <1>3, <2>2 DEF t
<1>4. CASE i # 1
  <2>1. i - 1 \in DOMAIN t /\ t[i - 1] = q[i] /\ i \in Nat
    BY <1>1, <1>4
  <2>2. ASSUME NEW j \in DOMAIN t, j > i - 1, t[j] \in T
        PROVE  t[j] \in A
    <3>1. j + 1 \in DOMAIN q /\ j + 1 > i /\ t[j] = q[j + 1]
      BY <1>1, <2>1, <2>2
    <3> QED BY <2>2, <3>1, <1>2
  <2>3. EndsOn(t, T, A)
    BY <1>2, <2>1, <2>2 DEF EndsOn
  <2> QED BY <2>3 DEF t
<1> QED BY <1>3, <1>4

\* With more behind it.
LEMMA Joined ==
  ASSUME NEW S, NEW q \in Seq(S), NEW s \in Seq(S)
  PROVE  /\ q \o s \in Seq(S)
         /\ DOMAIN q \subseteq DOMAIN (q \o s)
         /\ \A i \in DOMAIN q : (q \o s)[i] = q[i] /\ i \in Nat /\ i <= Len(q)
         /\ \A i \in DOMAIN s : Len(q) + i \in DOMAIN (q \o s) /\ (q \o s)[Len(q) + i] = s[i] /\ i \in Nat
         /\ \A i \in DOMAIN (q \o s) :
              i \in Nat /\ (i \in DOMAIN q \/ (i > Len(q) /\ i - Len(q) \in DOMAIN s /\ (q \o s)[i] = s[i - Len(q)]))
         /\ Len(q) \in Nat
<1>1. /\ q \o s \in Seq(S) /\ Len(q \o s) = Len(q) + Len(s)
      /\ \A i \in 1..Len(q) + Len(s) :
           (q \o s)[i] = IF i <= Len(q) THEN q[i] ELSE s[i - Len(q)]
  BY ConcatProperties
<1>2. /\ Len(q) \in Nat /\ Len(s) \in Nat /\ DOMAIN q = 1..Len(q) /\ DOMAIN s = 1..Len(s)
      /\ DOMAIN (q \o s) = 1..Len(q \o s)
  BY <1>1, QueueFacts
<1> QED BY <1>1, <1>2

LEMMA AllSayJoin ==
  ASSUME NEW S, NEW q \in Seq(S), NEW s \in Seq(S), NEW T, NEW A, AllSay(q, T, A), AllSay(s, T, A)
  PROVE  AllSay(q \o s, T, A)
<1> DEFINE u == q \o s
<1>1. /\ \A i \in DOMAIN q : u[i] = q[i]
      /\ \A i \in DOMAIN u :
           i \in DOMAIN q \/ (i - Len(q) \in DOMAIN s /\ u[i] = s[i - Len(q)])
  BY Joined
<1> HIDE DEF u
<1>2. AllSay(u, T, A)
  BY <1>1 DEF AllSay
<1> QED BY <1>2 DEF u

LEMMA EndsOnJoin ==
  ASSUME NEW S, NEW q \in Seq(S), NEW s \in Seq(S), NEW T, NEW A, EndsOn(q, T, A), AllSay(s, T, A)
  PROVE  EndsOn(q \o s, T, A)
<1> DEFINE u == q \o s
<1>1. /\ DOMAIN q \subseteq DOMAIN u
      /\ \A i \in DOMAIN q : u[i] = q[i]
      /\ \A i \in DOMAIN u :
           i \in DOMAIN q \/ (i - Len(q) \in DOMAIN s /\ u[i] = s[i - Len(q)])
  BY Joined
<1> HIDE DEF u
<1>2. PICK i \in DOMAIN q :
        /\ q[i] \in T /\ q[i] \in A
        /\ \A j \in DOMAIN q : j > i /\ q[j] \in T => q[j] \in A
  BY DEF EndsOn
<1>3. ASSUME NEW j \in DOMAIN u, j > i, u[j] \in T PROVE u[j] \in A
  BY <1>1, <1>2, <1>3 DEF AllSay
<1>4. EndsOn(u, T, A)
  BY <1>1, <1>2, <1>3 DEF EndsOn
<1> QED BY <1>4 DEF u

LEMMA EndsOnLast ==
  ASSUME NEW S, NEW q \in Seq(S), NEW s \in Seq(S), NEW T, NEW A, EndsOn(s, T, A)
  PROVE  EndsOn(q \o s, T, A)
<1> DEFINE u == q \o s
<1>1. /\ Len(q) \in Nat /\ \A i \in DOMAIN s : i \in Nat /\ Len(q) + i \in DOMAIN u /\ u[Len(q) + i] = s[i]
      /\ \A j \in DOMAIN u :
           j \in Nat /\ (j \in DOMAIN q \/ (j > Len(q) /\ j - Len(q) \in DOMAIN s /\ u[j] = s[j - Len(q)]))
      /\ \A j \in DOMAIN q : j \in Nat /\ j <= Len(q)
  BY Joined
<1> HIDE DEF u
<1>2. PICK i \in DOMAIN s :
        /\ s[i] \in T /\ s[i] \in A
        /\ \A j \in DOMAIN s : j > i /\ s[j] \in T => s[j] \in A
  BY DEF EndsOn
<1> DEFINE n == Len(q) + i
<1>3. n \in DOMAIN u /\ u[n] = s[i]
  BY <1>1
<1>4. ASSUME NEW j \in DOMAIN u, j > n, u[j] \in T PROVE u[j] \in A
  <2>1. j - Len(q) \in DOMAIN s /\ j - Len(q) > i /\ u[j] = s[j - Len(q)]
    BY <1>1, <1>4
  <2> QED BY <1>2, <1>4, <2>1
<1>5. EndsOn(u, T, A)
  BY <1>2, <1>3, <1>4 DEF EndsOn
<1> QED BY <1>5 DEF u
-----------------------------------------------------------------------------
\* The balance.  A member the last broadcast has reached has it on its way, or
\* as its baseline, or a newer one of its own on the way to the server.
Latest(p) ==
  \/ echoes[p] # <<>> /\ echoes[p][Len(echoes[p])] = funds
  \/ echoes[p] = <<>> /\ (reports[p] # <<>> \/ baseline[p] = funds)

FundsInv ==
  /\ FundsTypeOK
  /\ \A p \in member \ behind : funds # None /\ Latest(p)

LEMMA FundsConstant == None \notin Balance
BY FundsConstants DEF FundsConstants

LEMMA FundsStarts == FundsInit => FundsInv
BY DEF FundsInit, FundsInv, FundsTypeOK

LEMMA FundsTypes ==
  ASSUME FundsTypeOK, NEW p \in Player
  PROVE  /\ reports[p] \in Seq(Balance) /\ echoes[p] \in Seq(Balance)
         /\ purse[p] \in Balance /\ baseline[p] \in Balance \cup {None}
         /\ reports[p] # <<>> => Head(reports[p]) \in Balance /\ Tail(reports[p]) \in Seq(Balance)
         /\ echoes[p] # <<>> => Head(echoes[p]) \in Balance /\ Tail(echoes[p]) \in Seq(Balance)
<1>1. /\ reports[p] \in Seq(Balance) /\ echoes[p] \in Seq(Balance)
      /\ purse[p] \in Balance /\ baseline[p] \in Balance \cup {None}
  BY DEF FundsTypeOK
<1> QED BY <1>1, QueueFacts

LEMMA SpendKeeps ==
  ASSUME FundsInv, NEW p \in Player, NEW b \in Balance, Spend(p, b)
  PROVE  FundsInv'
BY DEF FundsInv, FundsTypeOK, Latest, Spend

LEMMA SampleKeeps ==
  ASSUME FundsInv, NEW p \in Player, SampleFunds(p)
  PROVE  FundsInv'
<1>1. /\ purse[p] \in Balance /\ reports[p] \in Seq(Balance)
      /\ Append(reports[p], purse[p]) \in Seq(Balance) /\ Append(reports[p], purse[p]) # <<>>
  BY FundsTypes, Appended DEF FundsInv
<1>2. FundsTypeOK'
  BY <1>1 DEF FundsInv, FundsTypeOK, SampleFunds
<1>3. ASSUME NEW q \in member \ behind PROVE funds # None /\ Latest(q)'
  <2>1. funds # None /\ Latest(q) /\ q \in Player
    BY DEF FundsInv, FundsTypeOK
  <2>2. CASE q # p
    <3>1. reports'[q] = reports[q] /\ baseline'[q] = baseline[q] /\ echoes' = echoes /\ funds' = funds
      BY <2>1, <2>2 DEF SampleFunds, FundsInv, FundsTypeOK
    <3> QED BY <2>1, <3>1 DEF Latest
  <2>3. echoes' = echoes /\ funds' = funds
    BY DEF SampleFunds
  <2>4. CASE q = p /\ echoes[p] # <<>>
    BY <2>1, <2>3, <2>4 DEF Latest
  <2>5. CASE q = p /\ echoes[p] = <<>>
    <3>1. reports[p] # <<>> \/ baseline[p] = funds
      BY <2>1, <2>5 DEF Latest
    <3>2. CASE baseline[p] = None
      <4>1. reports' = reports
        BY <3>2 DEF SampleFunds
      <4> QED BY <2>1, <2>3, <2>5, <3>1, <3>2, <4>1 DEF Latest
    <3>3. CASE baseline[p] # None
      <4>1. reports' = [reports EXCEPT ![p] = Append(@, purse[p])]
        BY <3>3 DEF SampleFunds
      <4>2. reports'[p] = Append(reports[p], purse[p])
        BY <4>1 DEF FundsInv, FundsTypeOK
      <4> QED BY <1>1, <2>1, <2>3, <2>5, <4>2 DEF Latest
    <3> QED BY <3>2, <3>3
  <2> QED BY <2>2, <2>4, <2>5, <2>1
<1> QED BY <1>2, <1>3 DEF FundsInv, SampleFunds

LEMMA ServeKeeps ==
  ASSUME FundsInv, NEW p \in Player, ServeFunds(p)
  PROVE  FundsInv'
<1> DEFINE b == Head(reports[p])
<1>1. b \in Balance /\ Tail(reports[p]) \in Seq(Balance)
  BY FundsTypes DEF FundsInv, ServeFunds
<1>2. /\ reports' = [reports EXCEPT ![p] = Tail(@)] /\ funds' = b /\ behind' = Player \ member
      /\ echoes' = [q \in Player |-> IF q \in member THEN Append(echoes[q], b) ELSE echoes[q]]
      /\ UNCHANGED <<member, purse, baseline, applied>>
  BY DEF ServeFunds, Recorded, Listeners, fundsClient
<1> HIDE DEF b
<1>3. \A q \in Player : Append(echoes[q], b) \in Seq(Balance)
                        /\ Append(echoes[q], b)[Len(Append(echoes[q], b))] = b /\ Append(echoes[q], b) # <<>>
  BY <1>1, FundsTypes, Appended DEF FundsInv
<1>4. b # None
  BY <1>1, FundsConstant
<1>5. FundsTypeOK'
  <2>1. echoes' \in [Player -> Seq(Balance)]
    BY <1>2, <1>3, FundsTypes DEF FundsInv
  <2> QED BY <1>1, <1>2, <1>4, <2>1 DEF FundsInv, FundsTypeOK
<1>6. \A q \in member' \ behind' : funds' # None /\ Latest(q)'
  BY <1>2, <1>3, <1>4 DEF Latest, FundsInv, FundsTypeOK
<1> QED BY <1>5, <1>6 DEF FundsInv

LEMMA ApplyKeeps ==
  ASSUME FundsInv, NEW p \in Player, ApplyFunds(p)
  PROVE  FundsInv'
<1> DEFINE b == Head(echoes[p])
<1>1. b \in Balance /\ Tail(echoes[p]) \in Seq(Balance) /\ echoes[p] \in Seq(Balance) /\ echoes[p] # <<>>
  BY FundsTypes DEF FundsInv, ApplyFunds
<1>2. /\ echoes' = [echoes EXCEPT ![p] = Tail(@)] /\ baseline' = [baseline EXCEPT ![p] = b]
      /\ UNCHANGED <<member, funds, reports, behind>>
      /\ \/ UNCHANGED <<purse, applied>>
         \/ purse' = [purse EXCEPT ![p] = b] /\ applied' = [applied EXCEPT ![p] = b]
  BY DEF ApplyFunds
<1>3. Tail(echoes[p]) # <<>> =>
        Tail(echoes[p])[Len(Tail(echoes[p]))] = echoes[p][Len(echoes[p])]
  BY <1>1, LastLeft
<1>4. Tail(echoes[p]) = <<>> => b = echoes[p][Len(echoes[p])]
  BY <1>1, LastLeft
<1> HIDE DEF b
<1>5. FundsTypeOK'
  <2>1. funds # None
    BY <1>1 DEF FundsInv, FundsTypeOK
  <2>2. purse' \in [Player -> Balance] /\ applied' \in [Player -> Balance \cup {None}]
    BY <1>1, <1>2 DEF FundsInv, FundsTypeOK
  <2>3. baseline' \in [Player -> Balance \cup {None}] /\ echoes' \in [Player -> Seq(Balance)]
    BY <1>1, <1>2 DEF FundsInv, FundsTypeOK
  <2>4. member' \subseteq Player /\ behind' \subseteq Player /\ funds' \in Balance \cup {None}
        /\ reports' \in [Player -> Seq(Balance)]
    BY <1>2 DEF FundsInv, FundsTypeOK
  <2> QED BY <1>2, <2>1, <2>2, <2>3, <2>4 DEF FundsTypeOK
<1>6. ASSUME NEW q \in member \ behind PROVE funds # None /\ Latest(q)'
  <2>1. funds # None /\ Latest(q) /\ q \in Player
    BY DEF FundsInv, FundsTypeOK
  <2>2. CASE q # p
    BY <1>2, <2>1, <2>2 DEF Latest, FundsInv, FundsTypeOK
  <2>3. CASE q = p
    <3>1. echoes'[p] = Tail(echoes[p]) /\ baseline'[p] = b
      BY <1>2 DEF FundsInv, FundsTypeOK
    <3> QED BY <1>1, <1>2, <1>3, <1>4, <2>1, <2>3, <3>1 DEF Latest
  <2> QED BY <2>2, <2>3, <2>1
<1> QED BY <1>2, <1>5, <1>6 DEF FundsInv

LEMMA PartKeeps ==
  ASSUME FundsInv, NEW p \in Player, Part(p)
  PROVE  FundsInv'
<1>1. PICK n \in 0..Len(reports[p]) : reports' = [reports EXCEPT ![p] = SubSeq(@, 1, n)]
  BY DEF Part
<1>2. SubSeq(reports[p], 1, n) \in Seq(Balance)
  BY FundsTypes DEF FundsInv
<1>3. FundsTypeOK'
  BY <1>1, <1>2 DEF FundsInv, FundsTypeOK, Part, fundsClient
<1>4. \A q \in member' \ behind' : funds' # None /\ Latest(q)'
  BY <1>1 DEF FundsInv, FundsTypeOK, Part, fundsClient, Latest
<1> QED BY <1>3, <1>4 DEF FundsInv

LEMMA ComeKeeps ==
  ASSUME FundsInv, NEW p \in Player, Come(p)
  PROVE  FundsInv'
BY DEF FundsInv, FundsTypeOK, Come, fundsClient, Latest

LEMMA FundsKeep == FundsInv /\ [FundsNext]_fundsVars => FundsInv'
<1> SUFFICES ASSUME FundsInv, [FundsNext]_fundsVars PROVE FundsInv'
  OBVIOUS
<1>1. CASE FundsNext
  BY <1>1, SpendKeeps, SampleKeeps, ServeKeeps, ApplyKeeps, PartKeeps, ComeKeeps DEF FundsNext
<1>2. CASE UNCHANGED fundsVars
  BY <1>2 DEF FundsInv, FundsTypeOK, Latest, fundsVars, fundsClient
<1> QED BY <1>1, <1>2

\* The types of the balances, the client's and the server's.
THEOREM FundsTypeCorrect == FundsSpec => []FundsTypeOK
<1>1. FundsInv => FundsTypeOK
  BY DEF FundsInv
<1> QED BY FundsStarts, FundsKeep, <1>1, PTL DEF FundsSpec

\* When no change of the balance is on its way, every game the last broadcast
\* has reached shows what the server has (_handle_funds_sync, _maybe_sync_funds).
THEOREM BalancesConverge == FundsSpec => []FundsConverge
<1>1. FundsInv => FundsConverge
  BY DEF FundsInv, FundsTypeOK, FundsConverge, FundsQuiet, Latest
<1> QED BY FundsStarts, FundsKeep, <1>1, PTL DEF FundsSpec


-----------------------------------------------------------------------------
\* The mirrors.  What a frame tells a client of a key; what a queue tells last.
Telling(f, k) == f.type = "STATE" \/ (f.type \in {"START", "FREE"} /\ f.key = k)

Said(f, k) == IF f.type = "STATE" THEN f.entry[k] ELSE f.entry

Grant == Player \X Action

DownFrame ==
  [type : {"START"}, key : Key, entry : Grant]
    \cup [type : {"FREE", "DENIED"}, key : Key, entry : {None}]
    \cup [type : {"STATE"}, key : {None}, entry : Entries]

UpFrame ==
  [type : {"REQUEST"}, key : Key, entry : Grant] \cup [type : {"END"}, key : Key, entry : {None}]

Tells(k) == {f \in DownFrame : Telling(f, k)}

Says(k, x) == {f \in DownFrame : Said(f, k) = x}

\* A client that has h will have x when it has read q.
Foretells(q, h, k, x) ==
  EndsOn(q, Tells(k), Says(k, x)) \/ (AllSay(q, Tells(k), Says(k, x)) /\ h = x)

WiresOK ==
  /\ mirrorWire \in [Player -> Seq(UpFrame)]
  /\ inbox \in [Player -> Seq(DownFrame)]

Foretold ==
  \A p \in Player : Up(p) => \A k \in Key : Foretells(inbox[p], mirror[p][k], k, table[k])

MirrorInv == MirrorTypeOK /\ WiresOK /\ Foretold

\* The client has read its first frame.
LEMMA ReadOne ==
  ASSUME NEW q \in Seq(DownFrame), q # <<>>, NEW h, NEW g, NEW k, NEW x,
         Foretells(q, h, k, x),
         g = IF Telling(Head(q), k) THEN Said(Head(q), k) ELSE h
  PROVE  Foretells(Tail(q), g, k, x)
<1>1. /\ Head(q) \in Tells(k) <=> Telling(Head(q), k)
      /\ Head(q) \in Says(k, x) <=> Said(Head(q), k) = x
  BY QueueFacts DEF Tells, Says
<1>2. CASE EndsOn(q, Tells(k), Says(k, x))
  BY <1>1, <1>2, EndsOnTail DEF Foretells
<1>3. CASE AllSay(q, Tells(k), Says(k, x)) /\ h = x
  BY <1>1, <1>3, AllSayTail DEF Foretells
<1> QED BY <1>2, <1>3 DEF Foretells

\* The server has written s: nothing it says differs, or it tells the new value.
LEMMA WrittenSame ==
  ASSUME NEW q \in Seq(DownFrame), NEW s \in Seq(DownFrame), NEW h, NEW k, NEW x,
         Foretells(q, h, k, x), \A i \in DOMAIN s : Telling(s[i], k) => Said(s[i], k) = x
  PROVE  Foretells(q \o s, h, k, x)
<1>1. AllSay(s, Tells(k), Says(k, x))
  BY QueueFacts DEF AllSay, Tells, Says
<1> QED BY <1>1, AllSayJoin, EndsOnJoin DEF Foretells

LEMMA WrittenNew ==
  ASSUME NEW q \in Seq(DownFrame), NEW s \in Seq(DownFrame), NEW h, NEW k, NEW x,
         \A i \in DOMAIN s : Telling(s[i], k) => Said(s[i], k) = x,
         NEW n \in DOMAIN s, Telling(s[n], k)
  PROVE  Foretells(q \o s, h, k, x)
<1>1. \A i \in DOMAIN s : s[i] \in Tells(k) => s[i] \in Says(k, x)
  BY QueueFacts DEF Tells, Says
<1>2. s[n] \in Tells(k)
  BY QueueFacts DEF Tells
<1>3. EndsOn(s, Tells(k), Says(k, x))
  BY <1>1, <1>2 DEF EndsOn
<1> QED BY <1>3, EndsOnLast DEF Foretells

\* Nothing is on its way.
LEMMA AllRead ==
  ASSUME NEW h, NEW k, NEW x, Foretells(<<>>, h, k, x)
  PROVE  h = x
BY NothingSaid DEF Foretells

LEMMA NothingWritten ==
  ASSUME NEW k, NEW x
  PROVE  Foretells(<<>>, x, k, x)
BY NothingSaid DEF Foretells

-----------------------------------------------------------------------------
\* A finite set as a sequence: each of its elements is in it.
LEMMA Listed ==
  ASSUME NEW S, IsFiniteSet(S)
  PROVE  /\ SetToSeq(S) \in Seq(S)
         /\ \A x \in S : \E i \in DOMAIN SetToSeq(S) : SetToSeq(S)[i] = x
<1> DEFINE n == Cardinality(S)
<1>1. n \in Nat /\ ExistsBijection(1..n, S)
  BY FS_CardinalityType
<1>2. \E f \in [1..n -> S] : IsInjective(f)
  BY <1>1 DEF ExistsBijection, Bijection, Injection
<1>3. SetToSeq(S) \in [1..n -> S] /\ IsInjective(SetToSeq(S))
  BY <1>2 DEF SetToSeq
<1> DEFINE q == SetToSeq(S)
<1>4. q \in [1..n -> S] /\ q \in Injection(1..n, S)
  BY <1>3 DEF Injection
<1> HIDE DEF q
<1>5. Cardinality(1..n) = n
  BY <1>1, FS_Interval
<1>6. q \in Surjection(1..n, S)
  BY <1>4, <1>5, FS_Injection
<1>7. \A x \in S : \E i \in 1..n : q[i] = x
  BY <1>6 DEF Surjection
<1>8. q \in Seq(S) /\ DOMAIN q = 1..n
  BY <1>1, <1>4
<1> QED BY <1>7, <1>8 DEF q

\* The frames of some keys.
LEMMA KeysFrames ==
  ASSUME NEW K \in SUBSET Key, NEW frame
  PROVE  IsFiniteSet({frame[k] : k \in K})
<1> DEFINE T == {frame[k] : k \in K}
           f == [k \in K |-> frame[k]]
<1>1. IsFiniteSet(K)
  BY MirrorConstants, FS_Subset DEF MirrorConstants
<1>2. f \in Surjection(K, T)
  BY DEF Surjection
<1> HIDE DEF f, T
<1>3. IsFiniteSet(T)
  BY <1>1, <1>2, FS_Surjection
<1> QED BY <1>3 DEF T

-----------------------------------------------------------------------------
\* The frames that are written.
LEMMA Mirrors ==
  ASSUME MirrorInv, NEW p \in Player
  PROVE  /\ inbox[p] \in Seq(DownFrame) /\ mirrorWire[p] \in Seq(UpFrame)
         /\ mirror[p] \in Entries /\ doing[p] \in [Key -> Action \cup {None}]
         /\ kept[p] \in [Key -> Action \cup {None}] /\ denied[p] \in SUBSET Key
         /\ table \in Entries
BY DEF MirrorInv, MirrorTypeOK, WiresOK

LEMMA EntryOf ==
  ASSUME NEW t \in Entries, NEW k \in Key, t[k] # None
  PROVE  t[k] \in Grant /\ t[k][1] \in Player /\ t[k][2] \in Action
BY DEF Entries, Grant

LEMMA MirrorStarts == MirrorInit => MirrorInv
<1> SUFFICES ASSUME MirrorInit PROVE MirrorInv
  OBVIOUS
<1>1. Nothing \in Entries /\ Nothing \in [Key -> Action \cup {None}]
  BY DEF Nothing, Entries
<1>2. MirrorTypeOK
  BY <1>1, MirrorConstants DEF MirrorInit, MirrorTypeOK, MirrorConstants
<1>3. WiresOK
  BY DEF MirrorInit, WiresOK
<1>4. Foretold
  BY NothingWritten DEF MirrorInit, Foretold
<1> QED BY <1>2, <1>3, <1>4 DEF MirrorInv

\* Steps that leave the table and what clients hear of it alone.
LEMMA ElsewhereKeeps ==
  ASSUME MirrorInv, UNCHANGED <<table, inbox, mirror>>, \A p \in Player : Up(p)' => Up(p)
  PROVE  Foretold'
BY DEF MirrorInv, Foretold

LEMMA StartKeeps ==
  ASSUME MirrorInv, NEW p \in Player, NEW k \in Key, NEW a \in Action, Start(p, k, a)
  PROVE  MirrorInv'
<1>1. doing' = [doing EXCEPT ![p] = [@ EXCEPT ![k] = a]]
  BY DEF Start
<1>2. doing' \in [Player -> [Key -> Action \cup {None}]]
  BY <1>1, Mirrors DEF MirrorInv, MirrorTypeOK
<1>3. UNCHANGED <<grants, mirrorNet, mirror, denied, kept>> /\ stirs' \in 0..MaxStirs
  BY MirrorConstants DEF Start, Stir, MirrorInv, MirrorTypeOK, MirrorConstants
<1>4. MirrorTypeOK' /\ WiresOK'
  BY <1>2, <1>3 DEF MirrorInv, MirrorTypeOK, WiresOK, grants, mirrorNet, Entries
<1>5. Foretold'
  BY <1>3, ElsewhereKeeps DEF grants, mirrorNet, Up
<1> QED BY <1>4, <1>5 DEF MirrorInv

LEMMA StopKeeps ==
  ASSUME MirrorInv, NEW p \in Player, NEW k \in Key, Stop(p, k)
  PROVE  MirrorInv'
<1>1. doing' = [doing EXCEPT ![p] = [@ EXCEPT ![k] = None]]
  BY DEF Stop
<1>2. doing' \in [Player -> [Key -> Action \cup {None}]]
  BY <1>1, Mirrors DEF MirrorInv, MirrorTypeOK
<1>3. UNCHANGED <<grants, mirrorNet, mirror, denied, kept, stirs>>
  BY DEF Stop
<1>4. MirrorTypeOK' /\ WiresOK'
  BY <1>2, <1>3 DEF MirrorInv, MirrorTypeOK, WiresOK, grants, mirrorNet, Entries
<1>5. Foretold'
  BY <1>3, ElsewhereKeeps DEF grants, mirrorNet, Up
<1> QED BY <1>4, <1>5 DEF MirrorInv

LEMMA BackoffOverKeeps ==
  ASSUME MirrorInv, NEW p \in Player, NEW k \in Key, BackoffOver(p, k)
  PROVE  MirrorInv'
<1>1. MirrorTypeOK' /\ WiresOK'
  BY DEF BackoffOver, MirrorInv, MirrorTypeOK, WiresOK, grants, mirrorNet, Entries
<1>2. Foretold'
  BY ElsewhereKeeps DEF BackoffOver, grants, mirrorNet, Up
<1> QED BY <1>1, <1>2 DEF MirrorInv

LEMMA CooldownOverKeeps ==
  ASSUME MirrorInv, NEW k \in Key, CooldownOver(k)
  PROVE  MirrorInv'
<1>1. MirrorTypeOK' /\ WiresOK'
  BY DEF CooldownOver, MirrorInv, MirrorTypeOK, WiresOK, mirrorClient, mirrorNet, Entries
<1>2. Foretold'
  BY ElsewhereKeeps DEF CooldownOver, mirrorClient, mirrorNet, Up
<1> QED BY <1>1, <1>2 DEF MirrorInv

\* What a tick, or the snapshot, has the client send.
LEMMA RequestFrames ==
  ASSUME NEW K \in SUBSET Key, NEW p \in Player, NEW of, \A k \in K : of[k] \in Action
  PROVE  SetToSeq({Frame("REQUEST", k, <<p, of[k]>>) : k \in K}) \in Seq(UpFrame)
<1> DEFINE frame == [k \in Key |-> Frame("REQUEST", k, <<p, of[k]>>)]
           T == {Frame("REQUEST", k, <<p, of[k]>>) : k \in K}
<1>1. T = {frame[k] : k \in K}
  OBVIOUS
<1>2. IsFiniteSet({frame[k] : k \in K})
  <2> HIDE DEF frame
  <2> QED BY KeysFrames
<1>3. T \subseteq UpFrame
  BY DEF Frame, UpFrame, Grant
<1> HIDE DEF T, frame
<1>4. SetToSeq(T) \in Seq(T)
  BY <1>1, <1>2, Listed
<1>5. SetToSeq(T) \in Seq(UpFrame)
  BY <1>3, <1>4
<1> QED BY <1>5 DEF T

LEMMA EndFrames ==
  ASSUME NEW K \in SUBSET Key
  PROVE  SetToSeq({Frame("END", k, None) : k \in K}) \in Seq(UpFrame)
<1> DEFINE frame == [k \in Key |-> Frame("END", k, None)]
           T == {Frame("END", k, None) : k \in K}
<1>1. T = {frame[k] : k \in K}
  OBVIOUS
<1>2. IsFiniteSet({frame[k] : k \in K})
  <2> HIDE DEF frame
  <2> QED BY KeysFrames
<1>3. T \subseteq UpFrame
  BY DEF Frame, UpFrame
<1> HIDE DEF T, frame
<1>4. SetToSeq(T) \in Seq(T)
  BY <1>1, <1>2, Listed
<1>5. SetToSeq(T) \in Seq(UpFrame)
  BY <1>3, <1>4
<1> QED BY <1>5 DEF T

\* What the server tells of keys that are free: each of them, and nothing else.
LEMMA FreeFrames ==
  ASSUME NEW K \in SUBSET Key, NEW s, s = SetToSeq({Frame("FREE", k, None) : k \in K})
  PROVE  /\ s \in Seq(DownFrame)
         /\ \A i \in DOMAIN s, k \in Key : Telling(s[i], k) => k \in K /\ Said(s[i], k) = None
         /\ \A k \in K : \E i \in DOMAIN s : Telling(s[i], k)
<1> DEFINE frame == [k \in Key |-> Frame("FREE", k, None)]
           T == {Frame("FREE", k, None) : k \in K}
<1>1. T = {frame[k] : k \in K}
  OBVIOUS
<1>2. IsFiniteSet({frame[k] : k \in K})
  <2> HIDE DEF frame
  <2> QED BY KeysFrames
<1>3. \A f \in T : /\ f \in DownFrame
                   /\ \A k \in Key : Telling(f, k) => k \in K /\ Said(f, k) = None
  BY DEF Frame, DownFrame, Telling, Said
<1>4. ASSUME NEW k \in K PROVE \E f \in T : Telling(f, k)
  <2>1. Telling(Frame("FREE", k, None), k) /\ Frame("FREE", k, None) \in T
    BY DEF Frame, Telling
  <2> QED BY <2>1
<1> HIDE DEF T, frame
<1>5. s \in Seq(T) /\ \A f \in T : \E i \in DOMAIN s : s[i] = f
  BY <1>1, <1>2, Listed DEF T
<1>6. \A i \in DOMAIN s : s[i] \in T
  BY <1>5, QueueFacts
<1>8. s \in Seq(DownFrame)
  <2>1. T \subseteq DownFrame
    BY <1>3
  <2> QED BY <1>5, <2>1
<1>7. \A k \in K : \E i \in DOMAIN s : Telling(s[i], k)
  BY <1>4, <1>5
<1> QED BY <1>3, <1>6, <1>7, <1>8

LEMMA TwoWritten ==
  ASSUME NEW S, NEW q \in Seq(S), NEW r \in Seq(S)
  PROVE  q \o r \in Seq(S)
BY ConcatProperties

LEMMA TickKeeps ==
  ASSUME MirrorInv, NEW p \in Player, Tick(p)
  PROVE  MirrorInv'
<1>1. Ends(p) \in Seq(UpFrame)
  BY EndFrames DEF Ends, Ended, HeldBy
<1>2. /\ Proposed(p) \in SUBSET Key
      /\ \A k \in Proposed(p) : doing[p][k] \in Action
  BY Mirrors DEF Proposed, Sampled
<1>3. Requests(p) \in Seq(UpFrame)
  BY <1>2, RequestFrames DEF Requests
<1>4. (mirrorWire[p] \o Ends(p)) \o Requests(p) \in Seq(UpFrame)
  BY <1>1, <1>3, Mirrors, TwoWritten
<1>5. mirrorWire' = [mirrorWire EXCEPT ![p] = (@ \o Ends(p)) \o Requests(p)]
      /\ UNCHANGED <<grants, mirrorLink, inbox, mirrorClient, stirs>>
  BY DEF Tick
<1>6. WiresOK'
  BY <1>4, <1>5 DEF MirrorInv, WiresOK
<1>7. MirrorTypeOK'
  BY <1>5 DEF MirrorInv, MirrorTypeOK, grants, mirrorClient, Entries
<1>8. Foretold'
  BY <1>5, ElsewhereKeeps DEF grants, mirrorClient, Up
<1> QED BY <1>6, <1>7, <1>8 DEF MirrorInv

-----------------------------------------------------------------------------
\* The server's steps.
LEMMA ReceiveTypes ==
  ASSUME MirrorInv, NEW p \in Player, NEW type, Receive(p, type)
  PROVE  /\ Head(mirrorWire[p]) \in UpFrame /\ Head(mirrorWire[p]).type = type
         /\ mirrorWire' \in [Player -> Seq(UpFrame)]
         /\ UNCHANGED <<mirrorLink, mirrorClient, stirs>>
<1>1. mirrorWire[p] \in Seq(UpFrame) /\ mirrorWire[p] # <<>>
  BY Mirrors DEF Receive
<1>2. Head(mirrorWire[p]) \in UpFrame /\ Tail(mirrorWire[p]) \in Seq(UpFrame)
  BY <1>1, QueueFacts
<1> QED BY <1>2 DEF Receive, MirrorInv, WiresOK

\* The keys K come to have the entry x, and s says so to everybody.
LEMMA ToldToAll ==
  ASSUME MirrorInv, NEW K \in SUBSET Key, NEW x, NEW s \in Seq(DownFrame),
         table' = [k \in Key |-> IF k \in K THEN x ELSE table[k]],
         Broadcast(s), mirror' = mirror, \A p \in Player : Up(p)' => Up(p),
         \A i \in DOMAIN s, k \in Key : Telling(s[i], k) => k \in K /\ Said(s[i], k) = x,
         \A k \in K : \E i \in DOMAIN s : Telling(s[i], k)
  PROVE  Foretold' /\ inbox' \in [Player -> Seq(DownFrame)]
<1>1. \A p \in Player : inbox[p] \in Seq(DownFrame) /\ inbox[p] \o s \in Seq(DownFrame)
  BY Mirrors, Joined
<1>2. inbox' = [q \in Player |-> IF Up(q) THEN inbox[q] \o s ELSE inbox[q]]
  BY DEF Broadcast
<1>3. inbox' \in [Player -> Seq(DownFrame)]
  BY <1>1, <1>2
<1>4. ASSUME NEW p \in Player, Up(p)', NEW k \in Key
      PROVE  Foretells(inbox'[p], mirror'[p][k], k, table'[k])
  <2>1. inbox'[p] = inbox[p] \o s /\ mirror'[p][k] = mirror[p][k]
    BY <1>2, <1>4
  <2>2. Foretells(inbox[p], mirror[p][k], k, table[k])
    BY <1>4 DEF MirrorInv, Foretold
  <2>3. CASE k \in K
    <3>1. table'[k] = x
      BY <2>3
    <3>2. PICK i \in DOMAIN s : Telling(s[i], k)
      BY <2>3
    <3>3. Foretells(inbox[p] \o s, mirror[p][k], k, x)
      BY <1>1, <3>2, WrittenNew
    <3> QED BY <2>1, <3>1, <3>3
  <2>4. CASE k \notin K
    <3>1. /\ \A i \in DOMAIN s : Telling(s[i], k) => Said(s[i], k) = table[k]
          /\ table'[k] = table[k]
      BY <2>4
    <3>2. Foretells(inbox[p] \o s, mirror[p][k], k, table[k])
      BY <1>1, <2>2, <3>1, WrittenSame
    <3> QED BY <2>1, <3>1, <3>2
  <2> QED BY <2>3, <2>4
<1> QED BY <1>3, <1>4 DEF Foretold

LEMMA ReleaseKeeps ==
  ASSUME MirrorInv, NEW K \in SUBSET Key, Release(K), mirror' = mirror, \A p \in Player : Up(p)' => Up(p)
  PROVE  /\ Foretold' /\ inbox' \in [Player -> Seq(DownFrame)]
         /\ table' \in Entries /\ mirrorCooling' \subseteq Key
<1> DEFINE s == SetToSeq({Frame("FREE", k, None) : k \in K})
<1>1. /\ s \in Seq(DownFrame)
      /\ \A i \in DOMAIN s, k \in Key : Telling(s[i], k) => k \in K /\ Said(s[i], k) = None
      /\ \A k \in K : \E i \in DOMAIN s : Telling(s[i], k)
  BY FreeFrames
<1>2. /\ table' = [k \in Key |-> IF k \in K THEN None ELSE table[k]]
      /\ mirrorCooling' = mirrorCooling \cup K /\ Broadcast(s)
  BY DEF Release
<1> HIDE DEF s
<1>3. Foretold' /\ inbox' \in [Player -> Seq(DownFrame)]
  BY <1>1, <1>2, ToldToAll
<1>4. table' \in Entries /\ mirrorCooling' \subseteq Key
  BY <1>2 DEF MirrorInv, MirrorTypeOK, Entries
<1> QED BY <1>3, <1>4

LEMMA RequestKeeps ==
  ASSUME MirrorInv, NEW p \in Player, Request(p)
  PROVE  MirrorInv'
<1> DEFINE f == Head(mirrorWire[p])
<1>1. /\ f \in UpFrame /\ f.type = "REQUEST" /\ mirrorWire' \in [Player -> Seq(UpFrame)]
      /\ UNCHANGED <<mirrorLink, mirrorClient, stirs, mirrorCooling>>
  BY ReceiveTypes DEF Request
<1>2. f.key \in Key /\ f.entry \in Grant
  BY <1>1 DEF UpFrame
<1>3. \/ table' = [table EXCEPT ![f.key] = f.entry] /\ Broadcast(<<Frame("START", f.key, f.entry)>>)
      \/ table' = table /\ inbox' = [inbox EXCEPT ![p] = Append(@, Frame("DENIED", f.key, None))]
  BY DEF Request, Deny
<1> HIDE DEF f
<1>4. CASE table' = [table EXCEPT ![f.key] = f.entry] /\ Broadcast(<<Frame("START", f.key, f.entry)>>)
  <2> DEFINE s == <<Frame("START", f.key, f.entry)>>
  <2>1. s \in Seq(DownFrame) /\ DOMAIN s = {1} /\ s[1] = Frame("START", f.key, f.entry)
    BY <1>2 DEF Frame, DownFrame
  <2>2. \A k \in Key : Telling(s[1], k) <=> k = f.key
    BY <2>1 DEF Frame, Telling
  <2>3. Said(s[1], f.key) = f.entry
    BY <2>1 DEF Frame, Said
  <2>4. table' = [k \in Key |-> IF k \in {f.key} THEN f.entry ELSE table[k]]
    BY <1>4 DEF MirrorInv, MirrorTypeOK, Entries
  <2>5. Broadcast(s)
    BY <1>4
  <2> HIDE DEF s
  <2>6. Foretold' /\ inbox' \in [Player -> Seq(DownFrame)]
    <3>1. \A i \in DOMAIN s, k \in Key : Telling(s[i], k) => k \in {f.key} /\ Said(s[i], k) = f.entry
      BY <2>1, <2>2, <2>3
    <3>2. \A k \in {f.key} : \E i \in DOMAIN s : Telling(s[i], k)
      BY <1>2, <2>1, <2>2
    <3>3. mirror' = mirror /\ \A q \in Player : Up(q)' => Up(q)
      BY <1>1 DEF mirrorClient, Up
    <3>4. {f.key} \in SUBSET Key
      BY <1>2
    <3> QED BY <2>1, <2>4, <2>5, <3>1, <3>2, <3>3, <3>4, ToldToAll
  <2>7. table' \in Entries
    BY <1>2, <1>4 DEF MirrorInv, MirrorTypeOK, Entries, Grant
  <2> QED BY <1>1, <2>6, <2>7 DEF MirrorInv, MirrorTypeOK, WiresOK, mirrorClient, Entries
<1>5. CASE table' = table /\ inbox' = [inbox EXCEPT ![p] = Append(@, Frame("DENIED", f.key, None))]
  <2> DEFINE s == <<Frame("DENIED", f.key, None)>>
  <2>1. s \in Seq(DownFrame) /\ DOMAIN s = {1} /\ s[1] = Frame("DENIED", f.key, None)
    BY <1>2 DEF Frame, DownFrame
  <2>2. \A k : \A i \in DOMAIN s : ~Telling(s[i], k)
    BY <2>1 DEF Frame, Telling
  <2>3. inbox[p] \in Seq(DownFrame) /\ inbox[p] \o s = Append(inbox[p], Frame("DENIED", f.key, None))
    BY Mirrors
  <2> HIDE DEF s
  <2>4. inbox' = [inbox EXCEPT ![p] = @ \o s] /\ inbox[p] \o s \in Seq(DownFrame)
    BY <1>5, <2>1, <2>3, Joined
  <2>5. inbox' \in [Player -> Seq(DownFrame)]
    BY <2>4 DEF MirrorInv, WiresOK
  <2>6. ASSUME NEW q \in Player, Up(q)', NEW k \in Key
        PROVE  Foretells(inbox'[q], mirror'[q][k], k, table'[k])
    <3>1. Foretells(inbox[q], mirror[q][k], k, table[k]) /\ mirror' = mirror
      BY <1>1, <2>6 DEF MirrorInv, Foretold, Up, mirrorClient
    <3>2. CASE q = p
      <4>1. Foretells(inbox[p] \o s, mirror[p][k], k, table[k])
        BY <2>1, <2>2, <2>3, <3>1, <3>2, WrittenSame
      <4> QED BY <1>5, <2>4, <3>1, <3>2, <4>1 DEF MirrorInv, WiresOK
    <3>3. CASE q # p
      BY <1>5, <2>4, <3>1, <3>3 DEF MirrorInv, WiresOK
    <3> QED BY <3>2, <3>3
  <2>7. Foretold'
    BY <2>6 DEF Foretold
  <2> QED BY <1>1, <1>5, <2>5, <2>7 DEF MirrorInv, MirrorTypeOK, WiresOK, mirrorClient, Entries
<1> QED BY <1>3, <1>4, <1>5

LEMMA EndKeeps ==
  ASSUME MirrorInv, NEW p \in Player, End(p)
  PROVE  MirrorInv'
<1> DEFINE k == Head(mirrorWire[p]).key
<1>1. /\ Head(mirrorWire[p]) \in UpFrame /\ mirrorWire' \in [Player -> Seq(UpFrame)]
      /\ UNCHANGED <<mirrorLink, mirrorClient, stirs>>
  BY ReceiveTypes DEF End
<1>2. {k} \in SUBSET Key
  BY <1>1 DEF UpFrame
<1>3. Release({k}) \/ UNCHANGED <<grants, inbox>>
  BY DEF End
<1> HIDE DEF k
<1>4. CASE Release({k})
  <2>1. mirror' = mirror /\ \A q \in Player : Up(q)' => Up(q)
    BY <1>1 DEF mirrorClient, Up
  <2>2. /\ Foretold' /\ inbox' \in [Player -> Seq(DownFrame)]
        /\ table' \in Entries /\ mirrorCooling' \subseteq Key
    BY <1>2, <1>4, <2>1, ReleaseKeeps
  <2> QED BY <1>1, <2>2 DEF MirrorInv, MirrorTypeOK, WiresOK, mirrorClient, Entries
<1>5. CASE UNCHANGED <<grants, inbox>>
  <2>1. Foretold'
    BY <1>1, <1>5, ElsewhereKeeps DEF grants, mirrorClient, Up
  <2> QED BY <1>1, <1>5, <2>1 DEF MirrorInv, MirrorTypeOK, WiresOK, grants, mirrorClient, Entries
<1> QED BY <1>3, <1>4, <1>5

LEMMA StirCounts == ASSUME MirrorInv, Stir PROVE stirs' \in 0..MaxStirs
BY MirrorConstants DEF Stir, MirrorInv, MirrorTypeOK, MirrorConstants

LEMMA ExpireKeeps ==
  ASSUME MirrorInv, NEW k \in Key, Expire(k)
  PROVE  MirrorInv'
<1>1. Release({k}) /\ stirs' \in 0..MaxStirs /\ UNCHANGED <<mirrorLink, mirrorWire, mirrorClient>>
  BY StirCounts DEF Expire
<1>2. mirror' = mirror /\ \A q \in Player : Up(q)' => Up(q)
  BY <1>1 DEF mirrorClient, Up
<1>3. /\ Foretold' /\ inbox' \in [Player -> Seq(DownFrame)]
      /\ table' \in Entries /\ mirrorCooling' \subseteq Key
  BY <1>1, <1>2, ReleaseKeeps
<1> QED BY <1>1, <1>3 DEF MirrorInv, MirrorTypeOK, WiresOK, mirrorClient, Entries

LEMMA ForgetKeeps ==
  ASSUME MirrorInv, NEW p \in Player, Forget(p)
  PROVE  MirrorInv'
<1>1. /\ Release(HeldBy(table, p)) /\ stirs' \in 0..MaxStirs /\ UNCHANGED <<mirrorWire, mirrorClient>>
      /\ mirrorLink' = [mirrorLink EXCEPT ![p] = "evicted"]
  BY StirCounts DEF Forget
<1>2. mirror' = mirror /\ \A q \in Player : Up(q)' => Up(q)
  BY <1>1 DEF mirrorClient, Up, MirrorInv, MirrorTypeOK
<1>3. HeldBy(table, p) \in SUBSET Key
  BY DEF HeldBy
<1>4. /\ Foretold' /\ inbox' \in [Player -> Seq(DownFrame)]
      /\ table' \in Entries /\ mirrorCooling' \subseteq Key
  BY <1>1, <1>2, <1>3, ReleaseKeeps
<1>5. mirrorLink' \in [Player -> {"up", "down", "evicted"}]
  BY <1>1 DEF MirrorInv, MirrorTypeOK
<1> QED BY <1>1, <1>4, <1>5 DEF MirrorInv, MirrorTypeOK, WiresOK, mirrorClient, Entries

-----------------------------------------------------------------------------
\* The client reads.
LEMMA ReadTypes ==
  ASSUME MirrorInv, NEW p \in Player, NEW type, Read(p, type)
  PROVE  /\ Head(inbox[p]) \in DownFrame /\ Head(inbox[p]).type = type
         /\ inbox[p] # <<>> /\ inbox[p] \in Seq(DownFrame)
         /\ inbox' = [inbox EXCEPT ![p] = Tail(@)]
         /\ inbox' \in [Player -> Seq(DownFrame)]
         /\ UNCHANGED <<table, mirrorCooling, mirrorLink, stirs>>
<1>1. inbox[p] \in Seq(DownFrame) /\ inbox[p] # <<>>
  BY Mirrors DEF Read
<1>2. Head(inbox[p]) \in DownFrame /\ Tail(inbox[p]) \in Seq(DownFrame)
  BY <1>1, QueueFacts
<1> QED BY <1>1, <1>2 DEF Read, MirrorInv, WiresOK, grants

\* The mirror of one client has taken in its first frame.
LEMMA ReadKeeps ==
  ASSUME MirrorInv, NEW p \in Player, inbox[p] # <<>>,
         inbox' = [inbox EXCEPT ![p] = Tail(@)], UNCHANGED <<table, mirrorLink>>,
         \A q \in Player : q # p => mirror'[q] = mirror[q],
         \A k \in Key : mirror'[p][k] =
            IF Telling(Head(inbox[p]), k) THEN Said(Head(inbox[p]), k) ELSE mirror[p][k]
  PROVE  Foretold'
<1>1. ASSUME NEW q \in Player, Up(q)', NEW k \in Key
      PROVE  Foretells(inbox'[q], mirror'[q][k], k, table'[k])
  <2>1. Foretells(inbox[q], mirror[q][k], k, table[k]) /\ table' = table
    BY <1>1 DEF MirrorInv, Foretold, Up
  <2>2. CASE q # p
    <3>1. inbox'[q] = inbox[q] /\ mirror'[q] = mirror[q]
      BY <1>1, <2>2 DEF MirrorInv, MirrorTypeOK, WiresOK
    <3> QED BY <2>1, <3>1
  <2>3. CASE q = p
    <3>1. inbox'[p] = Tail(inbox[p]) /\ inbox[p] \in Seq(DownFrame)
      BY DEF MirrorInv, MirrorTypeOK, WiresOK
    <3>2. Foretells(Tail(inbox[p]), mirror'[p][k], k, table[k])
      BY <2>1, <2>3, <3>1, ReadOne
    <3> QED BY <2>1, <2>3, <3>1, <3>2
  <2> QED BY <2>2, <2>3
<1> QED BY <1>1 DEF Foretold

LEMMA NotifyTypes ==
  ASSUME MirrorInv, NEW p \in Player, Notify(p), mirror' \in [Player -> Entries]
  PROVE  doing' \in [Player -> [Key -> Action \cup {None}]]
<1>1. PICK K \in SUBSET {k \in Key : mirror'[p][k] # None /\ mirror'[p][k][1] # p} :
        doing' = [doing EXCEPT ![p] = [k \in Key |-> IF k \in K THEN mirror'[p][k][2] ELSE @[k]]]
  BY DEF Notify
<1>2. \A k \in K : mirror'[p][k][2] \in Action
  BY <1>1, EntryOf
<1>3. [k \in Key |-> IF k \in K THEN mirror'[p][k][2] ELSE doing[p][k]] \in [Key -> Action \cup {None}]
  BY <1>2, Mirrors
<1> QED BY <1>1, <1>3 DEF MirrorInv, MirrorTypeOK

LEMMA ReadStartKeeps ==
  ASSUME MirrorInv, NEW p \in Player, ReadStart(p)
  PROVE  MirrorInv'
<1> DEFINE f == Head(inbox[p])
           m == [mirror[p] EXCEPT ![f.key] = f.entry]
<1>1. /\ f \in DownFrame /\ f.type = "START" /\ inbox[p] # <<>>
      /\ inbox' = [inbox EXCEPT ![p] = Tail(@)] /\ inbox' \in [Player -> Seq(DownFrame)]
      /\ UNCHANGED <<table, mirrorCooling, mirrorLink, stirs>>
  BY ReadTypes DEF ReadStart
<1>2. f.key \in Key /\ f.entry \in Grant
  BY <1>1 DEF DownFrame
<1>3. /\ mirror' = [mirror EXCEPT ![p] = m] /\ denied' = [denied EXCEPT ![p] = @ \ {f.key}]
      /\ Notify(p) /\ UNCHANGED <<mirrorWire, kept>>
  BY DEF ReadStart
<1>4. m \in Entries
  BY <1>2, Mirrors DEF Entries, Grant
<1>5. \A k \in Key : m[k] = IF Telling(f, k) THEN Said(f, k) ELSE mirror[p][k]
  BY <1>1, <1>2, Mirrors DEF Telling, Said, Entries
<1> HIDE DEF m
<1>6. /\ mirror' \in [Player -> Entries]
      /\ mirror'[p] = m /\ \A q \in Player : q # p => mirror'[q] = mirror[q]
  BY <1>3, <1>4 DEF MirrorInv, MirrorTypeOK
<1>7. Foretold'
  BY <1>1, <1>5, <1>6, ReadKeeps
<1> HIDE DEF f
<1>8. doing' \in [Player -> [Key -> Action \cup {None}]]
  BY <1>3, <1>6, NotifyTypes
<1>9. MirrorTypeOK'
  BY <1>1, <1>3, <1>6, <1>8 DEF MirrorInv, MirrorTypeOK, Entries
<1> QED BY <1>1, <1>3, <1>7, <1>9 DEF MirrorInv, WiresOK

LEMMA ReadFreeKeeps ==
  ASSUME MirrorInv, NEW p \in Player, ReadFree(p)
  PROVE  MirrorInv'
<1> DEFINE f == Head(inbox[p])
           m == [mirror[p] EXCEPT ![f.key] = None]
<1>1. /\ f \in DownFrame /\ f.type = "FREE" /\ inbox[p] # <<>>
      /\ inbox' = [inbox EXCEPT ![p] = Tail(@)] /\ inbox' \in [Player -> Seq(DownFrame)]
      /\ UNCHANGED <<table, mirrorCooling, mirrorLink, stirs>>
  BY ReadTypes DEF ReadFree
<1>2. f.key \in Key /\ f.entry = None
  BY <1>1 DEF DownFrame
<1>3. /\ mirror' = [mirror EXCEPT ![p] = m] /\ denied' = [denied EXCEPT ![p] = @ \ {f.key}]
      /\ UNCHANGED <<mirrorWire, doing, kept>>
  BY DEF ReadFree, Freed
<1>4. m \in Entries
  BY <1>2, Mirrors DEF Entries
<1>5. \A k \in Key : m[k] = IF Telling(f, k) THEN Said(f, k) ELSE mirror[p][k]
  BY <1>1, <1>2, Mirrors DEF Telling, Said, Entries
<1> HIDE DEF m
<1>6. /\ mirror' \in [Player -> Entries]
      /\ mirror'[p] = m /\ \A q \in Player : q # p => mirror'[q] = mirror[q]
  BY <1>3, <1>4 DEF MirrorInv, MirrorTypeOK
<1>7. Foretold'
  BY <1>1, <1>5, <1>6, ReadKeeps
<1> HIDE DEF f
<1>9. MirrorTypeOK'
  BY <1>1, <1>3, <1>6 DEF MirrorInv, MirrorTypeOK, Entries
<1> QED BY <1>1, <1>3, <1>7, <1>9 DEF MirrorInv, WiresOK

LEMMA ReadDeniedKeeps ==
  ASSUME MirrorInv, NEW p \in Player, ReadDenied(p)
  PROVE  MirrorInv'
<1> DEFINE f == Head(inbox[p])
<1>1. /\ f \in DownFrame /\ f.type = "DENIED" /\ inbox[p] # <<>>
      /\ inbox' = [inbox EXCEPT ![p] = Tail(@)] /\ inbox' \in [Player -> Seq(DownFrame)]
      /\ UNCHANGED <<table, mirrorCooling, mirrorLink, stirs>>
  BY ReadTypes DEF ReadDenied
<1>2. f.key \in Key /\ \A k : ~Telling(f, k)
  BY <1>1 DEF DownFrame, Telling
<1>3. /\ denied' = [denied EXCEPT ![p] = @ \cup {f.key}]
      /\ UNCHANGED <<mirrorWire, mirror, doing, kept>>
  BY DEF ReadDenied
<1>4. mirror' = mirror
  BY <1>3
<1>5. \A k \in Key : mirror[p][k] = IF Telling(f, k) THEN Said(f, k) ELSE mirror[p][k]
  BY <1>2
<1>7. Foretold'
  BY <1>1, <1>4, <1>5, ReadKeeps
<1> HIDE DEF f
<1>9. MirrorTypeOK'
  BY <1>1, <1>2, <1>3 DEF MirrorInv, MirrorTypeOK, Entries
<1> QED BY <1>1, <1>3, <1>7, <1>9 DEF MirrorInv, WiresOK

LEMMA ReadStateKeeps ==
  ASSUME MirrorInv, NEW p \in Player, ReadState(p)
  PROVE  MirrorInv'
<1> DEFINE f == Head(inbox[p])
           m == f.entry
           again == {k \in Key \ denied[p] : kept[p][k] # None /\ m[k] = None}
           s == SetToSeq({Frame("REQUEST", k, <<p, kept[p][k]>>) : k \in again})
<1>1. /\ f \in DownFrame /\ f.type = "STATE" /\ inbox[p] # <<>>
      /\ inbox' = [inbox EXCEPT ![p] = Tail(@)] /\ inbox' \in [Player -> Seq(DownFrame)]
      /\ UNCHANGED <<table, mirrorCooling, mirrorLink, stirs>>
  BY ReadTypes DEF ReadState
<1>2. m \in Entries
  BY <1>1 DEF DownFrame
<1>3. /\ mirror' = [mirror EXCEPT ![p] = m] /\ kept' = [kept EXCEPT ![p] = Nothing]
      /\ mirrorWire' = [mirrorWire EXCEPT ![p] = @ \o s]
      /\ Notify(p) /\ denied' = denied
  BY DEF ReadState
<1>4. again \in SUBSET Key /\ \A k \in again : kept[p][k] \in Action
  BY Mirrors
<1>5. \A k \in Key : m[k] = IF Telling(f, k) THEN Said(f, k) ELSE mirror[p][k]
  BY <1>1 DEF Telling, Said
<1> HIDE DEF again
<1>6. s \in Seq(UpFrame)
  <2> DEFINE of == kept[p]
  <2>1. \A k \in again : of[k] \in Action
    BY <1>4
  <2> HIDE DEF of
  <2>2. SetToSeq({Frame("REQUEST", k, <<p, of[k]>>) : k \in again}) \in Seq(UpFrame)
    BY <1>4, <2>1, RequestFrames
  <2> QED BY <2>2 DEF of
<1> HIDE DEF m, s
<1>7. mirrorWire' \in [Player -> Seq(UpFrame)]
  <2>1. mirrorWire[p] \o s \in Seq(UpFrame)
    BY <1>6, Mirrors, TwoWritten
  <2> QED BY <1>3, <2>1 DEF MirrorInv, WiresOK
<1>8. /\ mirror' \in [Player -> Entries]
      /\ mirror'[p] = m /\ \A q \in Player : q # p => mirror'[q] = mirror[q]
      /\ kept' \in [Player -> [Key -> Action \cup {None}]]
  BY <1>2, <1>3 DEF MirrorInv, MirrorTypeOK, Nothing
<1>9. Foretold'
  BY <1>1, <1>5, <1>8, ReadKeeps
<1> HIDE DEF f
<1>10. doing' \in [Player -> [Key -> Action \cup {None}]]
  BY <1>3, <1>8, NotifyTypes
<1>11. MirrorTypeOK'
  BY <1>1, <1>3, <1>8, <1>10 DEF MirrorInv, MirrorTypeOK, Entries
<1> QED BY <1>1, <1>7, <1>9, <1>11 DEF MirrorInv, WiresOK

-----------------------------------------------------------------------------
\* Connections.
LEMMA LinkBreaksKeeps ==
  ASSUME MirrorInv, NEW p \in Player, LinkBreaks(p)
  PROVE  MirrorInv'
<1> DEFINE held == [k \in Key |-> IF k \in HeldBy(mirror[p], p) THEN mirror[p][k][2] ELSE None]
<1>1. /\ stirs' \in 0..MaxStirs /\ mirrorLink' = [mirrorLink EXCEPT ![p] = "down"]
      /\ mirrorWire' = [mirrorWire EXCEPT ![p] = <<>>] /\ inbox' = [inbox EXCEPT ![p] = <<>>]
      /\ kept' = [kept EXCEPT ![p] = held] /\ UNCHANGED <<grants, mirror, doing, denied>>
  BY StirCounts DEF LinkBreaks
<1>2. held \in [Key -> Action \cup {None}]
  BY Mirrors, EntryOf DEF HeldBy
<1> HIDE DEF held
<1>3. MirrorTypeOK'
  BY <1>1, <1>2 DEF MirrorInv, MirrorTypeOK, grants, Entries
<1>4. WiresOK'
  BY <1>1 DEF MirrorInv, WiresOK
<1>5. Foretold'
  BY <1>1 DEF MirrorInv, MirrorTypeOK, WiresOK, Foretold, Up, grants
<1> QED BY <1>3, <1>4, <1>5 DEF MirrorInv

LEMMA RejoinKeeps ==
  ASSUME MirrorInv, NEW p \in Player, Rejoin(p)
  PROVE  MirrorInv'
<1> DEFINE s == <<Frame("STATE", None, table)>>
<1>1. /\ mirrorLink' = [mirrorLink EXCEPT ![p] = "up"] /\ inbox' = [inbox EXCEPT ![p] = s]
      /\ UNCHANGED <<grants, mirrorWire, mirrorClient, stirs>>
  BY DEF Rejoin
<1>2. s \in Seq(DownFrame) /\ DOMAIN s = {1} /\ s[1] = Frame("STATE", None, table)
  BY Mirrors DEF Frame, DownFrame
<1>3. \A h : \A k \in Key : Foretells(s, h, k, table[k])
  <2>1. ASSUME NEW k \in Key PROVE EndsOn(s, Tells(k), Says(k, table[k]))
    <3>1. s[1] \in DownFrame /\ Telling(s[1], k) /\ Said(s[1], k) = table[k]
      BY <1>2, QueueFacts DEF Frame, Telling, Said
    <3>2. s[1] \in Tells(k) /\ s[1] \in Says(k, table[k])
      BY <3>1 DEF Tells, Says
    <3> QED BY <3>2, OneSaid
  <2> QED BY <2>1 DEF Foretells
<1> HIDE DEF s
<1>4. MirrorTypeOK' /\ WiresOK'
  BY <1>1, <1>2 DEF MirrorInv, MirrorTypeOK, WiresOK, grants, mirrorClient, Entries
<1>5. ASSUME NEW q \in Player, Up(q)', NEW k \in Key
      PROVE  Foretells(inbox'[q], mirror'[q][k], k, table'[k])
  <2>1. table' = table /\ mirror' = mirror
    BY <1>1 DEF grants, mirrorClient
  <2>2. CASE q = p
    BY <1>1, <1>3, <2>1, <2>2 DEF MirrorInv, WiresOK
  <2>3. CASE q # p
    BY <1>1, <1>5, <2>1, <2>3 DEF MirrorInv, WiresOK, MirrorTypeOK, Foretold, Up
  <2> QED BY <2>2, <2>3
<1> QED BY <1>4, <1>5 DEF MirrorInv, Foretold

LEMMA MirrorKeeps == MirrorInv /\ [MirrorNext]_mirrorVars => MirrorInv'
<1> SUFFICES ASSUME MirrorInv, [MirrorNext]_mirrorVars PROVE MirrorInv'
  OBVIOUS
<1>1. ASSUME NEW p \in Player, Tick(p) \/ Serve(p) \/ Reads(p) \/ LinkBreaks(p) \/ Rejoin(p) \/ Forget(p)
      PROVE  MirrorInv'
  BY <1>1, TickKeeps, RequestKeeps, EndKeeps, ReadStartKeeps, ReadFreeKeeps, ReadDeniedKeeps,
     ReadStateKeeps, LinkBreaksKeeps, RejoinKeeps, ForgetKeeps DEF Serve, Reads
<1>2. ASSUME NEW p \in Player, NEW k \in Key,
             (\E a \in Action : Start(p, k, a)) \/ Stop(p, k) \/ BackoffOver(p, k)
      PROVE  MirrorInv'
  BY <1>2, StartKeeps, StopKeeps, BackoffOverKeeps
<1>3. ASSUME NEW k \in Key, Expire(k) \/ CooldownOver(k)
      PROVE  MirrorInv'
  BY <1>3, ExpireKeeps, CooldownOverKeeps
<1>4. CASE UNCHANGED mirrorVars
  <2>1. MirrorTypeOK' /\ WiresOK'
    BY <1>4 DEF mirrorVars, MirrorInv, MirrorTypeOK, WiresOK, grants, mirrorNet, mirrorClient, Entries
  <2>2. Foretold'
    BY <1>4, ElsewhereKeeps DEF mirrorVars, grants, mirrorNet, mirrorClient, Up
  <2> QED BY <2>1, <2>2 DEF MirrorInv
<1> QED BY <1>1, <1>2, <1>3, <1>4 DEF MirrorNext

\* The types of the mirror, and of the server's table.
THEOREM MirrorTypeCorrect == MirrorSpec => []MirrorTypeOK
<1>1. MirrorInv => MirrorTypeOK
  BY DEF MirrorInv
<1> QED BY MirrorStarts, MirrorKeeps, <1>1, PTL DEF MirrorSpec

LEMMA Agreeing == MirrorInv => MirrorsAgree
<1> SUFFICES ASSUME MirrorInv, NEW p \in Player, Settled(p) PROVE mirror[p] = table
  BY DEF MirrorsAgree
<1>1. \A k \in Key : mirror[p][k] = table[k]
  BY AllRead DEF MirrorInv, Foretold, Settled
<1> QED BY <1>1, Mirrors DEF Entries

LEMMA Running == MirrorsAgree => HoldersRunOrIdle
<1> SUFFICES ASSUME MirrorsAgree, MirrorQuiet, NEW p \in Player, NEW k \in Key
             PROVE  /\ doing[p][k] # None /\ ~Barred(p, k) => table[k] # None
                    /\ k \in HeldBy(table, p) => doing[p][k] = table[k][2] \/ Sampled(p) = {}
  BY DEF HoldersRunOrIdle
<1>1. /\ mirror[p] = table /\ denied[p] = {}
      /\ Sampled(p) # {} => Ended(p) = {} /\ Proposed(p) = {}
  BY DEF MirrorsAgree, MirrorQuiet, Settled, HasWork
<1>2. ASSUME doing[p][k] # None, ~Barred(p, k) PROVE table[k] # None
  BY <1>1, <1>2 DEF Sampled, Proposed
<1>3. ASSUME k \in HeldBy(table, p), Sampled(p) # {} PROVE doing[p][k] = table[k][2]
  <2>1. k \in Sampled(p) /\ ~Changed(p, k)
    BY <1>1, <1>3 DEF Ended, Proposed
  <2> QED BY <1>1, <1>3, <2>1 DEF Changed
<1> QED BY <1>2, <1>3

\* A client that has read all it was sent knows who holds what, whatever was
\* refused or lost with a connection; and when no tick has anything to do, what
\* the sims do is what their players hold (interactions.py, _maybe_reclaim).
THEOREM MirrorsTellTheTable == MirrorSpec => []MirrorsTell
<1>1. MirrorInv => MirrorsTell
  BY Agreeing, Running DEF MirrorsTell
<1> QED BY MirrorStarts, MirrorKeeps, <1>1, PTL DEF MirrorSpec

-----------------------------------------------------------------------------
\* The host of a room.  A frame that names the host, and whom it names for p.
HostFrame ==
  [type : {"HOST"}, host : Ids \cup {None}] \cup [type : {"is_host", "is_joiner"}]

ServerFrame == HostFrame \cup [type : {"COMMAND"}, room : Room]

ClientFrame == [type : {"host", "joiner", "COMMAND"}] \cup [type : {"JOIN"}, room : Room]

Task == [from : Player, to : SUBSET Player, frame : HostFrame]

Naming(f) == f.type \in {"HOST", "is_host"}

Named(f, p) == IF f.type = "HOST" THEN f.host ELSE Id(p)

NamesHost == {f \in ServerFrame : Naming(f)}

NamesIt(p, x) == {f \in ServerFrame : Named(f, p) = x}

\* The same of the broadcasts that have not run.
TaskNames(p) == {t \in Task : p \in t.to /\ Naming(t.frame)}

TaskNamesIt(p, x) == {t \in Task : Named(t.frame, p) = x}

\* p plays the role it has where x is the host.
Plays(p, x) == enabled[p] = TRUE /\ hostId[p] = x /\ isHost[p] = (x = Id(p))

\* It does, or will when it has read what it was sent.
WillPlay(p, x) ==
  \/ EndsOn(received[p], NamesHost, NamesIt(p, x))
  \/ AllSay(received[p], NamesHost, NamesIt(p, x)) /\ Plays(p, x)

\* The same with the broadcasts.
Leads(p, x) ==
  \/ EndsOn(tasks, TaskNames(p), TaskNamesIt(p, x))
  \/ AllSay(tasks, TaskNames(p), TaskNamesIt(p, x)) /\ WillPlay(p, x)

NetOK ==
  /\ sent \in [Player -> Seq(ClientFrame)]
  /\ tasks \in Seq(Task)
  /\ received \in [Player -> Seq(ServerFrame)]
  /\ \A p \in Player : ~Present(p) => received[p] = <<>>

\* An eviction costs a deed, and no room has a host of a later record.
Ages ==
  /\ \A p \in Player : /\ life[p] <= deeds
                       /\ socket[p] = "evicted" => life[p] + 1 <= deeds
  /\ \A r \in Room, p \in Player, n \in 0..MaxDeeds : roomHost[r] = <<p, n>> => n <= life[p]

\* Everybody will play its role, but for those that are misled.
RolesFollow ==
  \A p \in Player \ misled, x \in Ids \cup {None} :
    Present(p) /\ roomHost[seat[p]] = x => Leads(p, x)

\* A room nothing has happened to has its host in it, who will play it.
Unmarked == Room \ (vacated \cup yielded \cup early)

HostsPlay ==
  \A r \in Unmarked, p \in Player, x \in Ids :
    roomHost[r] = x /\ Id(p) = x => seat[p] = r /\ (Present(p) => Leads(p, x))

\* At its i-th frame p plays the host x that it is: it does now, or reads so
\* before.
Before(p, i, x) ==
  \/ Plays(p, x) /\ AllSay(received[p], NamesHost, NamesIt(p, x))
  \/ \E j \in DOMAIN received[p] :
       /\ j < i
       /\ received[p][j] \in NamesHost /\ received[p][j] \in NamesIt(p, x)
       /\ \A m \in DOMAIN received[p] :
            m > j /\ received[p][m] \in NamesHost => received[p][m] \in NamesIt(p, x)

Heeds(p, i, x) == AllSay(tasks, TaskNames(p), TaskNamesIt(p, x)) /\ Before(p, i, x)

\* A command on its way was relayed to the host, who will heed it.
CommandsFollow ==
  \A p \in Player, x \in Ids : Id(p) = x =>
    \A i \in DOMAIN received[p] :
      received[p][i].type = "COMMAND" /\ received[p][i].room \in Unmarked =>
        roomHost[received[p][i].room] = x /\ Heeds(p, i, x)

DeepBase == DeepTypeOK /\ NetOK /\ Ages

DeepInv == DeepBase /\ RolesFollow /\ HostsPlay /\ CommandsFollow /\ CommandsHeard

-----------------------------------------------------------------------------
LEMMA DeepBounds == MaxDeeds \in Nat /\ Lobby \in Room /\ None \notin Ids
BY DeepConstants DEF DeepConstants, Ids

LEMMA Deeps ==
  ASSUME DeepBase, NEW p \in Player
  PROVE  /\ sent[p] \in Seq(ClientFrame) /\ received[p] \in Seq(ServerFrame) /\ tasks \in Seq(Task)
         /\ seat[p] \in Room /\ roomHost[seat[p]] \in Ids \cup {None}
         /\ Id(p) \in Ids /\ Id(p) # None /\ hostId[p] \in Ids \cup {None}
<1>1. /\ sent[p] \in Seq(ClientFrame) /\ received[p] \in Seq(ServerFrame) /\ tasks \in Seq(Task)
      /\ seat[p] \in Room /\ hostId[p] \in Ids \cup {None}
  BY DEF DeepBase, DeepTypeOK, NetOK
<1>2. roomHost[seat[p]] \in Ids \cup {None}
  BY <1>1 DEF DeepBase, DeepTypeOK
<1>3. Id(p) \in Ids
  BY DEF DeepBase, DeepTypeOK, Id, Ids
<1> QED BY <1>1, <1>2, <1>3, DeepBounds

LEMMA IdsDiffer ==
  ASSUME NEW p \in Player, NEW q \in Player, Id(p) = Id(q)
  PROVE  p = q
BY DEF Id

\* Who p is to its frames does not change while its record is the same.
LEMMA SameRecord ==
  ASSUME NEW p \in Player, life'[p] = life[p]
  PROVE  /\ Id(p)' = Id(p)
         /\ \A x : NamesIt(p, x)' = NamesIt(p, x) /\ TaskNamesIt(p, x)' = TaskNamesIt(p, x)
<1>1. Id(p)' = Id(p)
  BY DEF Id
<1>2. ASSUME NEW x PROVE NamesIt(p, x)' = NamesIt(p, x) /\ TaskNamesIt(p, x)' = TaskNamesIt(p, x)
  BY <1>1 DEF NamesIt, TaskNamesIt, Named
<1> QED BY <1>1, <1>2

\* A step that leaves a client and what it will hear alone.
LEMMA LeadsSame ==
  ASSUME NEW p \in Player, NEW x, Leads(p, x), life'[p] = life[p], tasks' = tasks,
         received'[p] = received[p],
         enabled'[p] = enabled[p] /\ isHost'[p] = isHost[p] /\ hostId'[p] = hostId[p]
  PROVE  Leads(p, x)'
<1>1. /\ Id(p)' = Id(p) /\ NamesIt(p, x)' = NamesIt(p, x) /\ TaskNamesIt(p, x)' = TaskNamesIt(p, x)
      /\ NamesHost' = NamesHost /\ TaskNames(p)' = TaskNames(p)
  BY SameRecord DEF NamesHost, TaskNames
<1>2. Plays(p, x)' = Plays(p, x)
  BY <1>1 DEF Plays
<1>3. WillPlay(p, x) => WillPlay(p, x)'
  BY <1>1, <1>2 DEF WillPlay
<1> QED BY <1>1, <1>3 DEF Leads

\* One that only writes to it: what names nobody, or the same host.
LEMMA LeadsReplied ==
  ASSUME NEW p \in Player, NEW x, Leads(p, x), life'[p] = life[p], tasks' = tasks,
         received[p] \in Seq(ServerFrame), NEW f \in ServerFrame, Naming(f) => Named(f, p) = x,
         received'[p] = Append(received[p], f),
         enabled'[p] = enabled[p] /\ isHost'[p] = isHost[p] /\ hostId'[p] = hostId[p]
  PROVE  Leads(p, x)'
<1>1. /\ Id(p)' = Id(p) /\ NamesIt(p, x)' = NamesIt(p, x) /\ TaskNamesIt(p, x)' = TaskNamesIt(p, x)
      /\ NamesHost' = NamesHost /\ TaskNames(p)' = TaskNames(p)
  BY SameRecord DEF NamesHost, TaskNames
<1>2. Plays(p, x)' = Plays(p, x)
  BY <1>1 DEF Plays
<1>3. AllSay(<<f>>, NamesHost, NamesIt(p, x)) /\ <<f>> \in Seq(ServerFrame)
  BY OneSaid DEF NamesHost, NamesIt
<1>4. received'[p] = received[p] \o <<f>>
  OBVIOUS
<1>5. WillPlay(p, x) => WillPlay(p, x)'
  BY <1>1, <1>2, <1>3, <1>4, AllSayJoin, EndsOnJoin DEF WillPlay
<1> QED BY <1>1, <1>5 DEF Leads

\* A player that comes in is told x, and nothing older will reach it.
LEMMA LeadsTold ==
  ASSUME NEW p \in Player, NEW x, life'[p] \in Nat, tasks' = tasks, ~Overtakes(p),
         tasks \in Seq(Task), received[p] \in Seq(ServerFrame), DeepHost(x) \in ServerFrame,
         received'[p] = Append(received[p], DeepHost(x))
  PROVE  Leads(p, x)'
<1>1. DeepHost(x) \in NamesHost /\ DeepHost(x) \in NamesIt(p, x)'
  BY DEF NamesHost, NamesIt, Naming, Named, DeepHost
<1>2. EndsOn(<<DeepHost(x)>>, NamesHost, NamesIt(p, x)') /\ <<DeepHost(x)>> \in Seq(ServerFrame)
  BY <1>1, OneSaid
<1>3. received'[p] = received[p] \o <<DeepHost(x)>>
  BY SMTT(30)
<1>4. EndsOn(received'[p], NamesHost, NamesIt(p, x)')
  BY <1>2, <1>3, EndsOnLast
<1>5. AllSay(tasks', TaskNames(p), TaskNamesIt(p, x)')
  BY DEF AllSay, TaskNames, Overtakes
<1>6. NamesHost' = NamesHost /\ TaskNames(p)' = TaskNames(p)
  BY DEF NamesHost, TaskNames
<1>7. WillPlay(p, x)'
  BY <1>4, <1>6 DEF WillPlay
<1> QED BY <1>5, <1>6, <1>7 DEF Leads

\* Broadcasts are added: they name nobody to p, or the same host; or the last
\* does.
LEMMA LeadsCast ==
  ASSUME NEW p \in Player, NEW x, tasks \in Seq(Task), NEW s \in Seq(Task), tasks' = tasks \o s,
         life'[p] = life[p], received'[p] = received[p],
         enabled'[p] = enabled[p] /\ isHost'[p] = isHost[p] /\ hostId'[p] = hostId[p],
         \/ EndsOn(s, TaskNames(p), TaskNamesIt(p, x))
         \/ AllSay(s, TaskNames(p), TaskNamesIt(p, x)) /\ Leads(p, x)
  PROVE  Leads(p, x)'
<1>1. /\ Id(p)' = Id(p) /\ NamesIt(p, x)' = NamesIt(p, x) /\ TaskNamesIt(p, x)' = TaskNamesIt(p, x)
      /\ NamesHost' = NamesHost /\ TaskNames(p)' = TaskNames(p)
  BY SameRecord DEF NamesHost, TaskNames
<1>2. Plays(p, x)' = Plays(p, x)
  BY <1>1 DEF Plays
<1>3. WillPlay(p, x) => WillPlay(p, x)'
  BY <1>1, <1>2 DEF WillPlay
<1>4. CASE EndsOn(s, TaskNames(p), TaskNamesIt(p, x))
  <2>1. EndsOn(tasks \o s, TaskNames(p), TaskNamesIt(p, x))
    BY <1>4, EndsOnLast
  <2> QED BY <1>1, <2>1 DEF Leads
<1>5. CASE AllSay(s, TaskNames(p), TaskNamesIt(p, x)) /\ Leads(p, x)
  <2>1. \/ EndsOn(tasks \o s, TaskNames(p), TaskNamesIt(p, x))
        \/ AllSay(tasks \o s, TaskNames(p), TaskNamesIt(p, x)) /\ WillPlay(p, x)
    BY <1>5, AllSayJoin, EndsOnJoin DEF Leads
  <2> QED BY <1>1, <1>3, <2>1 DEF Leads
<1> QED BY <1>4, <1>5

\* The first broadcast runs.
LEMMA LeadsDelivered ==
  ASSUME NEW p \in Player, NEW x, Leads(p, x), tasks \in Seq(Task), tasks # <<>>, tasks' = Tail(tasks),
         life'[p] = life[p], received[p] \in Seq(ServerFrame),
         received'[p] = IF p \in Head(tasks).to THEN Append(received[p], Head(tasks).frame) ELSE received[p],
         enabled'[p] = enabled[p] /\ isHost'[p] = isHost[p] /\ hostId'[p] = hostId[p]
  PROVE  Leads(p, x)'
<1> DEFINE t == Head(tasks)
           N == NamesHost
           A == NamesIt(p, x)
           TN == TaskNames(p)
           TA == TaskNamesIt(p, x)
<1>1. Id(p)' = Id(p) /\ NamesIt(p, x)' = A /\ TaskNamesIt(p, x)' = TA /\ NamesHost' = N /\ TaskNames(p)' = TN
  BY SameRecord DEF NamesHost, TaskNames
<1>2. Plays(p, x)' = Plays(p, x)
  BY <1>1 DEF Plays
<1>3. t \in Task /\ t.frame \in ServerFrame
  <2>1. t \in Task
    BY QueueFacts
  <2> HIDE DEF t
  <2>2. t.frame \in HostFrame
    BY <2>1 DEF Task
  <2> QED BY <2>1, <2>2 DEF ServerFrame
<1>4. /\ t \in TN <=> p \in t.to /\ t.frame \in N
      /\ t \in TA <=> t.frame \in A
  BY <1>3 DEF TaskNames, TaskNamesIt, NamesHost, NamesIt
<1> DEFINE s == IF p \in t.to THEN <<t.frame>> ELSE <<>>
<1>5. received'[p] = received[p] \o s /\ s \in Seq(ServerFrame)
  <2>1. CASE p \in t.to
    BY <1>3, <2>1
  <2>2. CASE p \notin t.to
    BY <2>2
  <2> QED BY <2>1, <2>2
<1>6. (t \in TN => t \in TA) => AllSay(s, N, A)
  BY <1>4, OneSaid, NothingSaid
<1>7. t \in TN /\ t \in TA => EndsOn(s, N, A)
  BY <1>4, OneSaid
<1> HIDE DEF t, s, N, A, TN, TA
<1>8. CASE EndsOn(tasks, TN, TA)
  <2>1. EndsOn(Tail(tasks), TN, TA) \/ (t \in TN /\ t \in TA /\ AllSay(Tail(tasks), TN, TA))
    BY <1>8, EndsOnTail DEF t
  <2>2. CASE t \in TN /\ t \in TA /\ AllSay(Tail(tasks), TN, TA)
    <3>1. EndsOn(received'[p], N, A)
      BY <1>5, <1>7, <2>2, EndsOnLast
    <3> QED BY <1>1, <2>2, <3>1 DEF Leads, WillPlay
  <2> QED BY <1>1, <2>1, <2>2 DEF Leads
<1>9. CASE AllSay(tasks, TN, TA) /\ WillPlay(p, x)
  <2>1. AllSay(Tail(tasks), TN, TA) /\ (t \in TN => t \in TA)
    BY <1>9, AllSayTail DEF t
  <2>2. AllSay(s, N, A)
    BY <1>6, <2>1
  <2>3. EndsOn(received[p], N, A) \/ (AllSay(received[p], N, A) /\ Plays(p, x))
    BY <1>9 DEF WillPlay, N, A
  <2>4. EndsOn(received'[p], N, A) \/ (AllSay(received'[p], N, A) /\ Plays(p, x))
    BY <1>5, <2>2, <2>3, AllSayJoin, EndsOnJoin
  <2>5. WillPlay(p, x)'
    BY <1>1, <1>2, <2>4 DEF WillPlay
  <2> QED BY <1>1, <2>1, <2>5 DEF Leads
<1> QED BY <1>8, <1>9 DEF Leads, TN, TA

\* What the client does with a frame: the role it names, or the one it has.
Takes(p, f) ==
  /\ Naming(f) => \A x : Named(f, p) = x => Plays(p, x)'
  /\ ~Naming(f) => \A x : Plays(p, x) => Plays(p, x)'

LEMMA LeadsRead ==
  ASSUME NEW p \in Player, NEW x, Leads(p, x), tasks = <<>>, tasks' = <<>>,
         life'[p] = life[p], received[p] \in Seq(ServerFrame), received[p] # <<>>,
         received'[p] = Tail(received[p]), Takes(p, Head(received[p]))
  PROVE  Leads(p, x)'
<1> DEFINE f == Head(received[p])
           N == NamesHost
           A == NamesIt(p, x)
<1>1. NamesIt(p, x)' = A /\ NamesHost' = N
  BY SameRecord DEF NamesHost
<1>2. /\ f \in N <=> Naming(f)
      /\ f \in A <=> Named(f, p) = x
  BY QueueFacts DEF NamesHost, NamesIt
<1>3. WillPlay(p, x)
  BY NothingSaid DEF Leads
<1> HIDE DEF f, N, A
<1>4. EndsOn(received[p], N, A) \/ (AllSay(received[p], N, A) /\ Plays(p, x))
  BY <1>3 DEF WillPlay, N, A
<1>5. CASE EndsOn(received[p], N, A)
  <2>1. EndsOn(received'[p], N, A) \/ (f \in N /\ f \in A /\ AllSay(received'[p], N, A))
    BY <1>5, EndsOnTail DEF f
  <2> QED BY <1>1, <1>2, <2>1, NothingSaid DEF Leads, WillPlay, Takes, f
<1>6. CASE AllSay(received[p], N, A) /\ Plays(p, x)
  <2>1. AllSay(received'[p], N, A) /\ (f \in N => f \in A)
    BY <1>6, AllSayTail DEF f
  <2>2. Plays(p, x)'
    BY <1>2, <1>6, <2>1 DEF Takes, f
  <2> QED BY <1>1, <2>1, <2>2, NothingSaid DEF Leads, WillPlay
<1> QED BY <1>4, <1>5, <1>6

LEMMA HostTaken ==
  ASSUME DeepBase, NEW p \in Player, HandleHost(p)
  PROVE  Takes(p, Head(received[p]))
<1>1. Head(received[p]).type = "HOST" /\ life' = life
  BY DEF HandleHost, Handle, deepServer
<1> SUFFICES ASSUME NEW x, Head(received[p]).host = x
             PROVE  Plays(p, x)'
  BY <1>1 DEF Takes, Naming, Named
<1>2. /\ hostId' = [hostId EXCEPT ![p] = x] /\ enabled' = [enabled EXCEPT ![p] = TRUE]
      /\ isHost' = [isHost EXCEPT ![p] = (x = Id(p))]
  BY DEF HandleHost, ApplyDeepHost, Play
<1>3. hostId'[p] = x /\ enabled'[p] = TRUE /\ isHost'[p] = (x = Id(p)) /\ Id(p)' = Id(p)
  BY <1>1, <1>2, SameRecord DEF DeepBase, DeepTypeOK
<1> QED BY <1>3 DEF Plays

LEMMA RoleTaken ==
  ASSUME DeepBase, NEW p \in Player, HandleRole(p)
  PROVE  Takes(p, Head(received[p]))
<1> DEFINE f == Head(received[p])
<1>1. life' = life /\ f.type \in {"is_host", "is_joiner"}
  BY DEF HandleRole, Handle, deepServer
<1>2. Id(p)' = Id(p)
  BY <1>1, SameRecord
<1>3. CASE f.type = "is_host"
  <2>1. /\ hostId' = [hostId EXCEPT ![p] = Id(p)] /\ enabled' = [enabled EXCEPT ![p] = TRUE]
        /\ isHost' = [isHost EXCEPT ![p] = (Id(p) = Id(p))]
    BY <1>3 DEF HandleRole, ApplyDeepHost, Play
  <2>2. hostId'[p] = Id(p) /\ enabled'[p] = TRUE /\ isHost'[p] = (Id(p) = Id(p))
    BY <2>1 DEF DeepBase, DeepTypeOK
  <2>3. Plays(p, Id(p))'
    BY <1>2, <2>2 DEF Plays
  <2> QED BY <1>2, <1>3, <2>3 DEF Takes, Naming, Named
<1>4. CASE f.type = "is_joiner"
  <2>1. /\ hostId' = [hostId EXCEPT ![p] = hostId[p]] /\ enabled' = [enabled EXCEPT ![p] = TRUE]
        /\ isHost' = [isHost EXCEPT ![p] = (enabled[p] /\ hostId[p] = Id(p))]
    BY <1>4 DEF HandleRole, Play
  <2>2. hostId'[p] = hostId[p] /\ enabled'[p] = TRUE /\ isHost'[p] = (enabled[p] /\ hostId[p] = Id(p))
    BY <2>1 DEF DeepBase, DeepTypeOK
  <2>3. ASSUME NEW x, Plays(p, x) PROVE Plays(p, x)'
    <3>1. enabled[p] = TRUE /\ hostId[p] = x
      BY <2>3 DEF Plays
    <3>2. (enabled[p] /\ hostId[p] = Id(p)) = (x = Id(p))
      BY <3>1
    <3> QED BY <1>2, <2>2, <3>1, <3>2 DEF Plays
  <2> QED BY <1>4, <2>3 DEF Takes, Naming
<1> QED BY <1>1, <1>3, <1>4

LEMMA CommandTaken ==
  ASSUME DeepBase, NEW p \in Player, HandleCommand(p)
  PROVE  Takes(p, Head(received[p]))
<1>1. life' = life /\ Head(received[p]).type = "COMMAND" /\ UNCHANGED deepClient
  BY DEF HandleCommand, Handle, deepServer
<1>2. Id(p)' = Id(p)
  BY <1>1, SameRecord
<1>3. \A x : Plays(p, x) => Plays(p, x)'
  BY <1>1, <1>2 DEF Plays, deepClient
<1> QED BY <1>1, <1>3 DEF Takes, Naming

-----------------------------------------------------------------------------
\* The same steps for a command that p has yet to read, its i-th frame.
LEMMA HeedsSame ==
  ASSUME NEW p \in Player, NEW x, NEW i, Heeds(p, i, x), life'[p] = life[p], tasks' = tasks,
         received'[p] = received[p],
         enabled'[p] = enabled[p] /\ isHost'[p] = isHost[p] /\ hostId'[p] = hostId[p]
  PROVE  Heeds(p, i, x)'
<1>1. /\ Id(p)' = Id(p) /\ NamesIt(p, x)' = NamesIt(p, x) /\ TaskNamesIt(p, x)' = TaskNamesIt(p, x)
      /\ NamesHost' = NamesHost /\ TaskNames(p)' = TaskNames(p)
  BY SameRecord DEF NamesHost, TaskNames
<1>2. Plays(p, x)' = Plays(p, x)
  BY <1>1 DEF Plays
<1>3. Before(p, i, x) => Before(p, i, x)'
  BY <1>1, <1>2 DEF Before
<1> QED BY <1>1, <1>3 DEF Heeds

LEMMA BeforeMore ==
  ASSUME NEW p \in Player, NEW x, NEW i, Before(p, i, x), life'[p] = life[p],
         received[p] \in Seq(ServerFrame), NEW f \in ServerFrame, Naming(f) => Named(f, p) = x,
         received'[p] = Append(received[p], f),
         enabled'[p] = enabled[p] /\ isHost'[p] = isHost[p] /\ hostId'[p] = hostId[p]
  PROVE  Before(p, i, x)'
<1> DEFINE q == received[p]
           u == received'[p]
           N == NamesHost
           A == NamesIt(p, x)
<1>1. Id(p)' = Id(p) /\ NamesIt(p, x)' = A /\ NamesHost' = N
  BY SameRecord DEF NamesHost
<1>2. Plays(p, x)' = Plays(p, x)
  BY <1>1 DEF Plays
<1>3. f \in N => f \in A
  BY DEF NamesHost, NamesIt
<1>4. /\ DOMAIN u = DOMAIN q \cup {Len(q) + 1} /\ u[Len(q) + 1] = f
      /\ \A m \in DOMAIN q : u[m] = q[m]
  BY Appended
<1> HIDE DEF q, u, N, A
<1>5. \/ Plays(p, x) /\ AllSay(q, N, A)
      \/ \E j \in DOMAIN q :
           /\ j < i /\ q[j] \in N /\ q[j] \in A
           /\ \A m \in DOMAIN q : m > j /\ q[m] \in N => q[m] \in A
  BY DEF Before, q, N, A
<1>6. AllSay(q, N, A) => AllSay(u, N, A)
  BY <1>3, <1>4 DEF AllSay
<1>7. ASSUME NEW j \in DOMAIN q, j < i, q[j] \in N, q[j] \in A,
             \A m \in DOMAIN q : m > j /\ q[m] \in N => q[m] \in A
      PROVE  /\ j \in DOMAIN u /\ u[j] \in N /\ u[j] \in A
             /\ \A m \in DOMAIN u : m > j /\ u[m] \in N => u[m] \in A
  BY <1>3, <1>4, <1>7
<1>8. \/ Plays(p, x)' /\ AllSay(u, N, A)
      \/ \E j \in DOMAIN u :
           /\ j < i /\ u[j] \in N /\ u[j] \in A
           /\ \A m \in DOMAIN u : m > j /\ u[m] \in N => u[m] \in A
  BY <1>2, <1>5, <1>6, <1>7
<1> QED BY <1>1, <1>8 DEF Before, u

LEMMA HeedsReplied ==
  ASSUME NEW p \in Player, NEW x, NEW i, Heeds(p, i, x), life'[p] = life[p], tasks' = tasks,
         received[p] \in Seq(ServerFrame), NEW f \in ServerFrame, Naming(f) => Named(f, p) = x,
         received'[p] = Append(received[p], f),
         enabled'[p] = enabled[p] /\ isHost'[p] = isHost[p] /\ hostId'[p] = hostId[p]
  PROVE  Heeds(p, i, x)'
<1>1. TaskNamesIt(p, x)' = TaskNamesIt(p, x) /\ TaskNames(p)' = TaskNames(p)
  BY SameRecord DEF TaskNames
<1>2. Before(p, i, x)'
  BY BeforeMore DEF Heeds
<1> QED BY <1>1, <1>2 DEF Heeds

LEMMA HeedsCast ==
  ASSUME NEW p \in Player, NEW x, NEW i, Heeds(p, i, x),
         tasks \in Seq(Task), NEW s \in Seq(Task), tasks' = tasks \o s,
         life'[p] = life[p], received'[p] = received[p],
         enabled'[p] = enabled[p] /\ isHost'[p] = isHost[p] /\ hostId'[p] = hostId[p],
         AllSay(s, TaskNames(p), TaskNamesIt(p, x))
  PROVE  Heeds(p, i, x)'
<1>1. /\ Id(p)' = Id(p) /\ NamesIt(p, x)' = NamesIt(p, x) /\ TaskNamesIt(p, x)' = TaskNamesIt(p, x)
      /\ NamesHost' = NamesHost /\ TaskNames(p)' = TaskNames(p)
  BY SameRecord DEF NamesHost, TaskNames
<1>2. Plays(p, x)' = Plays(p, x)
  BY <1>1 DEF Plays
<1>3. Before(p, i, x) => Before(p, i, x)'
  BY <1>1, <1>2 DEF Before
<1>4. AllSay(tasks \o s, TaskNames(p), TaskNamesIt(p, x))
  BY AllSayJoin DEF Heeds
<1> QED BY <1>1, <1>3, <1>4 DEF Heeds

LEMMA HeedsDelivered ==
  ASSUME NEW p \in Player, NEW x, NEW i, Heeds(p, i, x), tasks \in Seq(Task), tasks # <<>>,
         tasks' = Tail(tasks), life'[p] = life[p], received[p] \in Seq(ServerFrame),
         received'[p] = IF p \in Head(tasks).to THEN Append(received[p], Head(tasks).frame) ELSE received[p],
         enabled'[p] = enabled[p] /\ isHost'[p] = isHost[p] /\ hostId'[p] = hostId[p]
  PROVE  Heeds(p, i, x)'
<1> DEFINE t == Head(tasks)
<1>1. /\ Id(p)' = Id(p) /\ NamesIt(p, x)' = NamesIt(p, x) /\ TaskNamesIt(p, x)' = TaskNamesIt(p, x)
      /\ NamesHost' = NamesHost /\ TaskNames(p)' = TaskNames(p)
  BY SameRecord DEF NamesHost, TaskNames
<1>2. AllSay(Tail(tasks), TaskNames(p), TaskNamesIt(p, x)) /\ (t \in TaskNames(p) => t \in TaskNamesIt(p, x))
  BY AllSayTail DEF Heeds
<1>3. t \in Task
  BY QueueFacts
<1>4. received'[p] = IF p \in t.to THEN Append(received[p], t.frame) ELSE received[p]
  OBVIOUS
<1> HIDE DEF t
<1>5. t.frame \in ServerFrame
  <2>1. t.frame \in HostFrame
    BY <1>3 DEF Task
  <2> QED BY <2>1 DEF ServerFrame
<1>6. CASE p \in t.to
  <2>1. Naming(t.frame) => Named(t.frame, p) = x
    BY <1>2, <1>3, <1>6 DEF TaskNames, TaskNamesIt
  <2>2. Before(p, i, x)'
    BY <1>4, <1>5, <1>6, <2>1, BeforeMore DEF Heeds
  <2> QED BY <1>1, <1>2, <2>2 DEF Heeds
<1>7. CASE p \notin t.to
  <2>1. Plays(p, x)' = Plays(p, x)
    BY <1>1 DEF Plays
  <2>2. Before(p, i, x)'
    BY <1>1, <1>4, <1>7, <2>1 DEF Before, Heeds
  <2> QED BY <1>1, <1>2, <2>2 DEF Heeds
<1> QED BY <1>6, <1>7

\* p has read its first frame.
LEMMA HeedsRead ==
  ASSUME NEW p \in Player, NEW x, NEW i \in Nat, Heeds(p, i + 1, x), i > 0, tasks = <<>>, tasks' = <<>>,
         life'[p] = life[p], received[p] \in Seq(ServerFrame), received[p] # <<>>,
         received'[p] = Tail(received[p]), Takes(p, Head(received[p]))
  PROVE  Heeds(p, i, x)'
<1> DEFINE q == received[p]
           u == received'[p]
           f == Head(q)
           N == NamesHost
           A == NamesIt(p, x)
<1>1. /\ Id(p)' = Id(p) /\ NamesIt(p, x)' = A /\ TaskNamesIt(p, x)' = TaskNamesIt(p, x)
      /\ NamesHost' = N /\ TaskNames(p)' = TaskNames(p)
  BY SameRecord DEF NamesHost, TaskNames
<1>2. /\ f \in N <=> Naming(f)
      /\ f \in A <=> Named(f, p) = x
  BY QueueFacts DEF NamesHost, NamesIt
<1>3. /\ \A m \in DOMAIN u : m + 1 \in DOMAIN q /\ u[m] = q[m + 1] /\ m \in Nat /\ m > 0
      /\ \A m \in DOMAIN q : m # 1 => m - 1 \in DOMAIN u /\ u[m - 1] = q[m] /\ m \in Nat
      /\ 1 \in DOMAIN q /\ f = q[1] /\ \A m \in DOMAIN q : m \in Nat
  BY Tailed, QueueFacts
<1>4. /\ Naming(f) => (Named(f, p) = x => Plays(p, x)')
      /\ ~Naming(f) => (Plays(p, x) => Plays(p, x)')
  BY DEF Takes
<1> HIDE DEF q, u, f, N, A
<1>5. \/ Plays(p, x) /\ AllSay(q, N, A)
      \/ \E j \in DOMAIN q :
           /\ j < i + 1 /\ q[j] \in N /\ q[j] \in A
           /\ \A m \in DOMAIN q : m > j /\ q[m] \in N => q[m] \in A
  BY DEF Heeds, Before, q, N, A
<1>6. CASE Plays(p, x) /\ AllSay(q, N, A)
  <2>1. AllSay(u, N, A) /\ (f \in N => f \in A)
    BY <1>3, <1>6 DEF AllSay
  <2>2. Plays(p, x)'
    BY <1>2, <1>4, <1>6, <2>1
  <2>3. Before(p, i, x)'
    BY <1>1, <2>1, <2>2 DEF Before, u
  <2> QED BY <1>1, <2>3, NothingSaid DEF Heeds
<1>7. ASSUME NEW j \in DOMAIN q, j < i + 1, q[j] \in N, q[j] \in A,
             \A m \in DOMAIN q : m > j /\ q[m] \in N => q[m] \in A
      PROVE  Before(p, i, x)'
  <2>1. CASE j = 1
    <3>1. Plays(p, x)'
      BY <1>2, <1>3, <1>4, <1>7, <2>1
    <3>2. ASSUME NEW m \in DOMAIN u, u[m] \in N PROVE u[m] \in A
      <4>1. m + 1 \in DOMAIN q /\ m + 1 > j /\ u[m] = q[m + 1]
        BY <1>3, <2>1
      <4> QED BY <1>7, <3>2, <4>1
    <3>3. AllSay(u, N, A)
      BY <3>2 DEF AllSay
    <3> QED BY <1>1, <3>1, <3>3 DEF Before, u
  <2>2. CASE j # 1
    <3>1. j - 1 \in DOMAIN u /\ u[j - 1] = q[j] /\ j \in Nat /\ j - 1 < i
      BY <1>3, <1>7, <2>2
    <3>2. ASSUME NEW m \in DOMAIN u, m > j - 1, u[m] \in N PROVE u[m] \in A
      <4>1. m + 1 \in DOMAIN q /\ m + 1 > j /\ u[m] = q[m + 1]
        BY <1>3, <3>1, <3>2
      <4> QED BY <1>7, <3>2, <4>1
    <3>3. \E n \in DOMAIN u :
            /\ n < i /\ u[n] \in N /\ u[n] \in A
            /\ \A m \in DOMAIN u : m > n /\ u[m] \in N => u[m] \in A
      BY <1>7, <3>1, <3>2
    <3> QED BY <1>1, <3>3 DEF Before, u
  <2> QED BY <2>1, <2>2
<1>8. CASE ~(Plays(p, x) /\ AllSay(q, N, A))
  <2>1. Before(p, i, x)'
    BY <1>5, <1>7, <1>8
  <2> QED BY <1>1, <2>1, NothingSaid DEF Heeds
<1> QED BY <1>6, <1>8

\* A command is relayed to a host that no broadcast is on its way to.
LEMMA HeedsRelayed ==
  ASSUME NEW p \in Player, NEW x, Leads(p, x), ~Overtakes(p), tasks \in Seq(Task), tasks' = tasks,
         life'[p] = life[p], received[p] \in Seq(ServerFrame), NEW f \in ServerFrame, ~Naming(f),
         received'[p] = Append(received[p], f),
         enabled'[p] = enabled[p] /\ isHost'[p] = isHost[p] /\ hostId'[p] = hostId[p],
         NEW n, n = Len(received[p]) + 1
  PROVE  Heeds(p, n, x)'
<1> DEFINE q == received[p]
<1>1. /\ TaskNamesIt(p, x)' = TaskNamesIt(p, x) /\ TaskNames(p)' = TaskNames(p)
  BY SameRecord DEF TaskNames
<1>2. /\ AllSay(tasks, TaskNames(p), TaskNamesIt(p, x)) /\ ~EndsOn(tasks, TaskNames(p), TaskNamesIt(p, x))
  BY QueueFacts DEF AllSay, EndsOn, TaskNames, Overtakes
<1>3. WillPlay(p, x) /\ \A j \in DOMAIN q : j < n
  BY <1>2, Appended DEF Leads
<1>4. Before(p, n, x)
  BY <1>3 DEF WillPlay, Before, EndsOn
<1>5. Before(p, n, x)'
  BY <1>4, BeforeMore
<1> QED BY <1>1, <1>2, <1>5 DEF Heeds

-----------------------------------------------------------------------------
\* The steps of the room's host.
Unchanging == UNCHANGED <<life, enabled, isHost, hostId>>

\* Nothing a player knows, or is told, changes.
LEMMA IdleFollows ==
  ASSUME DeepInv, UNCHANGED <<roomHost, seat, life, socket, tasks, received, deepClient>>,
         misled' = misled, Unmarked' \subseteq Unmarked
  PROVE  RolesFollow' /\ HostsPlay' /\ CommandsFollow'
<1>1. /\ Unchanging /\ UNCHANGED <<roomHost, seat, socket, tasks, received>>
      /\ \A p \in Player : Id(p)' = Id(p) /\ Present(p)' = Present(p)
  BY DEF Unchanging, deepClient, Id, Present
<1>2. \A p \in Player : \A x : Leads(p, x) => Leads(p, x)'
  BY <1>1, LeadsSame DEF Unchanging
<1>3. \A p \in Player : \A x, i : Heeds(p, i, x) => Heeds(p, i, x)'
  BY <1>1, HeedsSame DEF Unchanging
<1>4. RolesFollow'
  BY <1>1, <1>2 DEF DeepInv, RolesFollow
<1>5. HostsPlay'
  BY <1>1, <1>2 DEF DeepInv, HostsPlay
<1>6. CommandsFollow'
  BY <1>1, <1>3 DEF DeepInv, CommandsFollow
<1> QED BY <1>4, <1>5, <1>6

LEMMA DeepStarts == DeepInit => DeepInv
<1> SUFFICES ASSUME DeepInit PROVE DeepInv
  OBVIOUS
<1>1. DeepTypeOK
  BY DeepBounds DEF DeepInit, DeepTypeOK
<1>2. NetOK
  BY DEF DeepInit, NetOK
<1>3. Ages
  BY DeepBounds DEF DeepInit, Ages, Ids
<1>4. RolesFollow /\ HostsPlay /\ CommandsFollow /\ CommandsHeard
  BY DeepBounds DEF DeepInit, RolesFollow, HostsPlay, CommandsFollow, CommandsHeard, Present, Unmarked
<1> QED BY <1>1, <1>2, <1>3, <1>4 DEF DeepInv, DeepBase

LEMMA DeedCounts ==
  ASSUME DeepBase, Deed
  PROVE  deeds' \in 0..MaxDeeds /\ deeds' = deeds + 1 /\ deeds \in Nat
BY DeepBounds DEF Deed, DeepBase, DeepTypeOK

\* The client sends.
LEMMA SayKeeps ==
  ASSUME DeepInv, NEW p \in Player, NEW f \in ClientFrame, Say(p, f), wantsHost' = wantsHost
  PROVE  DeepInv'
<1>1. /\ UNCHANGED <<deepServer, tasks, received, deepClient, deepHistory>>
      /\ sent' = [sent EXCEPT ![p] = Append(@, f)]
      /\ deeds' \in 0..MaxDeeds /\ deeds' = deeds + 1 /\ deeds \in Nat
  BY DeedCounts DEF Say, DeepInv
<1>2. Append(sent[p], f) \in Seq(ClientFrame)
  BY Deeps, Appended DEF DeepInv
<1>3. DeepTypeOK'
  BY <1>1 DEF DeepInv, DeepBase, DeepTypeOK, deepServer, deepClient, deepHistory, Ids
<1>4. NetOK'
  BY <1>1, <1>2 DEF DeepInv, DeepBase, NetOK, deepServer, Present, Task, ServerFrame, HostFrame, Ids
<1>5. Ages'
  BY <1>1 DEF DeepInv, DeepBase, DeepTypeOK, Ages, deepServer
<1>6. CommandsHeard' /\ Unmarked' = Unmarked
  BY <1>1 DEF DeepInv, CommandsHeard, Unmarked, deepHistory
<1>7. RolesFollow' /\ HostsPlay' /\ CommandsFollow'
  BY <1>1, <1>6, IdleFollows DEF deepServer, deepHistory
<1> QED BY <1>3, <1>4, <1>5, <1>6, <1>7 DEF DeepInv, DeepBase

LEMMA SpeaksKeeps ==
  ASSUME DeepInv, NEW p \in Player, wantsHost' = wantsHost,
         \/ \E role \in {"host", "joiner"} : ClaimRole(p, role)
         \/ \E r \in Room : ChangeRoom(p, r)
         \/ RelayCommand(p)
  PROVE  DeepInv'
<1>1. /\ \A role \in {"host", "joiner"} : [type |-> role] \in ClientFrame
      /\ \A r \in Room : [type |-> "JOIN", room |-> r] \in ClientFrame
      /\ [type |-> "COMMAND"] \in ClientFrame
  BY DEF ClientFrame
<1> QED BY <1>1, SayKeeps DEF ClaimRole, ChangeRoom, RelayCommand

-----------------------------------------------------------------------------
\* The server takes a frame.
LEMMA Taken ==
  ASSUME DeepBase, NEW p \in Player, NEW type, Take(p, type)
  PROVE  /\ Present(p) /\ Head(sent[p]) \in ClientFrame /\ Head(sent[p]).type = type
         /\ sent' \in [Player -> Seq(ClientFrame)]
         /\ UNCHANGED <<life, socket, deepClient, deeds>>
<1>1. sent[p] \in Seq(ClientFrame) /\ sent[p] # <<>>
  BY Deeps DEF Take
<1>2. Head(sent[p]) \in ClientFrame /\ Tail(sent[p]) \in Seq(ClientFrame)
  BY <1>1, QueueFacts
<1> QED BY <1>2 DEF Take, DeepBase, NetOK

\* A role goes to p alone.
RoleTask(p, role) == [from |-> p, to |-> {p}, frame |-> [type |-> role]]

HostTask(p, h) == [from |-> p, to |-> Members(seat[p]), frame |-> DeepHost(h)]

LEMMA RoleSaid ==
  ASSUME NEW p \in Player, NEW role \in {"is_host", "is_joiner"}
  PROVE  /\ <<RoleTask(p, role)>> \in Seq(Task)
         /\ \A q \in Player : \A x : (q = p /\ role = "is_host" => x = Id(p)) =>
              AllSay(<<RoleTask(p, role)>>, TaskNames(q), TaskNamesIt(q, x))
<1> DEFINE t == RoleTask(p, role)
<1>1. [type |-> role] \in HostFrame
  BY DEF HostFrame
<1>2. t \in Task
  BY <1>1 DEF Task, RoleTask
<1>3. ASSUME NEW q \in Player, NEW x, q = p /\ role = "is_host" => x = Id(p)
      PROVE  t \in TaskNames(q) => t \in TaskNamesIt(q, x)
  <2>1. t.to = {p} /\ t.frame = [type |-> role]
    BY DEF RoleTask
  <2> HIDE DEF t
  <2> QED BY <1>2, <1>3, <2>1 DEF TaskNames, TaskNamesIt, Naming, Named
<1>4. <<t>> \in Seq(Task)
  BY <1>2
<1> HIDE DEF t
<1>5. \A q \in Player : \A x : (q = p /\ role = "is_host" => x = Id(p)) =>
        AllSay(<<t>>, TaskNames(q), TaskNamesIt(q, x))
  BY <1>3, OneSaid
<1> QED BY <1>4, <1>5 DEF t

\* The announcement of h is what the room's members read last.
LEMMA HostSaid ==
  ASSUME NEW p \in Player, Present(p), NEW role \in {"is_host", "is_joiner"},
         NEW h \in Ids \cup {None}, role = "is_host" => h = Id(p),
         NEW s, s = <<HostTask(p, h)>> \o <<RoleTask(p, role)>>
  PROVE  /\ s \in Seq(Task)
         /\ \A q \in Members(seat[p]) : /\ EndsOn(s, TaskNames(q), TaskNamesIt(q, h))
                                        /\ AllSay(s, TaskNames(q), TaskNamesIt(q, h))
         /\ \A q \in Player \ Members(seat[p]) : \A x : AllSay(s, TaskNames(q), TaskNamesIt(q, x))
<1> DEFINE t == HostTask(p, h)
           w == <<RoleTask(p, role)>>
<1>1. DeepHost(h) \in HostFrame /\ Members(seat[p]) \in SUBSET Player /\ p \in Members(seat[p])
  BY DEF HostFrame, DeepHost, Members
<1>2. /\ t \in Task /\ t.to = Members(seat[p]) /\ t.frame.type = "HOST" /\ t.frame.host = h
  BY <1>1 DEF Task, HostTask, DeepHost
<1> HIDE DEF t
<1>3. /\ \A q \in Members(seat[p]) : t \in TaskNames(q) /\ t \in TaskNamesIt(q, h)
      /\ \A q \in Player \ Members(seat[p]) : t \notin TaskNames(q)
  BY <1>2 DEF TaskNames, TaskNamesIt, Naming, Named
<1>4. /\ <<t>> \in Seq(Task)
      /\ \A q \in Members(seat[p]) : /\ EndsOn(<<t>>, TaskNames(q), TaskNamesIt(q, h))
                                     /\ AllSay(<<t>>, TaskNames(q), TaskNamesIt(q, h))
      /\ \A q \in Player \ Members(seat[p]) : \A x : AllSay(<<t>>, TaskNames(q), TaskNamesIt(q, x))
  BY <1>2, <1>3, OneSaid
<1>5. /\ w \in Seq(Task)
      /\ \A q \in Player : AllSay(w, TaskNames(q), TaskNamesIt(q, h))
      /\ \A q \in Player \ Members(seat[p]) : \A x : AllSay(w, TaskNames(q), TaskNamesIt(q, x))
  BY <1>1, RoleSaid
<1> HIDE DEF w
<1>6. s = <<t>> \o w
  BY DEF t, w
<1>7. s \in Seq(Task)
  BY <1>4, <1>5, <1>6, TwoWritten
<1>8. ASSUME NEW q \in Members(seat[p])
      PROVE  EndsOn(s, TaskNames(q), TaskNamesIt(q, h)) /\ AllSay(s, TaskNames(q), TaskNamesIt(q, h))
  <2>1. q \in Player
    BY <1>1
  <2> QED BY <1>4, <1>5, <1>6, <2>1, EndsOnJoin, AllSayJoin
<1>9. ASSUME NEW q \in Player \ Members(seat[p]), NEW x
      PROVE  AllSay(s, TaskNames(q), TaskNamesIt(q, x))
  BY <1>4, <1>5, <1>6, AllSayJoin
<1> QED BY <1>7, <1>8, <1>9

\* h is announced as the host of p's room: its members will play so.
LEMMA AnnouncedFollows ==
  ASSUME DeepInv, NEW p \in Player, NEW h \in Ids \cup {None}, NEW s \in Seq(Task),
         tasks' = tasks \o s, roomHost' = [roomHost EXCEPT ![seat[p]] = h],
         UNCHANGED <<life, socket, seat, received, deepClient>>,
         misled' = misled \ Members(seat[p]), Unmarked' \subseteq Unmarked,
         seat[p] \in Unmarked' =>
           roomHost[seat[p]] = h \/ (roomHost[seat[p]] = None /\ h = Id(p) /\ Present(p)),
         \A q \in Members(seat[p]) : /\ EndsOn(s, TaskNames(q), TaskNamesIt(q, h))
                                     /\ AllSay(s, TaskNames(q), TaskNamesIt(q, h)),
         \A q \in Player \ Members(seat[p]) : \A x : AllSay(s, TaskNames(q), TaskNamesIt(q, x))
  PROVE  RolesFollow' /\ HostsPlay' /\ CommandsFollow'
<1> DEFINE r == seat[p]
           M == Members(seat[p])
<1>1. /\ Unchanging /\ UNCHANGED <<seat, socket, received>> /\ r \in Room /\ tasks \in Seq(Task)
      /\ \A q \in Player : Id(q)' = Id(q) /\ Present(q)' = Present(q)
  BY Deeps DEF Unchanging, deepClient, Id, Present, DeepInv
<1>2. \A q \in Player : q \in M <=> Present(q) /\ seat[q] = r
  BY DEF Members
<1>3. roomHost' = [roomHost EXCEPT ![r] = h] /\ r \in Room /\ DOMAIN roomHost = Room
  BY <1>1 DEF DeepInv, DeepBase, DeepTypeOK
<1>4. \A q \in Player : seat[q] \in Room
  BY Deeps DEF DeepInv
<1>5. ASSUME NEW q \in M PROVE Leads(q, h)'
  <2>1. q \in Player
    BY <1>2 DEF Members
  <2> QED BY <1>1, <2>1, LeadsCast DEF Unchanging
<1>6. ASSUME NEW q \in Player \ M, NEW x, Leads(q, x) PROVE Leads(q, x)'
  BY <1>1, <1>6, LeadsCast DEF Unchanging
<1>7. ASSUME NEW q \in Player, NEW x, NEW i, Heeds(q, i, x), q \in M => x = h
      PROVE  Heeds(q, i, x)'
  <2>1. AllSay(s, TaskNames(q), TaskNamesIt(q, x))
    BY <1>7
  <2> QED BY <1>1, <1>7, <2>1, HeedsCast DEF Unchanging
<1> HIDE DEF r, M
<1>8. RolesFollow'
  <2> SUFFICES ASSUME NEW q \in Player \ misled', NEW x \in Ids \cup {None},
                      Present(q)', roomHost'[seat'[q]] = x
               PROVE  Leads(q, x)'
    BY DEF RolesFollow, Ids
  <2>1. Present(q) /\ seat'[q] = seat[q] /\ seat[q] \in Room
    BY <1>1, <1>4
  <2>2. CASE q \in M
    BY <1>2, <1>3, <1>5, <2>1, <2>2
  <2>3. CASE q \notin M
    <3>1. q \notin misled /\ seat[q] # r
      BY <1>2, <2>1, <2>3 DEF M
    <3>2. roomHost[seat[q]] = x
      BY <1>3, <2>1, <3>1
    <3> QED BY <1>6, <2>1, <2>3, <3>1, <3>2 DEF DeepInv, RolesFollow
  <2> QED BY <2>2, <2>3
<1>9. HostsPlay'
  <2> SUFFICES ASSUME NEW k \in Unmarked', NEW q \in Player, NEW x \in Ids, roomHost'[k] = x, Id(q)' = x
               PROVE  seat'[q] = k /\ (Present(q)' => Leads(q, x)')
    BY DEF HostsPlay, Ids
  <2>1. k \in Unmarked /\ k \in Room /\ Id(q) = x /\ x # None
    BY <1>1, DeepBounds DEF Unmarked
  <2>2. CASE k # r
    <3>1. roomHost[k] = x
      BY <1>3, <2>1, <2>2
    <3>2. seat[q] = k /\ (Present(q) => Leads(q, x))
      BY <2>1, <3>1 DEF DeepInv, HostsPlay
    <3> QED BY <1>1, <1>2, <1>6, <2>2, <3>2
  <2>3. CASE k = r
    <3>1. h = x
      BY <1>3, <2>3
    <3>2. seat[q] = r
      <4>1. CASE roomHost[r] = h
        BY <2>1, <2>3, <3>1, <4>1 DEF DeepInv, HostsPlay
      <4>2. CASE roomHost[r] # h
        <5>1. h = Id(p)
          BY <2>3, <4>2 DEF r
        <5> QED BY <2>1, <3>1, <5>1, IdsDiffer DEF r
      <4> QED BY <4>1, <4>2
    <3> QED BY <1>1, <1>2, <1>5, <2>3, <3>1, <3>2
  <2> QED BY <2>2, <2>3
<1>10. CommandsFollow'
  <2> SUFFICES ASSUME NEW q \in Player, NEW x \in Ids, Id(q)' = x, NEW i \in DOMAIN received'[q],
                      received'[q][i].type = "COMMAND", received'[q][i].room \in Unmarked'
               PROVE  roomHost'[received'[q][i].room] = x /\ Heeds(q, i, x)'
    BY DEF CommandsFollow, Ids
  <2> DEFINE k == received[q][i].room
  <2>1. /\ i \in DOMAIN received[q] /\ received[q][i].type = "COMMAND"
        /\ k \in Unmarked /\ k \in Unmarked' /\ received'[q][i].room = k /\ Id(q) = x
    BY <1>1
  <2> HIDE DEF k
  <2>2. roomHost[k] = x /\ Heeds(q, i, x)
    BY <2>1 DEF DeepInv, CommandsFollow, k
  <2>3. seat[q] = k /\ x # None
    BY <2>1, <2>2, DeepBounds DEF DeepInv, HostsPlay
  <2>4. k = r => h = x
    BY <2>1, <2>2, <2>3 DEF r
  <2>5. roomHost'[k] = x
    BY <1>3, <1>4, <2>2, <2>3, <2>4
  <2>6. Heeds(q, i, x)'
    BY <1>2, <1>7, <2>2, <2>3, <2>4
  <2> QED BY <2>1, <2>5, <2>6
<1> QED BY <1>8, <1>9, <1>10

\* Broadcasts that name nobody.
LEMMA UnannouncedFollows ==
  ASSUME DeepInv, NEW s \in Seq(Task), tasks' = tasks \o s,
         UNCHANGED <<life, socket, seat, received, deepClient, roomHost, misled>>,
         Unmarked' \subseteq Unmarked,
         \A q \in Player : \A x : AllSay(s, TaskNames(q), TaskNamesIt(q, x))
  PROVE  RolesFollow' /\ HostsPlay' /\ CommandsFollow'
<1>1. /\ Unchanging /\ UNCHANGED <<roomHost, seat, socket, received>> /\ tasks \in Seq(Task)
      /\ \A p \in Player : Id(p)' = Id(p) /\ Present(p)' = Present(p)
  BY DEF Unchanging, deepClient, Id, Present, DeepInv, DeepBase, NetOK
<1>2. \A p \in Player : \A x : Leads(p, x) => Leads(p, x)'
  BY <1>1, LeadsCast DEF Unchanging
<1>3. \A p \in Player : \A x, i : Heeds(p, i, x) => Heeds(p, i, x)'
  BY <1>1, HeedsCast DEF Unchanging
<1>4. RolesFollow'
  BY <1>1, <1>2 DEF DeepInv, RolesFollow
<1>5. HostsPlay'
  BY <1>1, <1>2 DEF DeepInv, HostsPlay
<1>6. CommandsFollow'
  BY <1>1, <1>3 DEF DeepInv, CommandsFollow
<1> QED BY <1>4, <1>5, <1>6

LEMMA HostAnnounced ==
  ASSUME DeepBase, NEW p \in Player, Present(p), NEW h \in Ids \cup {None},
         NEW role \in {"is_host", "is_joiner"}, Announce(p, <<DeepHost(h)>>, role)
  PROVE  tasks' = tasks \o (<<HostTask(p, h)>> \o <<RoleTask(p, role)>>)
<1>1. DOMAIN <<DeepHost(h)>> = {1} /\ <<DeepHost(h)>>[1] = DeepHost(h)
  OBVIOUS
<1>2. [i \in DOMAIN <<DeepHost(h)>> |-> [from |-> p, to |-> Members(seat[p]), frame |-> <<DeepHost(h)>>[i]]]
        = <<HostTask(p, h)>>
  BY <1>1 DEF HostTask
<1>3. tasks' = (tasks \o <<HostTask(p, h)>>) \o <<RoleTask(p, role)>>
  BY <1>2 DEF Announce, RoleTask
<1>4. DeepHost(h) \in HostFrame /\ Members(seat[p]) \in SUBSET Player
  BY DEF HostFrame, DeepHost, Members
<1>5. HostTask(p, h) \in Task
  BY <1>4 DEF Task, HostTask
<1>6. <<HostTask(p, h)>> \in Seq(Task)
  BY <1>5
<1>7. <<RoleTask(p, role)>> \in Seq(Task) /\ tasks \in Seq(Task)
  BY RoleSaid, Deeps
<1> QED BY <1>3, <1>6, <1>7, ConcatAssociative

LEMMA RoleAnnounced ==
  ASSUME DeepBase, NEW p \in Player, NEW role, Announce(p, <<>>, role)
  PROVE  tasks' = tasks \o <<RoleTask(p, role)>>
<1> DEFINE s == [i \in DOMAIN <<>> |-> [from |-> p, to |-> Members(seat[p]), frame |-> <<>>[i]]]
<1>1. s = <<>>
  OBVIOUS
<1>2. tasks' = (tasks \o s) \o <<RoleTask(p, role)>>
  BY DEF Announce, RoleTask
<1>3. tasks \in Seq(Task)
  BY DEF DeepBase, NetOK
<1>4. tasks \o <<>> = tasks
  BY <1>3
<1> QED BY <1>1, <1>2, <1>4

-----------------------------------------------------------------------------
\* claim_host and claim_joiner.
LEMMA ServedTypes ==
  ASSUME DeepInv, NEW p \in Player, UNCHANGED <<life, socket, deepClient, deeds, wantsHost>>,
         sent' \in [Player -> Seq(ClientFrame)], tasks' \in Seq(Task),
         received' \in [Player -> Seq(ServerFrame)],
         \A q \in Player : ~Present(q) => received'[q] = received[q],
         roomHost' \in [Room -> Ids \cup {None}], seat' \in [Player -> Room], misled' \subseteq Player,
         vacated' \subseteq Room, yielded' \subseteq Room, early' \subseteq Room, ignored' = ignored,
         vacated \subseteq vacated', yielded \subseteq yielded', early \subseteq early',
         \A k \in Room : roomHost'[k] \in {roomHost[k], Id(p), None}
  PROVE  DeepBase' /\ CommandsHeard' /\ Unmarked' \subseteq Unmarked
<1>1. DeepTypeOK'
  BY DEF DeepInv, DeepBase, DeepTypeOK, deepClient, Ids
<1>2. NetOK'
  BY DEF DeepInv, DeepBase, NetOK, Present, Task, ServerFrame, HostFrame, Ids
<1>3. Ages'
  <2>1. ASSUME NEW k \in Room, NEW q \in Player, NEW n \in 0..MaxDeeds, roomHost'[k] = <<q, n>>
        PROVE  n <= life'[q]
    <3>1. CASE roomHost'[k] = roomHost[k]
      BY <2>1, <3>1 DEF DeepInv, DeepBase, Ages
    <3>2. CASE roomHost'[k] = Id(p)
      <4>1. q = p /\ n = life[p]
        BY <2>1, <3>2 DEF Id
      <4>2. life[p] \in 0..MaxDeeds /\ life' = life
        BY DEF DeepInv, DeepBase, DeepTypeOK
      <4> QED BY <4>1, <4>2, DeepBounds
    <3>3. CASE roomHost'[k] = None
      <4>1. <<q, n>> \in Ids
        BY DEF Ids
      <4> QED BY <2>1, <3>3, <4>1, DeepBounds
    <3> QED BY <3>1, <3>2, <3>3
  <2>2. \A q \in Player : life'[q] <= deeds' /\ (socket'[q] = "evicted" => life'[q] + 1 <= deeds')
    BY DEF DeepInv, DeepBase, Ages
  <2> QED BY <2>1, <2>2 DEF Ages
<1>4. CommandsHeard'
  BY DEF DeepInv, CommandsHeard
<1>5. Unmarked' \subseteq Unmarked
  BY DEF Unmarked
<1> QED BY <1>1, <1>2, <1>3, <1>4, <1>5 DEF DeepBase

LEMMA HostClaimKeeps ==
  ASSUME DeepInv, NEW p \in Player, ServeHostClaim(p), wantsHost' = wantsHost
  PROVE  DeepInv'
<1> SUFFICES ASSUME NEW h, h = Claimed(seat[p], Id(p)) PROVE DeepInv'
  OBVIOUS
<1> SUFFICES ASSUME NEW role, role = IF h = Id(p) THEN "is_host" ELSE "is_joiner" PROVE DeepInv'
  OBVIOUS
<1> DEFINE s == <<HostTask(p, h)>> \o <<RoleTask(p, role)>>
<1>1. /\ Present(p) /\ sent' \in [Player -> Seq(ClientFrame)]
      /\ UNCHANGED <<life, socket, deepClient, deeds>>
  BY Taken DEF ServeHostClaim, DeepInv
<1>2. /\ roomHost' = [roomHost EXCEPT ![seat[p]] = h] /\ Announce(p, <<DeepHost(h)>>, role)
      /\ misled' = misled \ Members(seat[p])
      /\ UNCHANGED <<seat, received, vacated, yielded, early, ignored>>
  BY DEF ServeHostClaim
<1>3. h \in Ids \cup {None} /\ seat[p] \in Room
  BY Deeps DEF Claimed, DeepInv
<1>4. role \in {"is_host", "is_joiner"} /\ (role = "is_host" => h = Id(p))
  OBVIOUS
<1>5. tasks' = tasks \o s
  BY <1>1, <1>2, <1>3, <1>4, HostAnnounced DEF DeepInv
<1>6. /\ s \in Seq(Task)
      /\ \A q \in Members(seat[p]) : /\ EndsOn(s, TaskNames(q), TaskNamesIt(q, h))
                                     /\ AllSay(s, TaskNames(q), TaskNamesIt(q, h))
      /\ \A q \in Player \ Members(seat[p]) : \A x : AllSay(s, TaskNames(q), TaskNamesIt(q, x))
  BY <1>1, <1>3, <1>4, HostSaid
<1> HIDE DEF s
<1>7. tasks' \in Seq(Task)
  BY <1>5, <1>6, TwoWritten DEF DeepInv, DeepBase, NetOK
<1>8. /\ roomHost' \in [Room -> Ids \cup {None}] /\ seat' \in [Player -> Room] /\ misled' \subseteq Player
      /\ received' \in [Player -> Seq(ServerFrame)]
      /\ vacated' \subseteq Room /\ yielded' \subseteq Room /\ early' \subseteq Room
  BY <1>2, <1>3 DEF DeepInv, DeepBase, DeepTypeOK, NetOK
<1>9. \A k \in Room : roomHost'[k] \in {roomHost[k], Id(p), None}
  BY <1>2, <1>3 DEF DeepInv, DeepBase, DeepTypeOK, Claimed
<1>10. DeepBase' /\ CommandsHeard' /\ Unmarked' \subseteq Unmarked
  BY <1>1, <1>2, <1>7, <1>8, <1>9, ServedTypes
<1>11. roomHost[seat[p]] = h \/ (roomHost[seat[p]] = None /\ h = Id(p))
  BY DEF Claimed
<1>12. RolesFollow' /\ HostsPlay' /\ CommandsFollow'
  BY <1>1, <1>2, <1>3, <1>5, <1>6, <1>10, <1>11, AnnouncedFollows
<1> QED BY <1>10, <1>12 DEF DeepInv

LEMMA JoinerClaimKeeps ==
  ASSUME DeepInv, NEW p \in Player, ServeJoinerClaim(p), wantsHost' = wantsHost
  PROVE  DeepInv'
<1>1. /\ Present(p) /\ sent' \in [Player -> Seq(ClientFrame)]
      /\ UNCHANGED <<life, socket, deepClient, deeds>>
  BY Taken DEF ServeJoinerClaim, DeepInv
<1>2. UNCHANGED <<seat, received, vacated, early, ignored>> /\ seat[p] \in Room
  BY Deeps DEF ServeJoinerClaim, DeepInv
<1>3. CASE roomHost[seat[p]] = Id(p)
  <2> DEFINE s == <<HostTask(p, None)>> \o <<RoleTask(p, "is_joiner")>>
  <2>1. /\ roomHost' = [roomHost EXCEPT ![seat[p]] = None] /\ Announce(p, <<DeepHost(None)>>, "is_joiner")
        /\ misled' = misled \ Members(seat[p]) /\ yielded' = yielded \cup {seat[p]}
    BY <1>3 DEF ServeJoinerClaim
  <2>2. tasks' = tasks \o s
    BY <1>1, <2>1, HostAnnounced DEF DeepInv
  <2>3. /\ s \in Seq(Task)
        /\ \A q \in Members(seat[p]) : /\ EndsOn(s, TaskNames(q), TaskNamesIt(q, None))
                                       /\ AllSay(s, TaskNames(q), TaskNamesIt(q, None))
        /\ \A q \in Player \ Members(seat[p]) : \A x : AllSay(s, TaskNames(q), TaskNamesIt(q, x))
    BY <1>1, HostSaid
  <2> HIDE DEF s
  <2>4. tasks' \in Seq(Task)
    BY <2>2, <2>3, TwoWritten DEF DeepInv, DeepBase, NetOK
  <2>5. /\ roomHost' \in [Room -> Ids \cup {None}] /\ seat' \in [Player -> Room] /\ misled' \subseteq Player
        /\ received' \in [Player -> Seq(ServerFrame)]
        /\ vacated' \subseteq Room /\ yielded' \subseteq Room /\ early' \subseteq Room
    BY <1>2, <2>1 DEF DeepInv, DeepBase, DeepTypeOK, NetOK
  <2>6. \A k \in Room : roomHost'[k] \in {roomHost[k], Id(p), None}
    BY <1>2, <2>1 DEF DeepInv, DeepBase, DeepTypeOK
  <2>7. yielded \subseteq yielded'
    BY <2>1
  <2>8. DeepBase' /\ CommandsHeard' /\ Unmarked' \subseteq Unmarked
    BY <1>1, <1>2, <2>4, <2>5, <2>6, <2>7, ServedTypes
  <2>9. seat[p] \notin Unmarked'
    BY <2>1 DEF Unmarked
  <2>10. RolesFollow' /\ HostsPlay' /\ CommandsFollow'
    BY <1>1, <1>2, <2>1, <2>2, <2>3, <2>8, <2>9, AnnouncedFollows
  <2> QED BY <2>8, <2>10 DEF DeepInv
<1>4. CASE roomHost[seat[p]] # Id(p)
  <2> DEFINE s == <<RoleTask(p, "is_joiner")>>
  <2>1. UNCHANGED <<roomHost, misled, yielded>> /\ Announce(p, <<>>, "is_joiner")
    BY <1>4 DEF ServeJoinerClaim
  <2>2. tasks' = tasks \o s
    BY <2>1, RoleAnnounced DEF DeepInv
  <2>3. s \in Seq(Task) /\ \A q \in Player : \A x : AllSay(s, TaskNames(q), TaskNamesIt(q, x))
    BY RoleSaid
  <2> HIDE DEF s
  <2>4. tasks' \in Seq(Task)
    BY <2>2, <2>3, TwoWritten DEF DeepInv, DeepBase, NetOK
  <2>5. /\ roomHost' \in [Room -> Ids \cup {None}] /\ seat' \in [Player -> Room] /\ misled' \subseteq Player
        /\ received' \in [Player -> Seq(ServerFrame)]
        /\ vacated' \subseteq Room /\ yielded' \subseteq Room /\ early' \subseteq Room
    BY <1>2, <2>1 DEF DeepInv, DeepBase, DeepTypeOK, NetOK
  <2>6. \A k \in Room : roomHost'[k] \in {roomHost[k], Id(p), None}
    BY <2>1
  <2>7. DeepBase' /\ CommandsHeard' /\ Unmarked' \subseteq Unmarked
    BY <1>1, <1>2, <2>1, <2>4, <2>5, <2>6, ServedTypes
  <2>8. RolesFollow' /\ HostsPlay' /\ CommandsFollow'
    BY <1>1, <1>2, <2>1, <2>2, <2>3, <2>7, UnannouncedFollows
  <2> QED BY <2>7, <2>8 DEF DeepInv
<1> QED BY <1>3, <1>4

-----------------------------------------------------------------------------
\* A player goes to another room, or to its own again.
LEMMA HostFrames == ASSUME NEW h \in Ids \cup {None} PROVE DeepHost(h) \in ServerFrame /\ DeepHost(h) \in HostFrame
BY DEF DeepHost, ServerFrame, HostFrame

LEMMA JoinRoomKeeps ==
  ASSUME DeepInv, NEW p \in Player, ServeJoinRoom(p), wantsHost' = wantsHost
  PROVE  DeepInv'
<1> SUFFICES ASSUME NEW r, r = Head(sent[p]).room PROVE DeepInv'
  OBVIOUS
<1> DEFINE h == roomHost[r]
<1>1. /\ Present(p) /\ sent' \in [Player -> Seq(ClientFrame)] /\ r \in Room
      /\ UNCHANGED <<life, socket, deepClient, deeds>>
  <2>1. Head(sent[p]) \in ClientFrame /\ Head(sent[p]).type = "JOIN"
    BY Taken DEF ServeJoinRoom, DeepInv
  <2>2. r \in Room
    BY <2>1 DEF ClientFrame
  <2> QED BY <2>2, Taken DEF ServeJoinRoom, DeepInv
<1>2. /\ seat' = [seat EXCEPT ![p] = r] /\ received' = [received EXCEPT ![p] = Tell(p, roomHost[r])]
      /\ misled' = IF Confused(p, roomHost[r]) THEN misled \cup {p} ELSE misled \ {p}
      /\ vacated' = IF r # seat[p] /\ roomHost[seat[p]] = Id(p) THEN vacated \cup {seat[p]} ELSE vacated
      /\ UNCHANGED <<roomHost, tasks, yielded, early, ignored>>
  BY DEF ServeJoinRoom
<1>3. h \in Ids \cup {None} /\ received[p] \in Seq(ServerFrame) /\ seat[p] \in Room /\ tasks \in Seq(Task)
  BY <1>1, Deeps DEF DeepInv, DeepBase, DeepTypeOK
<1>4. Tell(p, h) \in Seq(ServerFrame)
  BY <1>3, HostFrames, Appended DEF Tell
<1>5. /\ roomHost' \in [Room -> Ids \cup {None}] /\ seat' \in [Player -> Room] /\ misled' \subseteq Player
      /\ received' \in [Player -> Seq(ServerFrame)] /\ tasks' \in Seq(Task)
      /\ vacated' \subseteq Room /\ yielded' \subseteq Room /\ early' \subseteq Room
  BY <1>1, <1>2, <1>3, <1>4 DEF DeepInv, DeepBase, DeepTypeOK, NetOK
<1>6. /\ \A q \in Player : q # p => received'[q] = received[q] /\ seat'[q] = seat[q]
      /\ received'[p] = Tell(p, h) /\ seat'[p] = r
  BY <1>2 DEF DeepInv, DeepBase, DeepTypeOK, NetOK
<1>7. DeepBase' /\ CommandsHeard' /\ Unmarked' \subseteq Unmarked
  <2>1. \A q \in Player : ~Present(q) => received'[q] = received[q]
    BY <1>1, <1>6
  <2>2. vacated \subseteq vacated' /\ \A k \in Room : roomHost'[k] \in {roomHost[k], Id(p), None}
    BY <1>2
  <2> QED BY <1>1, <1>2, <1>5, <2>1, <2>2, ServedTypes
<1>8. /\ Unchanging /\ UNCHANGED <<roomHost, socket, tasks>>
      /\ \A q \in Player : Id(q)' = Id(q) /\ Present(q)' = Present(q)
  BY <1>1, <1>2 DEF Unchanging, deepClient, Id, Present
<1>9. ASSUME NEW q \in Player, q # p
      PROVE  /\ \A x : Leads(q, x) => Leads(q, x)'
             /\ \A x, i : Heeds(q, i, x) => Heeds(q, i, x)'
  BY <1>6, <1>8, <1>9, LeadsSame, HeedsSame DEF Unchanging
\* The host of an unmarked room can only have come to it again.
<1>10. ASSUME NEW k \in Unmarked', NEW x \in Ids, roomHost[k] = x, Id(p) = x
       PROVE  /\ k = r /\ seat[p] = r /\ h = x /\ DeepHost(x) \in ServerFrame
              /\ received'[p] = Append(received[p], DeepHost(x))
              /\ Naming(DeepHost(x)) => Named(DeepHost(x), p) = x
              /\ Leads(p, x)
  <2>1. k \in Unmarked /\ k \notin vacated' /\ x # None
    BY <1>7, <1>10, DeepBounds DEF Unmarked
  <2>2. seat[p] = k /\ Leads(p, x)
    BY <1>1, <1>10, <2>1 DEF DeepInv, HostsPlay
  <2>3. r = seat[p]
    BY <1>2, <1>10, <2>1, <2>2
  <2>4. received'[p] = Append(received[p], DeepHost(x))
    BY <1>6, <1>10, <2>1, <2>2, <2>3 DEF Tell
  <2> QED BY <1>10, <2>2, <2>3, <2>4, HostFrames DEF Named, DeepHost
<1>11. RolesFollow'
  <2> SUFFICES ASSUME NEW q \in Player \ misled', NEW x \in Ids \cup {None},
                      Present(q)', roomHost'[seat'[q]] = x
               PROVE  Leads(q, x)'
    BY DEF RolesFollow, Ids
  <2>1. CASE q # p
    <3>1. q \notin misled
      BY <1>2, <2>1
    <3> QED BY <1>6, <1>8, <1>9, <2>1, <3>1 DEF DeepInv, RolesFollow
  <2>2. CASE q = p
    <3>1. ~Confused(p, h) /\ h = x
      BY <1>2, <1>6, <1>8, <2>2
    <3>2. ~Overtakes(p) /\ received'[p] = Append(received[p], DeepHost(x))
      BY <1>6, <3>1 DEF Confused, Tell
    <3>3. life'[p] \in Nat
      BY <1>7, DeepBounds DEF DeepBase, DeepTypeOK
    <3> QED BY <1>3, <1>8, <2>2, <3>1, <3>2, <3>3, HostFrames, LeadsTold
  <2> QED BY <2>1, <2>2
<1>12. HostsPlay'
  <2> SUFFICES ASSUME NEW k \in Unmarked', NEW q \in Player, NEW x \in Ids, roomHost'[k] = x, Id(q)' = x
               PROVE  seat'[q] = k /\ (Present(q)' => Leads(q, x)')
    BY DEF HostsPlay, Ids
  <2>1. CASE q # p
    BY <1>6, <1>7, <1>8, <1>9, <2>1 DEF DeepInv, HostsPlay
  <2>2. CASE q = p
    <3>1. /\ k = r /\ DeepHost(x) \in ServerFrame /\ received'[p] = Append(received[p], DeepHost(x))
          /\ Naming(DeepHost(x)) => Named(DeepHost(x), p) = x
          /\ Leads(p, x)
      BY <1>8, <1>10, <2>2
    <3>2. Leads(p, x)'
      BY <1>3, <1>8, <3>1, LeadsReplied DEF Unchanging
    <3> QED BY <1>6, <2>2, <3>1, <3>2
  <2> QED BY <2>1, <2>2
<1>13. CommandsFollow'
  <2> SUFFICES ASSUME NEW q \in Player, NEW x \in Ids, Id(q)' = x, NEW i \in DOMAIN received'[q],
                      received'[q][i].type = "COMMAND", received'[q][i].room \in Unmarked'
               PROVE  roomHost'[received'[q][i].room] = x /\ Heeds(q, i, x)'
    BY DEF CommandsFollow, Ids
  <2>1. CASE q # p
    BY <1>6, <1>7, <1>8, <1>9, <2>1 DEF DeepInv, CommandsFollow
  <2>2. CASE q = p
    <3>1. received'[p] = received[p] \/ received'[p] = Append(received[p], DeepHost(h))
      BY <1>6 DEF Tell
    <3>2. i \in DOMAIN received[p] /\ received'[p][i] = received[p][i]
      <4>1. CASE received'[p] = Append(received[p], DeepHost(h))
        <5>1. i \in DOMAIN received[p] \cup {Len(received[p]) + 1} /\ received'[p][Len(received[p]) + 1] = DeepHost(h)
              /\ \A j \in DOMAIN received[p] : received'[p][j] = received[p][j]
          BY <1>3, <2>2, <4>1, HostFrames, Appended
        <5>2. received'[p][i].type = "COMMAND"
          BY <2>2
        <5>3. DeepHost(h).type = "HOST"
          BY DEF DeepHost
        <5> QED BY <5>1, <5>2, <5>3
      <4> QED BY <2>2, <3>1, <4>1
    <3> DEFINE k == received[p][i].room
    <3>3. received[p][i].type = "COMMAND" /\ k \in Unmarked' /\ k \in Unmarked /\ received'[q][i].room = k
      BY <1>7, <2>2, <3>2
    <3>4. roomHost[k] = x /\ Heeds(p, i, x)
      BY <1>8, <2>2, <3>2, <3>3 DEF DeepInv, CommandsFollow
    <3> HIDE DEF k
    <3>5. /\ DeepHost(x) \in ServerFrame /\ received'[p] = Append(received[p], DeepHost(x))
          /\ Naming(DeepHost(x)) => Named(DeepHost(x), p) = x
      BY <1>8, <1>10, <2>2, <3>3, <3>4
    <3>6. Heeds(p, i, x)'
      BY <1>3, <1>8, <3>4, <3>5, HeedsReplied DEF Unchanging
    <3> QED BY <1>8, <2>2, <3>3, <3>4, <3>6
  <2> QED BY <2>1, <2>2
<1> QED BY <1>7, <1>11, <1>12, <1>13 DEF DeepInv

-----------------------------------------------------------------------------
\* A command is relayed.
LEMMA CommandServed ==
  ASSUME DeepInv, NEW p \in Player, ServeCommand(p), wantsHost' = wantsHost
  PROVE  DeepInv'
<1> SUFFICES ASSUME NEW r, r = seat[p], NEW to, to = Target(r) \ {p} PROVE DeepInv'
  OBVIOUS
<1> SUFFICES ASSUME NEW f, f = [type |-> "COMMAND", room |-> r] PROVE DeepInv'
  OBVIOUS
<1>1. /\ Present(p) /\ sent' \in [Player -> Seq(ClientFrame)] /\ r \in Room
      /\ UNCHANGED <<life, socket, deepClient, deeds>>
  BY Taken, Deeps DEF ServeCommand, DeepInv
<1>2. /\ received' = [q \in Player |-> IF q \in to THEN Append(received[q], f) ELSE received[q]]
      /\ early' = early \cup {s \in {r} : \E q \in to : Overtakes(q)}
      /\ UNCHANGED <<roomHost, seat, tasks, misled, vacated, yielded, ignored>>
  BY DEF ServeCommand
<1>3. f \in ServerFrame /\ ~Naming(f)
  BY <1>1 DEF ServerFrame, Naming
<1>4. \A q \in to : q \in Player /\ Present(q) /\ roomHost[r] = Id(q)
  BY DEF Target
<1>5. \A q \in Player : received[q] \in Seq(ServerFrame) /\ Append(received[q], f) \in Seq(ServerFrame)
  BY <1>3, Deeps, Appended DEF DeepInv
<1>6. DeepBase' /\ CommandsHeard' /\ Unmarked' \subseteq Unmarked
  <2>1. received' \in [Player -> Seq(ServerFrame)] /\ \A q \in Player : ~Present(q) => received'[q] = received[q]
    BY <1>2, <1>4, <1>5
  <2>2. /\ roomHost' \in [Room -> Ids \cup {None}] /\ seat' \in [Player -> Room] /\ misled' \subseteq Player
        /\ tasks' \in Seq(Task)
        /\ vacated' \subseteq Room /\ yielded' \subseteq Room /\ early' \subseteq Room /\ early \subseteq early'
    BY <1>1, <1>2 DEF DeepInv, DeepBase, DeepTypeOK, NetOK
  <2>3. \A k \in Room : roomHost'[k] \in {roomHost[k], Id(p), None}
    BY <1>2
  <2> QED BY <1>1, <1>2, <2>1, <2>2, <2>3, ServedTypes
<1>7. /\ Unchanging /\ UNCHANGED <<roomHost, seat, socket, tasks>>
      /\ \A q \in Player : Id(q)' = Id(q) /\ Present(q)' = Present(q)
  BY <1>1, <1>2 DEF Unchanging, deepClient, Id, Present
<1>8. \A q \in Player : received'[q] = IF q \in to THEN Append(received[q], f) ELSE received[q]
  BY <1>2
<1>9. \A q \in Player : \A x : Leads(q, x) => Leads(q, x)'
  <2> TAKE q \in Player
  <2>1. CASE q \in to
    BY <1>3, <1>5, <1>7, <1>8, <2>1, LeadsReplied DEF Unchanging
  <2>2. CASE q \notin to
    BY <1>7, <1>8, <2>2, LeadsSame DEF Unchanging
  <2> QED BY <2>1, <2>2
<1>10. \A q \in Player : \A x, i : Heeds(q, i, x) => Heeds(q, i, x)'
  <2> TAKE q \in Player
  <2>1. CASE q \in to
    BY <1>3, <1>5, <1>7, <1>8, <2>1, HeedsReplied DEF Unchanging
  <2>2. CASE q \notin to
    BY <1>7, <1>8, <2>2, HeedsSame DEF Unchanging
  <2> QED BY <2>1, <2>2
<1>11. RolesFollow' /\ HostsPlay'
  BY <1>2, <1>6, <1>7, <1>9 DEF DeepInv, RolesFollow, HostsPlay
<1>12. CommandsFollow'
  <2> SUFFICES ASSUME NEW q \in Player, NEW x \in Ids, Id(q)' = x, NEW i \in DOMAIN received'[q],
                      received'[q][i].type = "COMMAND", received'[q][i].room \in Unmarked'
               PROVE  roomHost'[received'[q][i].room] = x /\ Heeds(q, i, x)'
    BY DEF CommandsFollow, Ids
  <2>1. CASE i \in DOMAIN received[q]
    <3>1. received'[q][i] = received[q][i]
      <4>1. CASE q \in to
        <5>1. received'[q] = Append(received[q], f)
          BY <1>8, <4>1
        <5> QED BY <1>3, <1>5, <2>1, <5>1, Appended
      <4>2. CASE q \notin to
        BY <1>8, <4>2
      <4> QED BY <4>1, <4>2
    <3> DEFINE k == received[q][i].room
    <3>2. received[q][i].type = "COMMAND" /\ k \in Unmarked /\ received'[q][i].room = k
      BY <1>6, <3>1
    <3>3. roomHost[k] = x /\ Heeds(q, i, x)
      BY <1>7, <2>1, <3>2 DEF DeepInv, CommandsFollow
    <3> QED BY <1>7, <1>10, <3>2, <3>3
  <2>2. CASE i \notin DOMAIN received[q]
    <3>1. q \in to
      BY <1>8, <2>2
    <3>2. i = Len(received[q]) + 1 /\ received'[q][i] = f
      <4>1. received'[q] = Append(received[q], f)
        BY <1>8, <3>1
      <4>2. /\ i \in DOMAIN received[q] \cup {Len(received[q]) + 1}
            /\ received'[q][Len(received[q]) + 1] = f
        BY <1>3, <1>5, <4>1, Appended
      <4> QED BY <2>2, <4>2
    <3>3. r \in Unmarked' /\ r \in Unmarked
      BY <1>6, <3>2
    <3>4. ~Overtakes(q)
      BY <1>2, <3>1, <3>3 DEF Unmarked
    <3>5. Present(q) /\ roomHost[r] = x /\ Id(q) = x
      BY <1>4, <1>7, <3>1
    <3>6. Leads(q, x)
      BY <3>3, <3>5 DEF DeepInv, HostsPlay
    <3>7. tasks \in Seq(Task)
      BY DEF DeepInv, DeepBase, NetOK
    <3>8. received'[q] = Append(received[q], f)
      BY <1>8, <3>1
    <3>9. Heeds(q, i, x)'
      BY <1>3, <1>5, <1>7, <3>2, <3>4, <3>6, <3>7, <3>8, HeedsRelayed DEF Unchanging
    <3> QED BY <1>7, <3>2, <3>5, <3>9
  <2> QED BY <2>1, <2>2
<1> QED BY <1>6, <1>11, <1>12 DEF DeepInv

-----------------------------------------------------------------------------
\* A broadcast runs.
LEMMA RunTasksKeeps ==
  ASSUME DeepInv, RunTasks, wantsHost' = wantsHost
  PROVE  DeepInv'
<1> SUFFICES ASSUME NEW t, t = Head(tasks) PROVE DeepInv'
  OBVIOUS
<1>1. /\ tasks # <<>> /\ tasks' = Tail(tasks) /\ tasks \in Seq(Task)
      /\ received' = [q \in Player |->
           IF q \in t.to /\ Present(q) THEN Append(received[q], t.frame) ELSE received[q]]
      /\ UNCHANGED <<deepServer, sent, deepClient, deeds, deepHistory>>
  BY DEF RunTasks, DeepInv, DeepBase, NetOK
<1>2. t \in Task /\ Tail(tasks) \in Seq(Task)
  BY <1>1, QueueFacts
<1>3. t.frame \in HostFrame /\ t.frame \in ServerFrame
  BY <1>2 DEF Task, ServerFrame
<1>4. \A q \in Player : received[q] \in Seq(ServerFrame) /\ Append(received[q], t.frame) \in Seq(ServerFrame)
  BY <1>3, Deeps, Appended DEF DeepInv
<1>5. \A q \in Player : received'[q] = IF q \in t.to /\ Present(q) THEN Append(received[q], t.frame) ELSE received[q]
  BY <1>1
<1>6. /\ Unchanging /\ UNCHANGED <<roomHost, seat, socket>>
      /\ \A q \in Player : Id(q)' = Id(q) /\ Present(q)' = Present(q)
  BY <1>1 DEF Unchanging, deepClient, deepServer, Id, Present
<1>7. DeepTypeOK' /\ Ages' /\ CommandsHeard' /\ Unmarked' = Unmarked
  <2>1. DeepTypeOK'
    BY <1>1 DEF DeepInv, DeepBase, DeepTypeOK, deepServer, deepClient, deepHistory, Ids
  <2>2. Ages'
    BY <1>1 DEF DeepInv, DeepBase, Ages, deepServer
  <2>3. CommandsHeard' /\ Unmarked' = Unmarked
    BY <1>1 DEF DeepInv, CommandsHeard, Unmarked, deepHistory
  <2> QED BY <2>1, <2>2, <2>3
<1>8. NetOK'
  <2>1. received' \in [Player -> Seq(ServerFrame)]
    BY <1>1, <1>4
  <2>2. \A q \in Player : ~Present(q)' => received'[q] = <<>>
    BY <1>5, <1>6 DEF DeepInv, DeepBase, NetOK
  <2>3. Task' = Task /\ ServerFrame' = ServerFrame /\ ClientFrame' = ClientFrame
    BY DEF Task, ServerFrame, HostFrame, ClientFrame, Ids
  <2> QED BY <1>1, <1>2, <2>1, <2>2, <2>3 DEF DeepInv, DeepBase, NetOK
<1>9. ASSUME NEW q \in Player, Present(q)
      PROVE  /\ \A x : Leads(q, x) => Leads(q, x)'
             /\ \A x, i : Heeds(q, i, x) => Heeds(q, i, x)'
  <2>1. received'[q] = IF q \in Head(tasks).to THEN Append(received[q], Head(tasks).frame) ELSE received[q]
    BY <1>5, <1>9
  <2> QED BY <1>1, <1>4, <1>6, <2>1, LeadsDelivered, HeedsDelivered DEF Unchanging
<1>10. RolesFollow' /\ HostsPlay'
  BY <1>1, <1>6, <1>7, <1>9 DEF DeepInv, RolesFollow, HostsPlay, deepHistory
<1>11. CommandsFollow'
  <2> SUFFICES ASSUME NEW q \in Player, NEW x \in Ids, Id(q)' = x, NEW i \in DOMAIN received'[q],
                      received'[q][i].type = "COMMAND", received'[q][i].room \in Unmarked'
               PROVE  roomHost'[received'[q][i].room] = x /\ Heeds(q, i, x)'
    BY DEF CommandsFollow, Ids
  <2>1. Present(q)
    <3>1. CASE ~Present(q)
      <4>1. received'[q] = <<>>
        BY <1>5, <3>1 DEF DeepInv, DeepBase, NetOK
      <4> QED BY <4>1
    <3> QED BY <3>1
  <2>2. t.frame.type # "COMMAND"
    BY <1>3 DEF HostFrame
  <2>3. i \in DOMAIN received[q] /\ received'[q][i] = received[q][i]
    <3>1. CASE q \in t.to
      <4>1. received'[q] = Append(received[q], t.frame)
        BY <1>5, <2>1, <3>1
      <4>2. /\ i \in DOMAIN received[q] \cup {Len(received[q]) + 1}
            /\ received'[q][Len(received[q]) + 1] = t.frame
            /\ \A j \in DOMAIN received[q] : received'[q][j] = received[q][j]
        BY <1>3, <1>4, <4>1, Appended
      <4> QED BY <2>2, <4>2
    <3>2. CASE q \notin t.to
      BY <1>5, <3>2
    <3> QED BY <3>1, <3>2
  <2> DEFINE k == received[q][i].room
  <2>4. received[q][i].type = "COMMAND" /\ k \in Unmarked /\ received'[q][i].room = k
    BY <1>7, <2>3
  <2>5. roomHost[k] = x /\ Heeds(q, i, x)
    BY <1>6, <2>3, <2>4 DEF DeepInv, CommandsFollow
  <2> QED BY <1>6, <1>9, <2>1, <2>4, <2>5
<1> QED BY <1>7, <1>8, <1>10, <1>11 DEF DeepInv, DeepBase

-----------------------------------------------------------------------------
\* The client reads.
LEMMA ReadFollows ==
  ASSUME DeepInv, NEW p \in Player, NEW types, Handle(p, types), Takes(p, Head(received[p])),
         \A q \in Player : q # p =>
           enabled'[q] = enabled[q] /\ isHost'[q] = isHost[q] /\ hostId'[q] = hostId[q]
  PROVE  NetOK' /\ Ages' /\ RolesFollow' /\ HostsPlay' /\ CommandsFollow' /\ Unmarked' = Unmarked
<1>1. /\ tasks = <<>> /\ tasks' = <<>> /\ Present(p) /\ received[p] # <<>>
      /\ received' = [received EXCEPT ![p] = Tail(@)]
      /\ UNCHANGED <<roomHost, seat, life, socket, sent, deeds, misled, vacated, yielded, early>>
  BY DEF Handle, BetweenTurns, deepServer
<1>2. received[p] \in Seq(ServerFrame) /\ Tail(received[p]) \in Seq(ServerFrame)
  BY <1>1, Deeps, Tailed DEF DeepInv
<1>3. /\ received'[p] = Tail(received[p])
      /\ \A q \in Player : q # p => received'[q] = received[q]
      /\ received' \in [Player -> Seq(ServerFrame)]
  BY <1>1, <1>2 DEF DeepInv, DeepBase, NetOK
<1>4. \A q \in Player : Id(q)' = Id(q) /\ Present(q)' = Present(q) /\ life'[q] = life[q]
  BY <1>1 DEF Id, Present
<1>5. NetOK'
  <2>1. Task' = Task /\ ServerFrame' = ServerFrame /\ ClientFrame' = ClientFrame
    BY DEF Task, ServerFrame, HostFrame, ClientFrame, Ids
  <2>2. \A q \in Player : ~Present(q)' => received'[q] = <<>>
    BY <1>1, <1>3, <1>4 DEF DeepInv, DeepBase, NetOK
  <2>3. sent' \in [Player -> Seq(ClientFrame)] /\ tasks' \in Seq(Task)
    BY <1>1 DEF DeepInv, DeepBase, NetOK
  <2> QED BY <1>3, <2>1, <2>2, <2>3 DEF NetOK
<1>6. Ages' /\ Unmarked' = Unmarked
  BY <1>1 DEF DeepInv, DeepBase, Ages, Unmarked
<1>7. \A q \in Player : \A x : Leads(q, x) => Leads(q, x)'
  <2> TAKE q \in Player
  <2>1. CASE q = p
    BY <1>1, <1>2, <1>3, <1>4, <2>1, LeadsRead
  <2>2. CASE q # p
    BY <1>1, <1>3, <1>4, <2>2, LeadsSame
  <2> QED BY <2>1, <2>2
<1>8. RolesFollow' /\ HostsPlay'
  BY <1>1, <1>4, <1>6, <1>7 DEF DeepInv, RolesFollow, HostsPlay
<1>9. CommandsFollow'
  <2> SUFFICES ASSUME NEW q \in Player, NEW x \in Ids, Id(q)' = x, NEW i \in DOMAIN received'[q],
                      received'[q][i].type = "COMMAND", received'[q][i].room \in Unmarked'
               PROVE  roomHost'[received'[q][i].room] = x /\ Heeds(q, i, x)'
    BY DEF CommandsFollow, Ids
  <2>1. CASE q = p
    <3>1. i + 1 \in DOMAIN received[p] /\ received'[p][i] = received[p][i + 1] /\ i \in Nat /\ i > 0
      BY <1>1, <1>2, <1>3, <2>1, Tailed
    <3> DEFINE n == i + 1
               k == received[p][n].room
    <3>2. n \in DOMAIN received[p] /\ received[p][n].type = "COMMAND" /\ k \in Unmarked /\ received'[q][i].room = k
      BY <1>6, <2>1, <3>1
    <3>3. roomHost[k] = x /\ Heeds(p, n, x)
      BY <1>4, <2>1, <3>2 DEF DeepInv, CommandsFollow
    <3>4. Heeds(p, i, x)'
      BY <1>1, <1>2, <1>3, <1>4, <3>1, <3>3, HeedsRead
    <3> QED BY <1>1, <2>1, <3>2, <3>3, <3>4
  <2>2. CASE q # p
    <3> DEFINE k == received[q][i].room
    <3>1. /\ i \in DOMAIN received[q] /\ received[q][i].type = "COMMAND" /\ k \in Unmarked
          /\ received'[q][i].room = k
      BY <1>3, <1>6, <2>2
    <3>2. roomHost[k] = x /\ Heeds(q, i, x)
      BY <1>4, <3>1 DEF DeepInv, CommandsFollow
    <3>3. Heeds(q, i, x)'
      BY <1>1, <1>3, <1>4, <2>2, <3>2, HeedsSame
    <3> QED BY <1>1, <3>1, <3>2, <3>3
  <2> QED BY <2>1, <2>2
<1> QED BY <1>5, <1>6, <1>8, <1>9

\* A role is played by a client that knows of a host.
LEMMA PlayTypes ==
  ASSUME DeepBase, NEW p \in Player, NEW h \in Ids \cup {None}, NEW am \in BOOLEAN, am => h # None,
         Play(p, h, am), UNCHANGED <<deepServer, wantsHost, deeds, misled, vacated, yielded, early, ignored>>
  PROVE  /\ DeepTypeOK'
         /\ \A q \in Player : q # p =>
              enabled'[q] = enabled[q] /\ isHost'[q] = isHost[q] /\ hostId'[q] = hostId[q]
<1>1. /\ enabled \in [Player -> BOOLEAN] /\ isHost \in [Player -> BOOLEAN]
      /\ hostId \in [Player -> Ids \cup {None}]
  BY DEF DeepBase, DeepTypeOK
<1>2. /\ hostId' = [hostId EXCEPT ![p] = h] /\ enabled' = [enabled EXCEPT ![p] = TRUE]
      /\ isHost' = [isHost EXCEPT ![p] = am]
  BY DEF Play
<1>3. /\ hostId' \in [Player -> Ids \cup {None}] /\ hostId'[p] = h
      /\ \A q \in Player : q # p => hostId'[q] = hostId[q]
  BY <1>1, <1>2
<1>4. /\ enabled' \in [Player -> BOOLEAN] /\ enabled'[p] = TRUE
      /\ \A q \in Player : q # p => enabled'[q] = enabled[q]
  BY <1>1, <1>2
<1>5. /\ isHost' \in [Player -> BOOLEAN] /\ isHost'[p] = am
      /\ \A q \in Player : q # p => isHost'[q] = isHost[q]
  BY <1>1, <1>2
<1>6. \A q \in Player : /\ isHost'[q] => enabled'[q]
                        /\ hostId'[q] # None => enabled'[q]
                        /\ isHost'[q] => hostId'[q] # None
  BY <1>3, <1>4, <1>5 DEF DeepBase, DeepTypeOK
<1>7. DeepTypeOK'
  BY <1>3, <1>4, <1>5, <1>6 DEF DeepBase, DeepTypeOK, deepServer, Ids
<1> QED BY <1>3, <1>4, <1>5, <1>7

LEMMA HandleHostKeeps ==
  ASSUME DeepInv, NEW p \in Player, HandleHost(p), wantsHost' = wantsHost
  PROVE  DeepInv'
<1> SUFFICES ASSUME NEW f, f = Head(received[p]) PROVE DeepInv'
  OBVIOUS
<1>1. /\ received[p] # <<>> /\ f.type = "HOST" /\ Play(p, f.host, f.host = Id(p)) /\ ignored' = ignored
      /\ UNCHANGED <<deepServer, deeds, misled, vacated, yielded, early>>
  BY DEF HandleHost, Handle, ApplyDeepHost
<1>2. f \in ServerFrame
  BY <1>1, Deeps, QueueFacts DEF DeepInv
<1>3. f.host \in Ids \cup {None}
  BY <1>1, <1>2 DEF ServerFrame, HostFrame
<1>4. (f.host = Id(p)) \in BOOLEAN /\ (f.host = Id(p) => f.host # None)
  BY Deeps DEF DeepInv
<1>5. /\ DeepTypeOK'
      /\ \A q \in Player : q # p =>
           enabled'[q] = enabled[q] /\ isHost'[q] = isHost[q] /\ hostId'[q] = hostId[q]
  BY <1>1, <1>3, <1>4, PlayTypes DEF DeepInv
<1>6. Handle(p, {"HOST"}) /\ Takes(p, Head(received[p]))
  BY HostTaken DEF HandleHost, DeepInv
<1>7. NetOK' /\ Ages' /\ RolesFollow' /\ HostsPlay' /\ CommandsFollow'
  BY <1>5, <1>6, ReadFollows
<1>8. CommandsHeard'
  BY <1>1 DEF DeepInv, CommandsHeard
<1> QED BY <1>5, <1>7, <1>8 DEF DeepInv, DeepBase

LEMMA HandleRoleKeeps ==
  ASSUME DeepInv, NEW p \in Player, HandleRole(p), wantsHost' = wantsHost
  PROVE  DeepInv'
<1>1. ignored' = ignored /\ UNCHANGED <<deepServer, deeds, misled, vacated, yielded, early>>
  BY DEF HandleRole, Handle
<1>2. PICK h \in Ids \cup {None}, am \in BOOLEAN : (am => h # None) /\ Play(p, h, am)
  <2>1. CASE Head(received[p]).type = "is_host"
    <3>1. Play(p, Id(p), Id(p) = Id(p)) /\ Id(p) \in Ids \cup {None} /\ Id(p) # None
      BY <2>1, Deeps DEF HandleRole, ApplyDeepHost, DeepInv
    <3> QED BY <3>1
  <2>2. CASE Head(received[p]).type # "is_host"
    <3> DEFINE am == enabled[p] /\ hostId[p] = Id(p)
    <3>1. Play(p, hostId[p], am) /\ hostId[p] \in Ids \cup {None} /\ Id(p) # None
      BY <2>2, Deeps DEF HandleRole, DeepInv
    <3>2. am \in BOOLEAN /\ (am => hostId[p] # None)
      BY <3>1 DEF DeepInv, DeepBase, DeepTypeOK
    <3> QED BY <3>1, <3>2
  <2> QED BY <2>1, <2>2
<1>3. /\ DeepTypeOK'
      /\ \A q \in Player : q # p =>
           enabled'[q] = enabled[q] /\ isHost'[q] = isHost[q] /\ hostId'[q] = hostId[q]
  BY <1>1, <1>2, PlayTypes DEF DeepInv
<1>4. Handle(p, {"is_host", "is_joiner"}) /\ Takes(p, Head(received[p]))
  BY RoleTaken DEF HandleRole, DeepInv
<1>5. NetOK' /\ Ages' /\ RolesFollow' /\ HostsPlay' /\ CommandsFollow'
  BY <1>3, <1>4, ReadFollows
<1>6. CommandsHeard'
  BY <1>1 DEF DeepInv, CommandsHeard
<1> QED BY <1>3, <1>5, <1>6 DEF DeepInv, DeepBase

\* A command for an unmarked room is heeded: its first frame is read by a
\* client that plays the host already.
LEMMA HandleCommandKeeps ==
  ASSUME DeepInv, NEW p \in Player, HandleCommand(p), wantsHost' = wantsHost
  PROVE  DeepInv'
<1> SUFFICES ASSUME NEW f, f = Head(received[p]) PROVE DeepInv'
  OBVIOUS
<1>1. /\ received[p] # <<>> /\ f.type = "COMMAND"
      /\ ignored' = IF enabled[p] /\ isHost[p] THEN ignored ELSE ignored \cup {f.room}
      /\ UNCHANGED <<deepServer, deepClient, deeds, misled, vacated, yielded, early>>
  BY DEF HandleCommand, Handle
<1>2. f \in ServerFrame /\ 1 \in DOMAIN received[p] /\ received[p][1] = f
      /\ \A j \in DOMAIN received[p] : ~(j < 1)
  BY <1>1, Deeps, QueueFacts DEF DeepInv
<1>3. f.room \in Room
  BY <1>1, <1>2 DEF ServerFrame, HostFrame
<1>4. f.room \in Unmarked => enabled[p] /\ isHost[p]
  <2> SUFFICES ASSUME f.room \in Unmarked PROVE enabled[p] /\ isHost[p]
    OBVIOUS
  <2>1. Heeds(p, 1, Id(p))
    BY <1>1, <1>2, Deeps DEF DeepInv, CommandsFollow
  <2>2. Plays(p, Id(p))
    BY <1>2, <2>1 DEF Heeds, Before
  <2> QED BY <2>2 DEF Plays
<1>5. CommandsHeard'
  BY <1>1, <1>3, <1>4 DEF DeepInv, CommandsHeard, Unmarked
<1>6. DeepTypeOK'
  BY <1>1, <1>3 DEF DeepInv, DeepBase, DeepTypeOK, deepServer, deepClient, Ids
<1>7. Handle(p, {"COMMAND"}) /\ Takes(p, Head(received[p]))
  BY CommandTaken DEF HandleCommand, DeepInv
<1>8. NetOK' /\ Ages' /\ RolesFollow' /\ HostsPlay' /\ CommandsFollow'
  BY <1>1, <1>7, ReadFollows DEF deepClient
<1> QED BY <1>5, <1>6, <1>8 DEF DeepInv, DeepBase

-----------------------------------------------------------------------------
\* A player is gone: its connection broke, or it is evicted.
LEMMA GoneFollows ==
  ASSUME DeepInv, NEW p \in Player, ~Present(p)', received'[p] = <<>>,
         UNCHANGED <<roomHost, seat, life, tasks, misled>>, Unmarked' \subseteq Unmarked,
         \A q \in Player : q # p =>
           /\ socket'[q] = socket[q] /\ received'[q] = received[q]
           /\ enabled'[q] = enabled[q] /\ isHost'[q] = isHost[q] /\ hostId'[q] = hostId[q]
  PROVE  RolesFollow' /\ HostsPlay' /\ CommandsFollow'
<1>1. \A q \in Player : Id(q)' = Id(q) /\ life'[q] = life[q] /\ (q # p => Present(q)' = Present(q))
  BY DEF Id, Present
<1>2. ASSUME NEW q \in Player, q # p
      PROVE  /\ \A x : Leads(q, x) => Leads(q, x)'
             /\ \A x, i : Heeds(q, i, x) => Heeds(q, i, x)'
  BY <1>1, <1>2, LeadsSame, HeedsSame
<1>3. RolesFollow'
  BY <1>1, <1>2 DEF DeepInv, RolesFollow
<1>4. HostsPlay'
  BY <1>1, <1>2 DEF DeepInv, HostsPlay
<1>5. CommandsFollow'
  <2> SUFFICES ASSUME NEW q \in Player, NEW x \in Ids, Id(q)' = x, NEW i \in DOMAIN received'[q],
                      received'[q][i].type = "COMMAND", received'[q][i].room \in Unmarked'
               PROVE  roomHost'[received'[q][i].room] = x /\ Heeds(q, i, x)'
    BY DEF CommandsFollow, Ids
  <2>1. q # p
    OBVIOUS
  <2> QED BY <1>1, <1>2, <2>1 DEF DeepInv, CommandsFollow
<1> QED BY <1>3, <1>4, <1>5

LEMMA LoseKeeps ==
  ASSUME DeepInv, NEW p \in Player, NEW quits \in BOOLEAN, Lose(p, quits), wantsHost' = wantsHost
  PROVE  DeepInv'
<1>1. /\ deeds' \in 0..MaxDeeds /\ deeds' = deeds + 1 /\ deeds \in Nat
      /\ UNCHANGED <<roomHost, seat, life, tasks, misled, vacated, yielded, early, ignored>>
  BY DeedCounts DEF Lose, DeepInv, deepHistory
<1>2. /\ socket' \in [Player -> {"up", "down", "evicted"}] /\ socket'[p] = "down"
      /\ \A q \in Player : q # p => socket'[q] = socket[q]
  BY DEF Lose, DeepInv, DeepBase, DeepTypeOK
<1>3. /\ sent' \in [Player -> Seq(ClientFrame)] /\ received' \in [Player -> Seq(ServerFrame)]
      /\ received'[p] = <<>> /\ \A q \in Player : q # p => received'[q] = received[q]
  BY DEF Lose, DeepInv, DeepBase, NetOK
<1>4. /\ enabled' \in [Player -> BOOLEAN] /\ isHost' \in [Player -> BOOLEAN]
      /\ hostId' \in [Player -> Ids \cup {None}]
      /\ \A q \in Player : /\ isHost'[q] => enabled'[q]
                           /\ hostId'[q] # None => enabled'[q]
                           /\ isHost'[q] => hostId'[q] # None
      /\ \A q \in Player : q # p =>
           enabled'[q] = enabled[q] /\ isHost'[q] = isHost[q] /\ hostId'[q] = hostId[q]
  <2>1. CASE quits
    <3>1. /\ enabled' = [enabled EXCEPT ![p] = FALSE] /\ isHost' = [isHost EXCEPT ![p] = FALSE]
          /\ hostId' = [hostId EXCEPT ![p] = None]
      BY <2>1 DEF Lose, Deactivate
    <3> QED BY <3>1 DEF DeepInv, DeepBase, DeepTypeOK
  <2>2. CASE ~quits
    <3>1. UNCHANGED <<enabled, isHost, hostId>>
      BY <2>2 DEF Lose, deepClient
    <3> QED BY <3>1 DEF DeepInv, DeepBase, DeepTypeOK
  <2> QED BY <2>1, <2>2
<1>5. DeepTypeOK'
  BY <1>1, <1>2, <1>4 DEF DeepInv, DeepBase, DeepTypeOK, Ids
<1>6. NetOK'
  <2>1. Task' = Task /\ ServerFrame' = ServerFrame /\ ClientFrame' = ClientFrame
    BY DEF Task, ServerFrame, HostFrame, ClientFrame, Ids
  <2>2. \A q \in Player : ~Present(q)' => received'[q] = <<>>
    BY <1>2, <1>3 DEF DeepInv, DeepBase, NetOK, Present
  <2> QED BY <1>1, <1>3, <2>1, <2>2 DEF DeepInv, DeepBase, NetOK
<1>7. Ages'
  BY <1>1, <1>2 DEF DeepInv, DeepBase, DeepTypeOK, Ages
<1>8. CommandsHeard' /\ Unmarked' = Unmarked
  BY <1>1 DEF DeepInv, CommandsHeard, Unmarked
<1>9. ~Present(p)'
  BY <1>2 DEF Present
<1>10. RolesFollow' /\ HostsPlay' /\ CommandsFollow'
  BY <1>1, <1>2, <1>3, <1>4, <1>8, <1>9, GoneFollows
<1> QED BY <1>5, <1>6, <1>7, <1>8, <1>10 DEF DeepInv, DeepBase

LEMMA ReapKeeps ==
  ASSUME DeepInv, NEW p \in Player, Reap(p), wantsHost' = wantsHost
  PROVE  DeepInv'
<1>1. /\ deeds' \in 0..MaxDeeds /\ deeds' = deeds + 1 /\ deeds \in Nat /\ socket[p] = "down"
      /\ socket' = [socket EXCEPT ![p] = "evicted"]
      /\ vacated' = vacated \cup {r \in Room : roomHost[r] = Id(p)}
      /\ UNCHANGED <<roomHost, seat, life, sent, tasks, received, enabled, isHost, hostId,
                     misled, yielded, early, ignored>>
  BY DeedCounts DEF Reap, DeepInv, deepNet, deepClient
<1>2. /\ socket' \in [Player -> {"up", "down", "evicted"}] /\ socket'[p] = "evicted"
      /\ \A q \in Player : q # p => socket'[q] = socket[q]
  BY <1>1 DEF DeepInv, DeepBase, DeepTypeOK
<1>3. /\ received[p] = <<>> /\ ~Present(p)'
      /\ \A q \in Player : ~Present(q)' => received'[q] = <<>>
  BY <1>1, <1>2 DEF DeepInv, DeepBase, NetOK, Present
<1>4. DeepTypeOK'
  <2>1. \A R \in {vacated', yielded', early', ignored'} : R \subseteq Room
    BY <1>1 DEF DeepInv, DeepBase, DeepTypeOK
  <2> QED BY <1>1, <1>2, <2>1 DEF DeepInv, DeepBase, DeepTypeOK, Ids
<1>5. NetOK'
  <2>1. Task' = Task /\ ServerFrame' = ServerFrame /\ ClientFrame' = ClientFrame
    BY DEF Task, ServerFrame, HostFrame, ClientFrame, Ids
  <2> QED BY <1>1, <1>3, <2>1 DEF DeepInv, DeepBase, NetOK
<1>6. Ages'
  <2>1. \A q \in Player : life[q] \in Nat /\ life[q] <= deeds
    BY DeepBounds DEF DeepInv, DeepBase, DeepTypeOK, Ages
  <2>2. \A q \in Player : life'[q] <= deeds' /\ (socket'[q] = "evicted" => life'[q] + 1 <= deeds')
    BY <1>1, <2>1
  <2>3. \A r \in Room, q \in Player, n \in 0..MaxDeeds : roomHost'[r] = <<q, n>> => n <= life'[q]
    BY <1>1 DEF DeepInv, DeepBase, Ages
  <2> QED BY <2>2, <2>3 DEF Ages
<1>7. CommandsHeard' /\ Unmarked' \subseteq Unmarked
  BY <1>1 DEF DeepInv, CommandsHeard, Unmarked
<1>8. RolesFollow' /\ HostsPlay' /\ CommandsFollow'
  BY <1>1, <1>2, <1>3, <1>7, GoneFollows
<1> QED BY <1>4, <1>5, <1>6, <1>7, <1>8 DEF DeepInv, DeepBase

-----------------------------------------------------------------------------
\* A player comes in, as record n of its identity, into room r.
LEMMA Entered ==
  ASSUME DeepInv, NEW p \in Player, Enter(p)
  PROVE  \E n \in 0..MaxDeeds, r \in Room, h \in Ids \cup {None} :
           /\ life' = [life EXCEPT ![p] = n] /\ seat' = [seat EXCEPT ![p] = r]
           /\ roomHost' = [roomHost EXCEPT ![r] = h] /\ received' = [received EXCEPT ![p] = Tell(p, h)]
           /\ misled' = ((IF roomHost[r] = h THEN misled ELSE misled \cup Members(r)) \ {p})
                          \cup {q \in {p} : Confused(p, h)}
           /\ early' = early \cup {s \in {r} : Overtakes(p)}
           /\ h = roomHost[r] \/ (roomHost[r] = None /\ h = <<p, n>>)
           /\ life[p] <= n /\ n <= deeds
           /\ \/ n = life[p] /\ r = seat[p]
              \/ \A k \in Room : roomHost[k] # <<p, n>>
<1> DEFINE n == IF socket[p] = "evicted" THEN life[p] + 1 ELSE life[p]
           r == IF socket[p] = "evicted" THEN Lobby ELSE seat[p]
           h == IF p \in wantsHost THEN Claimed(r, <<p, n>>) ELSE roomHost[r]
<1>1. /\ life' = [life EXCEPT ![p] = n] /\ seat' = [seat EXCEPT ![p] = r]
      /\ roomHost' = [roomHost EXCEPT ![r] = h] /\ received' = [received EXCEPT ![p] = Tell(p, h)]
      /\ misled' = ((IF roomHost[r] = h THEN misled ELSE misled \cup Members(r)) \ {p})
                     \cup {q \in {p} : Confused(p, h)}
      /\ early' = early \cup {s \in {r} : Overtakes(p)}
  BY DEF Enter
<1>2. /\ life[p] \in 0..MaxDeeds /\ deeds \in 0..MaxDeeds /\ life[p] <= deeds
      /\ socket[p] = "evicted" => life[p] + 1 <= deeds
      /\ \A k \in Room, m \in 0..MaxDeeds : roomHost[k] = <<p, m>> => m <= life[p]
  BY DEF DeepInv, DeepBase, DeepTypeOK, Ages
<1>3. n \in 0..MaxDeeds /\ life[p] <= n /\ n <= deeds
  BY <1>2, DeepBounds
<1>4. r \in Room /\ roomHost[r] \in Ids \cup {None}
  BY DeepBounds, Deeps DEF DeepInv, DeepBase, DeepTypeOK
<1>5. \/ n = life[p] /\ r = seat[p]
      \/ \A k \in Room : roomHost[k] # <<p, n>>
  <2>1. CASE socket[p] = "evicted"
    <3>1. n = life[p] + 1 /\ ~(n <= life[p])
      BY <1>2, <2>1, DeepBounds
    <3> QED BY <1>2, <1>3, <3>1
  <2>2. CASE socket[p] # "evicted"
    BY <2>2
  <2> QED BY <2>1, <2>2
<1>6. <<p, n>> \in Ids
  BY <1>3 DEF Ids
<1> HIDE DEF n, r
<1>7. /\ h \in Ids \cup {None}
      /\ h = roomHost[r] \/ (roomHost[r] = None /\ h = <<p, n>>)
  BY <1>4, <1>6 DEF Claimed
<1> HIDE DEF h
<1> QED BY <1>1, <1>3, <1>4, <1>5, <1>7

LEMMA EnterKeeps ==
  ASSUME DeepInv, NEW p \in Player, Enter(p), wantsHost' = wantsHost
  PROVE  DeepInv'
<1>1. PICK n \in 0..MaxDeeds, r \in Room, h \in Ids \cup {None} :
        /\ life' = [life EXCEPT ![p] = n] /\ seat' = [seat EXCEPT ![p] = r]
        /\ roomHost' = [roomHost EXCEPT ![r] = h] /\ received' = [received EXCEPT ![p] = Tell(p, h)]
        /\ misled' = ((IF roomHost[r] = h THEN misled ELSE misled \cup Members(r)) \ {p})
                       \cup {q \in {p} : Confused(p, h)}
        /\ early' = early \cup {s \in {r} : Overtakes(p)}
        /\ h = roomHost[r] \/ (roomHost[r] = None /\ h = <<p, n>>)
        /\ life[p] <= n /\ n <= deeds
        /\ \/ n = life[p] /\ r = seat[p]
           \/ \A k \in Room : roomHost[k] # <<p, n>>
  BY Entered
<1>2. /\ ~Present(p) /\ socket' = [socket EXCEPT ![p] = "up"]
      /\ UNCHANGED <<sent, tasks, enabled, isHost, hostId, deeds, vacated, yielded, ignored>>
  BY DEF Enter, deepClient
<1>3. received[p] = <<>> /\ received[p] \in Seq(ServerFrame) /\ tasks \in Seq(Task)
  BY <1>2, Deeps DEF DeepInv, DeepBase, NetOK
<1>4. DeepHost(h) \in ServerFrame /\ Tell(p, h) \in Seq(ServerFrame)
  BY <1>3, HostFrames, Appended DEF Tell
<1>5. /\ life'[p] = n /\ seat'[p] = r /\ received'[p] = Tell(p, h) /\ Present(p)' /\ Id(p)' = <<p, n>>
      /\ \A k \in Room : roomHost'[k] = IF k = r THEN h ELSE roomHost[k]
  BY <1>1, <1>2 DEF DeepInv, DeepBase, DeepTypeOK, NetOK, Present, Id
<1>6. \A q \in Player : q # p =>
        /\ life'[q] = life[q] /\ seat'[q] = seat[q] /\ received'[q] = received[q] /\ socket'[q] = socket[q]
        /\ Id(q)' = Id(q) /\ Present(q)' = Present(q)
  BY <1>1, <1>2 DEF DeepInv, DeepBase, DeepTypeOK, NetOK, Present, Id
<1>7. DeepTypeOK'
  <2>1. /\ life' \in [Player -> 0..MaxDeeds] /\ seat' \in [Player -> Room]
        /\ roomHost' \in [Room -> Ids \cup {None}] /\ socket' \in [Player -> {"up", "down", "evicted"}]
    BY <1>1, <1>2 DEF DeepInv, DeepBase, DeepTypeOK
  <2>2. misled' \subseteq Player /\ \A R \in {vacated', yielded', early', ignored'} : R \subseteq Room
    BY <1>1, <1>2 DEF DeepInv, DeepBase, DeepTypeOK, Members
  <2> QED BY <1>2, <2>1, <2>2 DEF DeepInv, DeepBase, DeepTypeOK, Ids
<1>8. NetOK'
  <2>1. Task' = Task /\ ServerFrame' = ServerFrame /\ ClientFrame' = ClientFrame
    BY DEF Task, ServerFrame, HostFrame, ClientFrame, Ids
  <2>2. \A q \in Player : ~Present(q)' => received'[q] = <<>>
    BY <1>5, <1>6 DEF DeepInv, DeepBase, NetOK
  <2>3. received' \in [Player -> Seq(ServerFrame)]
    BY <1>1, <1>4 DEF DeepInv, DeepBase, NetOK
  <2> QED BY <1>2, <2>1, <2>2, <2>3 DEF DeepInv, DeepBase, NetOK
<1>9. Ages'
  <2>1. \A q \in Player : life'[q] <= deeds' /\ (socket'[q] = "evicted" => life'[q] + 1 <= deeds')
    <3> TAKE q \in Player
    <3>1. CASE q = p
      BY <1>1, <1>2, <1>5, <3>1 DEF Present
    <3>2. CASE q # p
      BY <1>2, <1>6, <3>2 DEF DeepInv, DeepBase, Ages
    <3> QED BY <3>1, <3>2
  <2>2. ASSUME NEW k \in Room, NEW q \in Player, NEW m \in 0..MaxDeeds, roomHost'[k] = <<q, m>>
        PROVE  m <= life'[q]
    <3>1. roomHost[k] = <<q, m>> \/ (q = p /\ m = n)
      <4>1. <<q, m>> # None
        <5>1. <<q, m>> \in Ids
          BY DEF Ids
        <5> QED BY <5>1, DeepBounds
      <4> QED BY <1>1, <1>5, <2>2, <4>1
    <3>2. /\ roomHost[k] = <<q, m>> => m <= life[q]
          /\ life[q] \in 0..MaxDeeds
      BY DEF DeepInv, DeepBase, DeepTypeOK, Ages
    <3>3. CASE q = p
      BY <1>1, <1>5, <3>1, <3>2, <3>3, DeepBounds
    <3>4. CASE q # p
      BY <1>6, <3>1, <3>2, <3>4
    <3> QED BY <3>3, <3>4
  <2> QED BY <2>1, <2>2 DEF Ages
<1>10. /\ CommandsHeard' /\ Unmarked' \subseteq Unmarked
       /\ r \in Unmarked' => ~Overtakes(p)
  BY <1>1, <1>2 DEF DeepInv, CommandsHeard, Unmarked
<1>11. ASSUME NEW q \in Player, q # p
       PROVE  /\ \A x : Leads(q, x) => Leads(q, x)'
              /\ \A x, i : Heeds(q, i, x) => Heeds(q, i, x)'
  BY <1>2, <1>6, <1>11, LeadsSame, HeedsSame
\* p reads the host of its room, and nothing before.
<1>12. h # None /\ ~Overtakes(p) => Leads(p, h)'
  <2>1. h # None => received'[p] = Append(received[p], DeepHost(h))
    BY <1>5 DEF Tell
  <2>2. life'[p] \in Nat
    BY <1>5, DeepBounds
  <2> QED BY <1>2, <1>3, <1>4, <2>1, <2>2, LeadsTold
\* Only the room p comes into has another host, and only p may be it.
<1>13. ASSUME NEW k \in Room, roomHost'[k] # roomHost[k]
       PROVE  k = r /\ roomHost[k] = None /\ roomHost'[k] = <<p, n>> /\ roomHost[r] # h
  BY <1>1, <1>5, <1>13
<1>14. RolesFollow'
  <2> SUFFICES ASSUME NEW q \in Player \ misled', NEW x \in Ids \cup {None},
                      Present(q)', roomHost'[seat'[q]] = x
               PROVE  Leads(q, x)'
    BY DEF RolesFollow, Ids
  <2>1. CASE q = p
    <3>1. ~Confused(p, h) /\ h = x
      BY <1>1, <1>5, <2>1
    <3> QED BY <1>12, <2>1, <3>1 DEF Confused
  <2>2. CASE q # p
    <3>1. Present(q) /\ seat'[q] = seat[q] /\ seat[q] \in Room
      BY <1>6, <2>2, Deeps DEF DeepInv
    <3>2. q \notin misled
      BY <1>1, <2>2
    <3>3. roomHost'[seat[q]] = roomHost[seat[q]]
      <4>1. CASE roomHost'[seat[q]] # roomHost[seat[q]]
        <5>1. seat[q] = r /\ roomHost[r] # h
          BY <1>13, <3>1, <4>1
        <5>2. q \in misled'
          BY <1>1, <2>2, <3>1, <5>1 DEF Members
        <5> QED BY <5>2
      <4> QED BY <4>1
    <3> QED BY <1>11, <2>2, <3>1, <3>2, <3>3 DEF DeepInv, RolesFollow
  <2> QED BY <2>1, <2>2
<1>15. HostsPlay'
  <2> SUFFICES ASSUME NEW k \in Unmarked', NEW q \in Player, NEW x \in Ids, roomHost'[k] = x, Id(q)' = x
               PROVE  seat'[q] = k /\ (Present(q)' => Leads(q, x)')
    BY DEF HostsPlay, Ids
  <2>1. k \in Unmarked /\ k \in Room /\ x # None
    BY <1>10, DeepBounds DEF Unmarked
  <2>2. CASE q = p
    <3>1. k = r
      <4>1. CASE roomHost[k] = x
        <5>1. n = life[p] /\ r = seat[p]
          BY <1>1, <1>5, <2>1, <2>2, <4>1
        <5>2. Id(p) = x
          BY <1>5, <2>2, <5>1 DEF Id
        <5> QED BY <2>1, <4>1, <5>1, <5>2 DEF DeepInv, HostsPlay
      <4>2. CASE roomHost[k] # x
        BY <1>13, <2>1, <4>2
      <4> QED BY <4>1, <4>2
    <3>2. h = x /\ ~Overtakes(p)
      BY <1>5, <1>10, <2>1, <3>1
    <3> QED BY <1>5, <1>12, <2>1, <2>2, <3>1, <3>2
  <2>3. CASE q # p
    <3>1. Id(q) = x /\ x # <<p, n>>
      BY <1>6, <2>3 DEF Id
    <3>2. roomHost[k] = x
      BY <1>13, <2>1, <3>1
    <3>3. seat[q] = k /\ (Present(q) => Leads(q, x))
      BY <2>1, <3>1, <3>2 DEF DeepInv, HostsPlay
    <3> QED BY <1>6, <1>11, <2>3, <3>3
  <2> QED BY <2>2, <2>3
<1>16. CommandsFollow'
  <2> SUFFICES ASSUME NEW q \in Player, NEW x \in Ids, Id(q)' = x, NEW i \in DOMAIN received'[q],
                      received'[q][i].type = "COMMAND", received'[q][i].room \in Unmarked'
               PROVE  roomHost'[received'[q][i].room] = x /\ Heeds(q, i, x)'
    BY DEF CommandsFollow, Ids
  <2>1. CASE q = p
    <3>1. received'[p] = <<>> \/ received'[p] = <<DeepHost(h)>>
      BY <1>3, <1>5 DEF Tell
    <3>2. received'[p][i] = DeepHost(h)
      BY <2>1, <3>1
    <3> QED BY <2>1, <3>2 DEF DeepHost
  <2>2. CASE q # p
    <3> DEFINE k == received[q][i].room
    <3>1. /\ i \in DOMAIN received[q] /\ received[q][i].type = "COMMAND" /\ k \in Unmarked
          /\ received'[q][i].room = k /\ Id(q) = x
      BY <1>6, <1>10, <2>2
    <3>2. roomHost[k] = x /\ Heeds(q, i, x)
      BY <3>1 DEF DeepInv, CommandsFollow
    <3>3. k \in Room /\ x # None
      BY <3>1, DeepBounds DEF Unmarked
    <3>4. roomHost'[k] = x
      BY <1>13, <3>2, <3>3
    <3> QED BY <1>11, <2>2, <3>1, <3>2, <3>4
  <2> QED BY <2>1, <2>2
<1> QED BY <1>7, <1>8, <1>9, <1>10, <1>14, <1>15, <1>16 DEF DeepInv, DeepBase

-----------------------------------------------------------------------------
LEMMA DeepKeeps == DeepInv /\ [DeepNext]_deepVars => DeepInv'
<1> SUFFICES ASSUME DeepInv, [DeepNext]_deepVars PROVE DeepInv'
  OBVIOUS
<1>1. CASE DeepNext
  <2>1. wantsHost' = wantsHost
    BY <1>1 DEF DeepNext
  <2>2. CASE RunTasks
    BY <2>1, <2>2, RunTasksKeeps
  <2>3. ASSUME NEW p \in Player,
               \/ \E role \in {"host", "joiner"} : ClaimRole(p, role)
               \/ \E r \in Room : ChangeRoom(p, r)
               \/ RelayCommand(p)
        PROVE  DeepInv'
    BY <2>1, <2>3, SpeaksKeeps
  <2>4. ASSUME NEW p \in Player,
               ServeHostClaim(p) \/ ServeJoinerClaim(p) \/ ServeJoinRoom(p) \/ ServeCommand(p)
        PROVE  DeepInv'
    BY <2>1, <2>4, HostClaimKeeps, JoinerClaimKeeps, JoinRoomKeeps, CommandServed
  <2>5. ASSUME NEW p \in Player, HandleHost(p) \/ HandleRole(p) \/ HandleCommand(p)
        PROVE  DeepInv'
    BY <2>1, <2>5, HandleHostKeeps, HandleRoleKeeps, HandleCommandKeeps
  <2>6. ASSUME NEW p \in Player, (\E quits \in BOOLEAN : Lose(p, quits)) \/ Enter(p) \/ Reap(p)
        PROVE  DeepInv'
    BY <2>1, <2>6, LoseKeeps, EnterKeeps, ReapKeeps
  <2> QED BY <1>1, <2>2, <2>3, <2>4, <2>5, <2>6 DEF DeepNext
<1>2. CASE UNCHANGED deepVars
  <2>1. /\ UNCHANGED <<roomHost, seat, life, socket, sent, tasks, received, wantsHost, deepClient, deeds>>
        /\ UNCHANGED <<misled, vacated, yielded, early, ignored>>
    BY <1>2 DEF deepVars, deepServer, deepNet, deepHistory
  <2>2. DeepBase' /\ CommandsHeard' /\ Unmarked' \subseteq Unmarked
    <3>1. DeepTypeOK'
      BY <2>1 DEF DeepInv, DeepBase, DeepTypeOK, deepClient, Ids
    <3>2. NetOK'
      BY <2>1 DEF DeepInv, DeepBase, NetOK, Present, Task, ServerFrame, ClientFrame, HostFrame, Ids
    <3>3. Ages' /\ CommandsHeard' /\ Unmarked' = Unmarked
      BY <2>1 DEF DeepInv, DeepBase, Ages, CommandsHeard, Unmarked
    <3> QED BY <3>1, <3>2, <3>3 DEF DeepBase
  <2>3. RolesFollow' /\ HostsPlay' /\ CommandsFollow'
    BY <2>1, <2>2, IdleFollows
  <2> QED BY <2>2, <2>3 DEF DeepInv
<1> QED BY <1>1, <1>2

\* What a player was told last is what it plays once it has read everything.
LEMMA RolesFromLeads == DeepInv => RolesAgree
<1> SUFFICES ASSUME DeepInv, NEW p \in Player \ misled, DeepQuiet(p),
                    NEW x, x = roomHost[seat[p]]
             PROVE  enabled[p] /\ (isHost[p] <=> x = Id(p)) /\ hostId[p] = x
  BY DEF RolesAgree
<1>1. tasks = <<>> /\ received[p] = <<>> /\ Present(p)
  BY DEF DeepQuiet, BetweenTurns
<1>2. x \in Ids \cup {None}
  BY Deeps DEF DeepInv
<1>3. Leads(p, x)
  BY <1>1, <1>2 DEF DeepInv, RolesFollow
<1>4. Plays(p, x)
  BY <1>1, <1>3, NothingSaid DEF Leads, WillPlay
<1> QED BY <1>4 DEF Plays

LEMMA DeepReached == DeepSpec => []DeepInv
BY DeepStarts, DeepKeeps, PTL DEF DeepSpec

\* The deep session's state is well typed: a player without a session has no
\* role and no host in mind, and one that is the host knows of a host.
THEOREM DeepTypeCorrect == DeepSpec => []DeepTypeOK
<1>1. DeepInv => DeepTypeOK
  BY DEF DeepInv, DeepBase
<1> QED BY <1>1, DeepReached, PTL

\* A player that has read everything plays the host exactly if it is the host
\* of its room, and knows who is, but for those the server told nothing or in
\* another order than it decided.
THEOREM RolesCorrect == DeepSpec => []RolesAgree
BY RolesFromLeads, DeepReached, PTL

\* A command to the host is dropped by its receiver only in a room whose host
\* had gone or given up its role, or where something overtook an announcement.
THEOREM CommandsAreHeard == DeepSpec => []CommandsHeard
<1>1. DeepInv => CommandsHeard
  BY DEF DeepInv
<1> QED BY <1>1, DeepReached, PTL
=============================================================================
