--------------------------- MODULE HouseholdFunds ---------------------------
(***************************************************************************)
(* The household balance of one room: every game has its own, a client     *)
(* publishes a change of it, the server stores the number and sends it to  *)
(* the whole room, the sender included, and every client applies it.       *)
(*                                                                         *)
(* Nothing but the broadcast carries the balance: a broadcast runs before  *)
(* the next frame of its sender is read, and no reply can overtake it, so  *)
(* it is sent in the handler's step here.                                  *)
(***************************************************************************)
EXTENDS Players, Integers, Sequences

CONSTANTS Balance,    \* values of a balance
          MaxSpend,   \* bound: changes the players make in their games
          MaxGap      \* bound: connections that break

ASSUME FundsConstants == None \notin Balance

VARIABLES
  member,     \* players with a connection
  funds,      \* Room.funds["balance"]
  reports,    \* FUNDS_SYNC on its way to the server
  echoes,     \* FUNDS_SYNC on its way to the client
  purse,      \* the balance in the player's game
  baseline,   \* _funds_baseline
  applied,    \* _last_funds_applied
  spends, gaps,
  behind      \* players the room's last FUNDS_SYNC did not reach

fundsClient == <<purse, baseline, applied>>
fundsVars == <<member, funds, reports, echoes, fundsClient, spends, gaps, behind>>

FundsInit ==
  /\ member = {}
  /\ funds = None
  /\ reports = [p \in Player |-> <<>>]
  /\ echoes = [p \in Player |-> <<>>]
  /\ purse \in [Player -> Balance]
  /\ baseline = [p \in Player |-> None]
  /\ applied = [p \in Player |-> None]
  /\ spends = 0 /\ gaps = 0
  /\ behind = {}

\* A player earns or spends.
Spend(p, b) ==
  /\ spends < MaxSpend
  /\ b # purse[p]
  /\ spends' = spends + 1
  /\ purse' = [purse EXCEPT ![p] = b]
  /\ UNCHANGED <<member, funds, reports, echoes, baseline, applied, gaps, behind>>

\* _maybe_sync_funds: the first sample is only remembered.
SampleFunds(p) ==
  /\ p \in member
  /\ purse[p] # baseline[p]
  /\ baseline' = [baseline EXCEPT ![p] = purse[p]]
  /\ reports' = IF baseline[p] = None THEN reports ELSE [reports EXCEPT ![p] = Append(@, purse[p])]
  /\ UNCHANGED <<member, funds, echoes, purse, applied, spends, gaps, behind>>

\* Mutant of Listeners: the sender knows already.
ListenersButSender(p) == member \ {p}

Listeners(p) == member

\* Session.set_room_funds.
Recorded(b) == b

\* _handle_funds_sync.
ServeFunds(p) ==
  LET b == Head(reports[p])
  IN  /\ reports[p] # <<>>
      /\ reports' = [reports EXCEPT ![p] = Tail(@)]
      /\ funds' = Recorded(b)
      /\ echoes' = [q \in Player |-> IF q \in Listeners(p) THEN Append(echoes[q], b) ELSE echoes[q]]
      /\ behind' = Player \ member
      /\ UNCHANGED <<member, fundsClient, spends, gaps>>

\* A client does not apply the number it applied last.  The game may refuse it.
ApplyFunds(p) ==
  LET b == Head(echoes[p])
  IN  /\ p \in member /\ echoes[p] # <<>>
      /\ echoes' = [echoes EXCEPT ![p] = Tail(@)]
      /\ baseline' = [baseline EXCEPT ![p] = b]
      /\ \/ UNCHANGED <<purse, applied>>
         \/ /\ b # applied[p]
            /\ purse' = [purse EXCEPT ![p] = b]
            /\ applied' = [applied EXCEPT ![p] = b]
      /\ UNCHANGED <<member, funds, reports, spends, gaps, behind>>

\* A connection breaks; the server may still read some of what was sent.
Part(p) ==
  /\ p \in member
  /\ gaps < MaxGap
  /\ gaps' = gaps + 1
  /\ member' = member \ {p}
  /\ \E n \in 0..Len(reports[p]) : reports' = [reports EXCEPT ![p] = SubSeq(@, 1, n)]
  /\ echoes' = [echoes EXCEPT ![p] = <<>>]
  /\ behind' = behind \cup {p}
  /\ UNCHANGED <<funds, fundsClient, spends>>

\* Nothing of what a player gets when it comes names the balance.
Come(p) ==
  /\ p \notin member /\ reports[p] = <<>>
  /\ member' = member \cup {p}
  /\ behind' = behind \cup {p}
  /\ UNCHANGED <<funds, reports, echoes, fundsClient, spends, gaps>>

FundsNext ==
  \E p \in Player :
    \/ \E b \in Balance : Spend(p, b)
    \/ SampleFunds(p) \/ ServeFunds(p) \/ ApplyFunds(p) \/ Part(p) \/ Come(p)

FundsSpec == FundsInit /\ [][FundsNext]_fundsVars

-----------------------------------------------------------------------------
\* Types; a number the server has not stored is nowhere else.
FundsTypeOK ==
  /\ member \subseteq Player /\ behind \subseteq Player
  /\ funds \in Balance \cup {None}
  /\ reports \in [Player -> Seq(Balance)] /\ echoes \in [Player -> Seq(Balance)]
  /\ purse \in [Player -> Balance]
  /\ baseline \in [Player -> Balance \cup {None}]
  /\ applied \in [Player -> Balance \cup {None}]
  /\ funds = None => \A p \in Player : echoes[p] = <<>> /\ applied[p] = None

\* No change is waiting to be published or applied.
FundsQuiet ==
  /\ \A p \in Player : reports[p] = <<>> /\ echoes[p] = <<>>
  /\ \A p \in member : baseline[p] = purse[p]

\* When nothing is on its way every game has the number the server has, but
\* those of players who came since the last change.
FundsConverge ==
  FundsQuiet => \A p \in member \ behind : purse[p] = funds
=============================================================================
