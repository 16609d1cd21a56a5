-------------------------- MODULE Launcher_proofs ---------------------------
(***************************************************************************)
(* The launcher: what the lobby page may say of a share, for any saves,    *)
(* guests and lobbies, and what an update leaves on disk, for any files,   *)
(* releases and failures.                                                  *)
(***************************************************************************)
EXTENDS LauncherLobby, RuntimeUpdate, TLAPS

Unused == \A l \in LobbyNo : lobbies[l].pc = "unused" => lobbies[l].copy = NoCopy

HandleInv ==
  /\ handle # 0 => lobbies[handle].pc # "unused"
  /\ slotBusy = "starting" => handle # 0 /\ lobbies[handle].pc \in {"starting", "open", "closed"}
  /\ slotBusy = "stopping" => handle # 0 /\ lobbies[handle].pc \in {"stopping", "closed"}
  /\ slotBusy = "" /\ handle # 0 => lobbies[handle].pc = "open"

ShareInv ==
  /\ \A w \in ShareNo :
       shares[w].pc \in {"pushing", "stored"} => shares[w].lobby # 0 /\ shares[w].save # NoSave
  /\ \A w \in seats : shares[w].lobby # 0 /\ shares[w].pc # "begun"
  /\ held # 0 => shares[held].pc = "ended"

SeatInv ==
  ~overlap =>
    /\ seats \subseteq Underway \cup {held}
    /\ \A v, w \in Underway : v = w
    /\ \A w \in Underway : shares[w].pc # "begun" => held = 0

FollowInv ==
  /\ \A w \in ShareNo : shares[w].pc = "pushing" => lobbies[shares[w].lobby].copy.save # NoSave
  /\ \A g \in Guest : \A w \in ShareNo :
       guests[g].pc = "waiting" /\ guests[g].lobby # 0 /\ ~guests[g].late
       /\ shares[w].pc = "pushing" /\ shares[w].lobby = guests[g].lobby => w \in guests[g].follows \/ guests[g].inbox # {}
  /\ WaitingIsServed

WholeCopy(save) == [save |-> save, open |-> FALSE, sound |-> TRUE]

CopyInv ==
  ~disturbed =>
    /\ \A v, w \in Underway : v = w
    /\ Underway # {} => slotBusy = "" /\ handle # 0
    /\ slotBusy = "starting" => ~synced
    /\ \A w \in Underway : shares[w].pc # "begun" => shares[w].lobby = handle /\ shares[w].save = selected
    /\ \A w \in Underway : shares[w].pc = "pushing" => lobbies[handle].copy.save = selected
    /\ \A w \in Underway : shares[w].pc = "stored" => lobbies[handle].copy = WholeCopy(selected)
    /\ handle # 0 => lobbies[handle].copy.sound /\ (lobbies[handle].copy.open => \E w \in ShareNo : shares[w].pc = "pushing")
    /\ synced /\ handle # 0 /\ slotBusy = "" => lobbies[handle].copy = WholeCopy(selected)

Base == LobbyTypeOK /\ Unused /\ HandleInv /\ ShareInv
IInv == Base /\ SeatInv /\ FollowInv /\ CopyInv

-----------------------------------------------------------------------------
LEMMA Constant == NoSave \notin Save /\ MaxLobby \in Nat /\ MaxShare \in Nat /\ MaxTrips \in Nat
BY LobbyConstants DEF LobbyConstants

LEMMA InitIInv == LobbyInit => IInv
<1> SUFFICES ASSUME LobbyInit PROVE IInv
  OBVIOUS
<1>1. LobbyTypeOK
  <2>1. NoCopy \in Copies
    BY DEF NoCopy, Copies
  <2>2. lobbies \in [LobbyNo -> LobbyThreads] /\ shares \in [ShareNo -> ShareThreads]
    BY <2>1 DEF LobbyInit, LobbyThreads, ShareThreads
  <2>3. guests \in [Guest -> Receivers]
    BY DEF LobbyInit, Receivers
  <2>4. trips \in 0..MaxTrips
    <3>1. trips = 0
      BY DEF LobbyInit
    <3> QED
      BY <3>1, Constant
  <2>5. /\ seats \subseteq ShareNo
        /\ \A w \in seats : shares[w].pc # "unused" /\ lobbies[shares[w].lobby].pc \in {"open", "stopping"}
    BY Zenon DEF LobbyInit
  <2>6. /\ handle \in {0} \cup LobbyNo /\ slotBusy \in {"", "starting", "stopping"}
        /\ selected \in Save \cup {NoSave} /\ synced \in BOOLEAN
        /\ canShare \in BOOLEAN /\ canStart \in BOOLEAN /\ present \in BOOLEAN
        /\ held \in {0} \cup ShareNo /\ overlap \in BOOLEAN /\ disturbed \in BOOLEAN
    BY Zenon DEF LobbyInit
  <2> QED
    BY <2>2, <2>3, <2>4, <2>5, <2>6, Zenon DEF LobbyTypeOK
<1>2. Unused /\ HandleInv /\ ShareInv
  BY DEF LobbyInit, Unused, HandleInv, ShareInv
<1>3. Underway = {}
  BY DEF LobbyInit, Underway
<1>4. SeatInv /\ CopyInv
  BY <1>3 DEF LobbyInit, SeatInv, CopyInv
<1>5. FollowInv
  BY DEF LobbyInit, FollowInv, WaitingIsServed
<1> QED
  BY <1>1, <1>2, <1>4, <1>5 DEF IInv, Base

-----------------------------------------------------------------------------
\* The type invariant in three parts.
TypeHost ==
  /\ handle \in {0} \cup LobbyNo /\ slotBusy \in {"", "starting", "stopping"}
  /\ selected \in Save \cup {NoSave} /\ held \in {0} \cup ShareNo
  /\ trips \in 0..MaxTrips

TypeFlags ==
  /\ synced \in BOOLEAN /\ canShare \in BOOLEAN /\ canStart \in BOOLEAN /\ present \in BOOLEAN
  /\ overlap \in BOOLEAN /\ disturbed \in BOOLEAN

TypeThreads ==
  lobbies \in [LobbyNo -> LobbyThreads] /\ shares \in [ShareNo -> ShareThreads]

TypeGuests == guests \in [Guest -> Receivers]

TypeSeats ==
  /\ seats \subseteq ShareNo
  /\ \A w \in seats : shares[w].pc # "unused" /\ lobbies[shares[w].lobby].pc \in {"open", "stopping"}

LEMMA Parts == LobbyTypeOK <=> TypeHost /\ TypeFlags /\ TypeThreads /\ TypeGuests /\ TypeSeats
BY Zenon DEF LobbyTypeOK, TypeHost, TypeFlags, TypeThreads, TypeGuests, TypeSeats

LEMMA Numbers == 0 \notin LobbyNo /\ 0 \notin ShareNo /\ LobbyNo \subseteq Nat /\ ShareNo \subseteq Nat
BY Constant DEF LobbyNo, ShareNo

LEMMA NoCopyTyped == NoCopy \in Copies /\ NoCopy.open = FALSE /\ NoCopy.save = NoSave /\ NoCopy.sound = TRUE
BY DEF NoCopy, Copies

\* What the first and the last chunk make of the room's copy.
LEMMA OpenedTyped ==
  ASSUME NEW c \in Copies, NEW s \in Save
  PROVE  /\ Opened(c, s) \in Copies
         /\ Opened(c, s).save = s
BY DEF Opened, Copies

LEMMA CompletedTyped ==
  ASSUME NEW c \in Copies, NEW s \in Save
  PROVE  /\ Completed(c, s) \in Copies
         /\ Completed(c, s).save = s /\ Completed(c, s).open = FALSE
BY DEF Completed, Copies

LEMMA ReplayedTyped ==
  ASSUME NEW l \in LobbyNo, lobbies[l].copy \in Copies
  PROVE  Replayed(l) \in SUBSET (Save \cup {NoSave})
BY DEF Replayed, Copies

-----------------------------------------------------------------------------
\* What the actions on the threads do, entry by entry.
LEMMA Starts ==
  ASSUME Base, StartLobby
  PROVE  /\ handle = 0 /\ handle' \in LobbyNo /\ lobbies[handle'].pc = "unused"
         /\ slotBusy' = "starting" /\ slotBusy = ""
         /\ \A k \in LobbyNo : lobbies'[k].copy = lobbies[k].copy
         /\ \A k \in LobbyNo : k # handle' => lobbies'[k] = lobbies[k]
         /\ lobbies'[handle'].pc = "starting"
<1>1. PICK l \in LobbyNo :
        lobbies[l].pc = "unused" /\ handle' = l /\ lobbies' = [lobbies EXCEPT ![l].pc = "starting"]
  BY DEF StartLobby
<1>2. lobbies \in [LobbyNo -> LobbyThreads] /\ lobbies[l] \in LobbyThreads
  BY Parts DEF Base, TypeThreads
<1>3. handle = 0 /\ slotBusy' = "starting" /\ slotBusy = ""
  BY DEF StartLobby
<1> QED
  BY <1>1, <1>2, <1>3 DEF LobbyThreads

LEMMA Binds ==
  ASSUME Base, NEW l \in LobbyNo, LobbyBinds(l)
  PROVE  /\ lobbies[l].pc = "starting" /\ lobbies'[l].pc \in {"open", "closed"}
         /\ \A k \in LobbyNo : lobbies'[k].copy = lobbies[k].copy
         /\ \A k \in LobbyNo : k # l => lobbies'[k] = lobbies[k]
BY Parts DEF Base, LobbyBinds, TypeThreads, LobbyThreads

LEMMA Stops ==
  ASSUME Base, StopLobby
  PROVE  /\ slotBusy = "" /\ slotBusy' = "stopping" /\ handle' = handle /\ handle \in LobbyNo
         /\ lobbies[handle].pc = "open" /\ lobbies'[handle].pc = "stopping"
         /\ \A k \in LobbyNo : lobbies'[k].copy = lobbies[k].copy
         /\ \A k \in LobbyNo : k # handle => lobbies'[k] = lobbies[k]
         /\ held' = 0 /\ seats' = seats \ {held}
BY Parts DEF Base, StopLobby, TypeThreads, LobbyThreads, TypeHost, HandleInv, WithoutHeld

LEMMA Closes ==
  ASSUME Base, NEW l \in LobbyNo, LobbyCloses(l)
  PROVE  /\ lobbies[l].pc = "stopping" /\ lobbies'[l].pc = "closed"
         /\ \A k \in LobbyNo : lobbies'[k].copy = lobbies[k].copy
         /\ \A k \in LobbyNo : k # l => lobbies'[k] = lobbies[k]
         /\ \A g \in Guest : /\ guests[g].lobby = l => guests'[g].lobby = 0
                             /\ guests[g].lobby # l => guests'[g] = guests[g]
<1>1. /\ lobbies[l].pc = "stopping" /\ lobbies'[l].pc = "closed"
      /\ \A k \in LobbyNo : lobbies'[k].copy = lobbies[k].copy
      /\ \A k \in LobbyNo : k # l => lobbies'[k] = lobbies[k]
  BY Parts DEF Base, LobbyCloses, TypeThreads, LobbyThreads
<1>2. \A g \in Guest : /\ guests[g].lobby = l => guests'[g].lobby = 0
                       /\ guests[g].lobby # l => guests'[g] = guests[g]
  BY Parts DEF Base, LobbyCloses, TypeGuests, Receivers, Guests
<1> QED
  BY <1>1, <1>2

LEMMA Begins ==
  ASSUME Base, ShareSave
  PROVE  \E w \in ShareNo :
           /\ shares[w].pc = "unused" /\ shares'[w].pc = "begun"
           /\ \A v \in ShareNo : v # w => shares'[v] = shares[v]
           /\ \A v \in ShareNo : shares'[v].lobby = shares[v].lobby /\ shares'[v].save = shares[v].save
<1>1. PICK w \in ShareNo : shares[w].pc = "unused" /\ shares' = [shares EXCEPT ![w].pc = "begun"]
  BY DEF ShareSave
<1>2. shares \in [ShareNo -> ShareThreads] /\ shares[w] \in ShareThreads
  BY Parts DEF Base, TypeThreads
<1> QED
  BY <1>1, <1>2 DEF ShareThreads

LEMMA Connects ==
  ASSUME Base, NEW w \in ShareNo, ShareConnects(w)
  PROVE  /\ handle \in LobbyNo /\ selected \in Save /\ lobbies[handle].pc = "open"
         /\ shares[w].pc = "begun" /\ shares'[w].pc = "pushing"
         /\ shares'[w].lobby = handle /\ shares'[w].save = selected
         /\ \A v \in ShareNo : v # w => shares'[v] = shares[v]
         /\ \A k \in LobbyNo : lobbies'[k].pc = lobbies[k].pc
         /\ \A k \in LobbyNo : k # handle => lobbies'[k].copy = lobbies[k].copy
         /\ lobbies'[handle].copy = Opened(lobbies[handle].copy, selected)
         /\ \A g \in Guest :
              /\ guests'[g].pc = guests[g].pc /\ guests'[g].lobby = guests[g].lobby
              /\ guests'[g].late = guests[g].late /\ guests'[g].inbox = guests[g].inbox
              /\ guests[g].follows \subseteq guests'[g].follows
              /\ guests[g].lobby = handle => w \in guests'[g].follows
<1>1. /\ handle \in LobbyNo /\ selected \in Save /\ lobbies[handle].pc = "open"
      /\ shares[w].pc = "begun"
  BY Parts DEF Base, ShareConnects, TypeHost
<1>2. /\ shares'[w].pc = "pushing" /\ shares'[w].lobby = handle /\ shares'[w].save = selected
      /\ \A v \in ShareNo : v # w => shares'[v] = shares[v]
  BY Parts DEF Base, ShareConnects, TypeThreads, ShareThreads
<1>3. /\ \A k \in LobbyNo : lobbies'[k].pc = lobbies[k].pc
      /\ \A k \in LobbyNo : k # handle => lobbies'[k].copy = lobbies[k].copy
      /\ lobbies'[handle].copy = Opened(lobbies[handle].copy, selected)
  BY Parts, <1>1 DEF Base, ShareConnects, TypeThreads, LobbyThreads
<1>4. ASSUME NEW g \in Guest
      PROVE  /\ guests'[g].pc = guests[g].pc /\ guests'[g].lobby = guests[g].lobby
             /\ guests'[g].late = guests[g].late /\ guests'[g].inbox = guests[g].inbox
             /\ guests[g].follows \subseteq guests'[g].follows
             /\ guests[g].lobby = handle => w \in guests'[g].follows
  BY Parts DEF Base, ShareConnects, TypeGuests, Receivers, Guests
<1> QED
  BY <1>1, <1>2, <1>3, <1>4

LEMMA Stores ==
  ASSUME Base, NEW w \in ShareNo, ShareStored(w)
  PROVE  /\ shares[w].lobby \in LobbyNo /\ shares[w].save \in Save
         /\ lobbies[shares[w].lobby].pc = "open"
         /\ shares[w].pc = "pushing" /\ shares'[w].pc = "stored"
         /\ \A v \in ShareNo : shares'[v].lobby = shares[v].lobby /\ shares'[v].save = shares[v].save
         /\ \A v \in ShareNo : v # w => shares'[v] = shares[v]
         /\ \A k \in LobbyNo : lobbies'[k].pc = lobbies[k].pc
         /\ \A k \in LobbyNo : k # shares[w].lobby => lobbies'[k].copy = lobbies[k].copy
         /\ lobbies'[shares[w].lobby].copy = Completed(lobbies[shares[w].lobby].copy, shares[w].save)
         /\ \A g \in Guest :
              /\ guests'[g].pc = guests[g].pc /\ guests'[g].lobby = guests[g].lobby
              /\ guests'[g].late = guests[g].late /\ guests'[g].follows = guests[g].follows
              /\ guests[g].inbox \subseteq guests'[g].inbox
              /\ guests[g].lobby = shares[w].lobby /\ w \in guests[g].follows => guests'[g].inbox # {}
<1>1. /\ shares[w].lobby \in LobbyNo /\ shares[w].save \in Save
      /\ lobbies[shares[w].lobby].pc = "open" /\ shares[w].pc = "pushing"
  BY Parts DEF Base, ShareStored, TypeThreads, ShareThreads, ShareInv
<1>2. /\ shares'[w].pc = "stored"
      /\ \A v \in ShareNo : shares'[v].lobby = shares[v].lobby /\ shares'[v].save = shares[v].save
      /\ \A v \in ShareNo : v # w => shares'[v] = shares[v]
  BY Parts DEF Base, ShareStored, TypeThreads, ShareThreads
<1>3. /\ \A k \in LobbyNo : lobbies'[k].pc = lobbies[k].pc
      /\ \A k \in LobbyNo : k # shares[w].lobby => lobbies'[k].copy = lobbies[k].copy
      /\ lobbies'[shares[w].lobby].copy = Completed(lobbies[shares[w].lobby].copy, shares[w].save)
  BY Parts, <1>1 DEF Base, ShareStored, TypeThreads, LobbyThreads
<1>4. ASSUME NEW g \in Guest
      PROVE  /\ guests'[g].pc = guests[g].pc /\ guests'[g].lobby = guests[g].lobby
             /\ guests'[g].late = guests[g].late /\ guests'[g].follows = guests[g].follows
             /\ guests[g].inbox \subseteq guests'[g].inbox
             /\ guests[g].lobby = shares[w].lobby /\ w \in guests[g].follows => guests'[g].inbox # {}
  <2>1. guests[g] \in Receivers /\ guests[g].inbox \subseteq guests[g].inbox \cup {shares[w].save}
    BY Parts DEF Base, TypeGuests
  <2>2. guests'[g] = IF g \in Guests(shares[w].lobby) /\ w \in guests[g].follows
                       THEN [guests[g] EXCEPT !.inbox = @ \cup {shares[w].save}] ELSE guests[g]
    BY DEF ShareStored
  <2>3. g \in Guests(shares[w].lobby) <=> guests[g].lobby = shares[w].lobby
    BY DEF Guests
  <2>4. CASE guests[g].lobby = shares[w].lobby /\ w \in guests[g].follows
    <3>1. guests'[g] = [guests[g] EXCEPT !.inbox = @ \cup {shares[w].save}]
      BY <2>2, <2>3, <2>4
    <3> QED
      BY <2>1, <3>1 DEF Receivers
  <2>5. CASE ~ (guests[g].lobby = shares[w].lobby /\ w \in guests[g].follows)
    <3>1. guests'[g] = guests[g]
      BY <2>2, <2>3, <2>5
    <3> QED
      BY <2>1, <2>5, <3>1
  <2> QED
    BY <2>4, <2>5
<1> QED
  BY <1>1, <1>2, <1>3, <1>4

LEMMA Ends ==
  ASSUME Base, NEW w \in ShareNo, ShareDone(w) \/ ShareFails(w)
  PROVE  /\ w \in Underway /\ shares'[w].pc = "ended"
         /\ \A v \in ShareNo : shares'[v].lobby = shares[v].lobby /\ shares'[v].save = shares[v].save
         /\ \A v \in ShareNo : v # w => shares'[v] = shares[v]
         /\ Underway' = Underway \ {w}
<1>1. w \in Underway
  BY DEF ShareDone, ShareFails, Underway
<1>2. shares' = [shares EXCEPT ![w].pc = "ended"]
  BY DEF ShareDone, ShareFails
<1>3. /\ shares'[w].pc = "ended"
      /\ \A v \in ShareNo : shares'[v].lobby = shares[v].lobby /\ shares'[v].save = shares[v].save
      /\ \A v \in ShareNo : v # w => shares'[v] = shares[v]
  BY Parts, <1>2 DEF Base, TypeThreads, ShareThreads
<1> QED
  BY <1>1, <1>3 DEF Underway

LEMMA Receives ==
  ASSUME Base, NEW g \in Guest, GuestReceives(g) \/ GuestLeaves(g)
  PROVE  /\ guests'[g] \in Receivers /\ guests'[g].pc # "waiting"
         /\ \A h \in Guest : h # g => guests'[h] = guests[h]
<1>1. guests \in [Guest -> Receivers] /\ guests[g] \in Receivers
  BY Parts DEF Base, TypeGuests
<1>2. CASE GuestReceives(g)
  <2> DEFINE r == [guests[g] EXCEPT !.pc = "held", !.got = guests[g].got \cup guests[g].inbox, !.inbox = {}]
  <2>1. guests' = [guests EXCEPT ![g] = r]
    BY <1>2 DEF GuestReceives
  <2>2. r \in Receivers
    BY <1>1 DEF Receivers
  <2>3. r.pc = "held"
    BY <1>1 DEF Receivers
  <2> HIDE DEF r
  <2> QED
    BY <1>1, <2>1, <2>2, <2>3
<1>3. CASE GuestLeaves(g)
  <2>1. guests' = [guests EXCEPT ![g] = [@ EXCEPT !.pc = "out", !.lobby = 0, !.inbox = {}]]
    BY <1>3 DEF GuestLeaves
  <2>2. [guests[g] EXCEPT !.pc = "out", !.lobby = 0, !.inbox = {}] \in Receivers
    BY <1>1 DEF Receivers
  <2>3. [guests[g] EXCEPT !.pc = "out", !.lobby = 0, !.inbox = {}].pc = "out"
    BY <1>1 DEF Receivers
  <2> QED
    BY <1>1, <2>1, <2>2, <2>3
<1> QED
  BY <1>2, <1>3

LEMMA Tripped == trips \in 0..MaxTrips /\ Trip => trips' \in 0..MaxTrips
BY Constant DEF Trip

LEMMA TypeHostStep == Base /\ LobbyNext => TypeHost'
<1> SUFFICES ASSUME Base, LobbyNext PROVE TypeHost'
  OBVIOUS
<1>0. TypeHost
  BY Parts DEF Base
<1>t. Trip => trips' \in 0..MaxTrips
  BY <1>0, Tripped DEF TypeHost
<1> USE <1>0, <1>t DEF TypeHost, hostVars, screenVars, lobbyHistory
<1>1. CASE StartLobby
  BY <1>1 DEF StartLobby
<1>2. CASE StartReturns
  BY <1>2 DEF StartReturns
<1>3. CASE StopLobby
  BY <1>3 DEF StopLobby
<1>4. CASE StopReturns
  BY <1>4 DEF StopReturns, Unsync
<1>5. ASSUME NEW l \in LobbyNo, LobbyBinds(l) PROVE TypeHost'
  BY <1>5 DEF LobbyBinds
<1>6. ASSUME NEW l \in LobbyNo, PostStatus(l) PROVE TypeHost'
  BY <1>6 DEF PostStatus
<1>7. ASSUME NEW l \in LobbyNo, LobbyCloses(l) PROVE TypeHost'
  BY <1>7 DEF LobbyCloses
<1>8. CASE SelectSave
  BY <1>8 DEF SelectSave, Unsync
<1>9. CASE RefreshSaves
  BY <1>9 DEF RefreshSaves, Unsync
<1>10. CASE ShareSave
  BY <1>10 DEF ShareSave
<1>11. CASE StartGameHost
  BY <1>11 DEF StartGameHost
<1>12. ASSUME NEW w \in ShareNo, ShareConnects(w) PROVE TypeHost'
  BY <1>12 DEF ShareConnects
<1>13. ASSUME NEW w \in ShareNo, ShareStored(w) PROVE TypeHost'
  BY <1>13 DEF ShareStored
<1>14. ASSUME NEW w \in ShareNo, ShareDone(w) PROVE TypeHost'
  BY <1>14 DEF ShareDone
<1>15. ASSUME NEW w \in ShareNo, ShareFails(w) PROVE TypeHost'
  BY <1>15 DEF ShareFails
<1>16. ASSUME NEW g \in Guest, GuestJoins(g) PROVE TypeHost'
  BY <1>16 DEF GuestJoins
<1>17. ASSUME NEW g \in Guest, GuestReceives(g) PROVE TypeHost'
  BY <1>17 DEF GuestReceives
<1>18. ASSUME NEW g \in Guest, GuestLeaves(g) PROVE TypeHost'
  BY <1>18 DEF GuestLeaves
<1> QED
  BY <1>1, <1>2, <1>3, <1>4, <1>5, <1>6, <1>7, <1>8, <1>9, <1>10, <1>11, <1>12, <1>13, <1>14, <1>15,
     <1>16, <1>17, <1>18 DEF LobbyNext

LEMMA TypeFlagsStep == Base /\ LobbyNext => TypeFlags'
<1> SUFFICES ASSUME Base, LobbyNext PROVE TypeFlags'
  OBVIOUS
<1>0. TypeFlags
  BY Parts DEF Base
<1> USE <1>0 DEF TypeFlags, hostVars, screenVars, lobbyHistory
<1>1. CASE StartLobby
  BY <1>1, Zenon DEF StartLobby
<1>2. CASE StartReturns
  BY <1>2, Zenon DEF StartReturns
<1>3. CASE StopLobby
  BY <1>3, Zenon DEF StopLobby
<1>4. CASE StopReturns
  BY <1>4, Zenon DEF StopReturns, Unsync
<1>5. ASSUME NEW l \in LobbyNo, LobbyBinds(l) PROVE TypeFlags'
  BY <1>5, Zenon DEF LobbyBinds
<1>6. ASSUME NEW l \in LobbyNo, PostStatus(l) PROVE TypeFlags'
  <2>1. UNCHANGED <<synced, overlap, disturbed>> /\ present' \in BOOLEAN
    BY <1>6, Zenon DEF PostStatus, Connected
  <2>2. canShare' \in BOOLEAN /\ canStart' \in BOOLEAN
    BY <1>6, Zenon DEF PostStatus
  <2> QED
    BY <2>1, <2>2, Zenon
<1>7. ASSUME NEW l \in LobbyNo, LobbyCloses(l) PROVE TypeFlags'
  BY <1>7, Zenon DEF LobbyCloses
<1>8. CASE SelectSave
  BY <1>8, Zenon DEF SelectSave, Unsync
<1>9. CASE RefreshSaves
  BY <1>9, Zenon DEF RefreshSaves, Unsync
<1>10. CASE ShareSave
  BY <1>10, Zenon DEF ShareSave
<1>11. CASE StartGameHost
  BY <1>11, Zenon DEF StartGameHost
<1>12. ASSUME NEW w \in ShareNo, ShareConnects(w) PROVE TypeFlags'
  BY <1>12, Zenon DEF ShareConnects
<1>13. ASSUME NEW w \in ShareNo, ShareStored(w) PROVE TypeFlags'
  BY <1>13, Zenon DEF ShareStored
<1>14. ASSUME NEW w \in ShareNo, ShareDone(w) PROVE TypeFlags'
  BY <1>14, Zenon DEF ShareDone
<1>15. ASSUME NEW w \in ShareNo, ShareFails(w) PROVE TypeFlags'
  BY <1>15, Zenon DEF ShareFails
<1>16. ASSUME NEW g \in Guest, GuestJoins(g) PROVE TypeFlags'
  BY <1>16, Zenon DEF GuestJoins
<1>17. ASSUME NEW g \in Guest, GuestReceives(g) PROVE TypeFlags'
  BY <1>17, Zenon DEF GuestReceives
<1>18. ASSUME NEW g \in Guest, GuestLeaves(g) PROVE TypeFlags'
  BY <1>18, Zenon DEF GuestLeaves
<1> QED
  BY <1>1, <1>2, <1>3, <1>4, <1>5, <1>6, <1>7, <1>8, <1>9, <1>10, <1>11, <1>12, <1>13, <1>14, <1>15,
     <1>16, <1>17, <1>18 DEF LobbyNext

LEMMA TypeThreadsStep == Base /\ LobbyNext => TypeThreads'
<1> SUFFICES ASSUME Base, LobbyNext PROVE TypeThreads'
  OBVIOUS
<1>0. TypeThreads /\ TypeHost /\ ShareInv
  BY Parts DEF Base
<1> USE <1>0 DEF TypeThreads, TypeHost, hostVars, screenVars, lobbyHistory
<1>1. CASE StartLobby
  BY <1>1 DEF StartLobby, LobbyThreads
<1>2. CASE StartReturns
  BY <1>2 DEF StartReturns
<1>3. CASE StopLobby
  BY <1>3 DEF StopLobby, LobbyThreads
<1>4. CASE StopReturns
  BY <1>4 DEF StopReturns
<1>5. ASSUME NEW l \in LobbyNo, LobbyBinds(l) PROVE TypeThreads'
  BY <1>5 DEF LobbyBinds, LobbyThreads
<1>6. ASSUME NEW l \in LobbyNo, PostStatus(l) PROVE TypeThreads'
  BY <1>6 DEF PostStatus
<1>7. ASSUME NEW l \in LobbyNo, LobbyCloses(l) PROVE TypeThreads'
  BY <1>7 DEF LobbyCloses, LobbyThreads
<1>8. CASE SelectSave
  BY <1>8 DEF SelectSave
<1>9. CASE RefreshSaves
  BY <1>9 DEF RefreshSaves
<1>10. CASE ShareSave
  <2>1. PICK w \in ShareNo : shares' = [shares EXCEPT ![w].pc = "begun"]
    BY <1>10 DEF ShareSave
  <2>2. [shares[w] EXCEPT !.pc = "begun"] \in ShareThreads
    BY DEF ShareThreads
  <2>3. UNCHANGED lobbies
    BY <1>10 DEF ShareSave
  <2> QED
    BY <2>1, <2>2, <2>3
<1>11. CASE StartGameHost
  BY <1>11 DEF StartGameHost
<1>12. ASSUME NEW w \in ShareNo, ShareConnects(w) PROVE TypeThreads'
  <2>1. lobbies[handle].copy \in Copies /\ selected \in Save /\ handle \in LobbyNo
    BY <1>12 DEF ShareConnects, LobbyThreads
  <2>2. Opened(lobbies[handle].copy, selected) \in Copies
    BY <2>1, OpenedTyped
  <2>3. lobbies' \in [LobbyNo -> LobbyThreads]
    BY <1>12, <2>1, <2>2 DEF ShareConnects, LobbyThreads
  <2>4. shares' \in [ShareNo -> ShareThreads]
    BY <1>12, <2>1 DEF ShareConnects, ShareThreads
  <2> QED
    BY <2>3, <2>4
<1>13. ASSUME NEW w \in ShareNo, ShareStored(w) PROVE TypeThreads'
  <2>1. shares[w].lobby \in LobbyNo /\ shares[w].save \in Save
    BY <1>13 DEF ShareStored, ShareInv, ShareThreads
  <2>2. Completed(lobbies[shares[w].lobby].copy, shares[w].save) \in Copies
    BY <2>1, CompletedTyped DEF LobbyThreads
  <2>3. lobbies' \in [LobbyNo -> LobbyThreads]
    BY <1>13, <2>1, <2>2 DEF ShareStored, LobbyThreads
  <2>4. shares' \in [ShareNo -> ShareThreads]
    <3>1. shares[w] \in ShareThreads /\ shares' = [shares EXCEPT ![w].pc = "stored"]
      BY <1>13 DEF ShareStored
    <3>2. [shares[w] EXCEPT !.pc = "stored"] \in ShareThreads
      BY <3>1 DEF ShareThreads
    <3> QED
      BY <3>1, <3>2
  <2> QED
    BY <2>3, <2>4
<1>14. ASSUME NEW w \in ShareNo, ShareDone(w) PROVE TypeThreads'
  BY <1>14 DEF ShareDone, ShareThreads
<1>15. ASSUME NEW w \in ShareNo, ShareFails(w) PROVE TypeThreads'
  <2>1. /\ shares[w] \in ShareThreads /\ shares' = [shares EXCEPT ![w].pc = "ended"]
        /\ UNCHANGED lobbies
    BY <1>15 DEF ShareFails
  <2>2. [shares[w] EXCEPT !.pc = "ended"] \in ShareThreads
    BY <2>1 DEF ShareThreads
  <2> QED
    BY <2>1, <2>2
<1>16. ASSUME NEW g \in Guest, GuestJoins(g) PROVE TypeThreads'
  BY <1>16 DEF GuestJoins
<1>17. ASSUME NEW g \in Guest, GuestReceives(g) PROVE TypeThreads'
  BY <1>17 DEF GuestReceives
<1>18. ASSUME NEW g \in Guest, GuestLeaves(g) PROVE TypeThreads'
  BY <1>18 DEF GuestLeaves
<1> QED
  BY <1>1, <1>2, <1>3, <1>4, <1>5, <1>6, <1>7, <1>8, <1>9, <1>10, <1>11, <1>12, <1>13, <1>14, <1>15,
     <1>16, <1>17, <1>18 DEF LobbyNext

LEMMA TypeGuestsStep == Base /\ LobbyNext => TypeGuests'
<1> SUFFICES ASSUME Base, LobbyNext PROVE TypeGuests'
  OBVIOUS
<1>0. TypeGuests /\ TypeThreads
  BY Parts DEF Base
<1> USE <1>0 DEF TypeGuests, TypeThreads, hostVars, screenVars, lobbyHistory
<1>1. CASE StartLobby
  BY <1>1 DEF StartLobby
<1>2. CASE StartReturns
  BY <1>2 DEF StartReturns
<1>3. CASE StopLobby
  BY <1>3 DEF StopLobby
<1>4. CASE StopReturns
  BY <1>4 DEF StopReturns
<1>5. ASSUME NEW l \in LobbyNo, LobbyBinds(l) PROVE TypeGuests'
  BY <1>5 DEF LobbyBinds
<1>6. ASSUME NEW l \in LobbyNo, PostStatus(l) PROVE TypeGuests'
  BY <1>6 DEF PostStatus
<1>7. ASSUME NEW l \in LobbyNo, LobbyCloses(l) PROVE TypeGuests'
  <2>1. \A g \in Guest : [guests[g] EXCEPT !.lobby = 0] \in Receivers
    BY DEF Receivers
  <2> QED
    BY <1>7, <2>1 DEF LobbyCloses
<1>8. CASE SelectSave
  BY <1>8 DEF SelectSave
<1>9. CASE RefreshSaves
  BY <1>9 DEF RefreshSaves
<1>10. CASE ShareSave
  BY <1>10 DEF ShareSave
<1>11. CASE StartGameHost
  BY <1>11 DEF StartGameHost
<1>12. ASSUME NEW w \in ShareNo, ShareConnects(w) PROVE TypeGuests'
  <2>1. \A g \in Guest : [guests[g] EXCEPT !.follows = @ \cup {w}] \in Receivers
    BY DEF Receivers
  <2> QED
    BY <1>12, <2>1 DEF ShareConnects
<1>13. ASSUME NEW w \in ShareNo, ShareStored(w) PROVE TypeGuests'
  <2>1. \A g \in Guest : [guests[g] EXCEPT !.inbox = @ \cup {shares[w].save}] \in Receivers
    BY DEF Receivers, ShareThreads
  <2> QED
    BY <1>13, <2>1 DEF ShareStored
<1>14. ASSUME NEW w \in ShareNo, ShareDone(w) PROVE TypeGuests'
  BY <1>14 DEF ShareDone
<1>15. ASSUME NEW w \in ShareNo, ShareFails(w) PROVE TypeGuests'
  BY <1>15 DEF ShareFails
<1>16. ASSUME NEW g \in Guest, GuestJoins(g) PROVE TypeGuests'
  <2>1. PICK l \in LobbyNo : guests' = [guests EXCEPT ![g] =
            [pc |-> "waiting", lobby |-> l, follows |-> {}, late |-> lobbies[l].copy.open,
             inbox |-> Replayed(l), got |-> @.got]]
    BY <1>16 DEF GuestJoins
  <2>2. lobbies[l].copy \in Copies
    BY DEF LobbyThreads
  <2>3. lobbies[l].copy.open \in BOOLEAN /\ Replayed(l) \in SUBSET (Save \cup {NoSave})
    BY <2>2, ReplayedTyped DEF Copies
  <2>4. guests[g].got \in SUBSET (Save \cup {NoSave})
    BY DEF Receivers
  <2>5. [pc |-> "waiting", lobby |-> l, follows |-> {}, late |-> lobbies[l].copy.open,
         inbox |-> Replayed(l), got |-> guests[g].got] \in Receivers
    BY <2>3, <2>4, Zenon DEF Receivers
  <2> QED
    BY <2>1, <2>5
<1>17. ASSUME NEW g \in Guest, GuestReceives(g) PROVE TypeGuests'
  BY <1>17, Receives DEF GuestReceives
<1>18. ASSUME NEW g \in Guest, GuestLeaves(g) PROVE TypeGuests'
  BY <1>18, Receives DEF GuestLeaves
<1> QED
  BY <1>1, <1>2, <1>3, <1>4, <1>5, <1>6, <1>7, <1>8, <1>9, <1>10, <1>11, <1>12, <1>13, <1>14, <1>15,
     <1>16, <1>17, <1>18 DEF LobbyNext

LEMMA TypeSeatsStep == Base /\ LobbyNext => TypeSeats'
<1> SUFFICES ASSUME Base, LobbyNext PROVE TypeSeats'
  OBVIOUS
<1>0. TypeSeats /\ TypeThreads /\ TypeHost
  BY Parts DEF Base
<1>s. \A w \in seats : shares[w].lobby \in LobbyNo
  BY <1>0 DEF Base, ShareInv, TypeThreads, TypeSeats, ShareThreads
<1> USE <1>0, <1>s DEF TypeSeats, TypeThreads, TypeHost, hostVars, screenVars, lobbyHistory
<1>1. CASE StartLobby
  BY <1>1 DEF StartLobby, LobbyThreads
<1>2. CASE StartReturns
  BY <1>2 DEF StartReturns
<1>3. CASE StopLobby
  BY <1>3 DEF StopLobby, LobbyThreads, WithoutHeld
<1>4. CASE StopReturns
  BY <1>4 DEF StopReturns
<1>5. ASSUME NEW l \in LobbyNo, LobbyBinds(l) PROVE TypeSeats'
  BY <1>5 DEF LobbyBinds, LobbyThreads
<1>6. ASSUME NEW l \in LobbyNo, PostStatus(l) PROVE TypeSeats'
  BY <1>6 DEF PostStatus
<1>7. ASSUME NEW l \in LobbyNo, LobbyCloses(l) PROVE TypeSeats'
  BY <1>7 DEF LobbyCloses, LobbyThreads, SeatsElsewhere
<1>8. CASE SelectSave
  BY <1>8 DEF SelectSave
<1>9. CASE RefreshSaves
  BY <1>9 DEF RefreshSaves
<1>10. CASE ShareSave
  BY <1>10 DEF ShareSave, ShareThreads
<1>11. CASE StartGameHost
  BY <1>11 DEF StartGameHost
<1>12. ASSUME NEW w \in ShareNo, ShareConnects(w) PROVE TypeSeats'
  <2>1. seats' \subseteq seats \cup {w}
    BY <1>12 DEF ShareConnects, WithoutHeld
  <2>2. /\ handle \in LobbyNo /\ lobbies[handle].pc = "open" /\ shares'[w].pc = "pushing" /\ shares'[w].lobby = handle
        /\ \A v \in ShareNo : v # w => shares'[v] = shares[v]
        /\ \A k \in LobbyNo : lobbies'[k].pc = lobbies[k].pc
    BY <1>12, Connects
  <2> QED
    <3>1. seats' \subseteq ShareNo
      BY <2>1
    <3>2. ASSUME NEW v \in seats', v = w
          PROVE  shares'[v].pc # "unused" /\ lobbies'[shares'[v].lobby].pc \in {"open", "stopping"}
      BY <2>2, <3>2
    <3>3. ASSUME NEW v \in seats', v # w
          PROVE  shares'[v].pc # "unused" /\ lobbies'[shares'[v].lobby].pc \in {"open", "stopping"}
      <4>1. v \in seats /\ v \in ShareNo
        BY <2>1, <3>3
      <4>2. /\ shares[v].lobby \in LobbyNo /\ shares[v].pc # "unused"
            /\ lobbies[shares[v].lobby].pc \in {"open", "stopping"}
        BY <4>1
      <4>3. shares'[v] = shares[v] /\ lobbies'[shares[v].lobby].pc = lobbies[shares[v].lobby].pc
        BY <2>2, <3>3, <4>1, <4>2
      <4> QED
        BY <4>2, <4>3
    <3> QED
      BY <3>1, <3>2, <3>3
<1>13. ASSUME NEW w \in ShareNo, ShareStored(w) PROVE TypeSeats'
  <2>1. seats' = seats
    BY <1>13 DEF ShareStored
  <2>2. /\ shares'[w].pc = "stored" /\ \A v \in ShareNo : shares'[v].lobby = shares[v].lobby
        /\ \A v \in ShareNo : v # w => shares'[v] = shares[v]
        /\ \A k \in LobbyNo : lobbies'[k].pc = lobbies[k].pc
    BY <1>13, Stores
  <2>3. ASSUME NEW v \in seats PROVE shares'[v].pc # "unused" /\ lobbies'[shares'[v].lobby].pc \in {"open", "stopping"}
    <3>1. v \in ShareNo /\ shares[v].lobby \in LobbyNo /\ shares[v].pc # "unused"
      OBVIOUS
    <3> QED
      <4>1. lobbies[shares[v].lobby].pc \in {"open", "stopping"}
        OBVIOUS
      <4>2. /\ shares'[v].lobby = shares[v].lobby
            /\ lobbies'[shares[v].lobby].pc = lobbies[shares[v].lobby].pc
        BY <2>2, <3>1
      <4>3. shares'[v].pc # "unused"
        BY <2>2, <3>1
      <4> QED
        BY <4>1, <4>2, <4>3
  <2> QED
    BY <2>1, <2>3
<1>14. ASSUME NEW w \in ShareNo, ShareDone(w) PROVE TypeSeats'
  BY <1>14 DEF ShareDone, ShareThreads
<1>15. ASSUME NEW w \in ShareNo, ShareFails(w) PROVE TypeSeats'
  <2>1. /\ seats' \subseteq seats /\ UNCHANGED lobbies
        /\ shares' = [shares EXCEPT ![w].pc = "ended"]
    BY <1>15 DEF ShareFails, WithoutHeld
  <2>2. \A v \in ShareNo : shares'[v].lobby = shares[v].lobby /\ (v = w \/ shares'[v].pc = shares[v].pc)
    BY <2>1 DEF ShareThreads
  <2>3. shares'[w].pc = "ended"
    BY <2>1 DEF ShareThreads
  <2> QED
    BY <2>1, <2>2, <2>3
<1>16. ASSUME NEW g \in Guest, GuestJoins(g) PROVE TypeSeats'
  BY <1>16 DEF GuestJoins
<1>17. ASSUME NEW g \in Guest, GuestReceives(g) PROVE TypeSeats'
  BY <1>17 DEF GuestReceives
<1>18. ASSUME NEW g \in Guest, GuestLeaves(g) PROVE TypeSeats'
  BY <1>18 DEF GuestLeaves
<1> QED
  BY <1>1, <1>2, <1>3, <1>4, <1>5, <1>6, <1>7, <1>8, <1>9, <1>10, <1>11, <1>12, <1>13, <1>14, <1>15,
     <1>16, <1>17, <1>18 DEF LobbyNext

-----------------------------------------------------------------------------
LEMMA UnusedStep == Base /\ LobbyNext => Unused'
<1> SUFFICES ASSUME Base, LobbyNext PROVE Unused'
  OBVIOUS
<1>0. Unused
  BY DEF Base
<1> USE <1>0 DEF Unused
<1>1. CASE StartLobby
  BY <1>1, Starts DEF StartLobby
<1>2. CASE StartReturns
  BY <1>2 DEF StartReturns, hostVars, screenVars, lobbyHistory
<1>3. CASE StopLobby
  BY <1>3, Stops DEF StopLobby
<1>4. CASE StopReturns
  BY <1>4 DEF StopReturns, hostVars, screenVars, lobbyHistory
<1>5. ASSUME NEW l \in LobbyNo, LobbyBinds(l) PROVE Unused'
  BY <1>5, Binds DEF LobbyBinds
<1>6. ASSUME NEW l \in LobbyNo, PostStatus(l) PROVE Unused'
  BY <1>6 DEF PostStatus, hostVars, screenVars, lobbyHistory
<1>7. ASSUME NEW l \in LobbyNo, LobbyCloses(l) PROVE Unused'
  BY <1>7, Closes DEF LobbyCloses
<1>8. CASE SelectSave
  BY <1>8 DEF SelectSave, hostVars, screenVars, lobbyHistory
<1>9. CASE RefreshSaves
  BY <1>9 DEF RefreshSaves, hostVars, screenVars, lobbyHistory
<1>10. CASE ShareSave
  BY <1>10 DEF ShareSave, hostVars, screenVars, lobbyHistory
<1>11. CASE StartGameHost
  BY <1>11 DEF StartGameHost, hostVars, screenVars, lobbyHistory
<1>12. ASSUME NEW w \in ShareNo, ShareConnects(w) PROVE Unused'
  <2>1. lobbies[handle].pc = "open" /\ \A k \in LobbyNo : lobbies'[k].pc = lobbies[k].pc
    BY <1>12, Connects
  <2>2. \A k \in LobbyNo : k # handle => lobbies'[k].copy = lobbies[k].copy
    BY <1>12, Connects
  <2> QED
    BY <2>1, <2>2
<1>13. ASSUME NEW w \in ShareNo, ShareStored(w) PROVE Unused'
  <2>1. /\ \A k \in LobbyNo : lobbies'[k].pc = lobbies[k].pc
        /\ \A k \in LobbyNo : k # shares[w].lobby => lobbies'[k].copy = lobbies[k].copy
        /\ lobbies[shares[w].lobby].pc = "open"
    BY <1>13, Stores
  <2> QED
    BY <2>1
<1>14. ASSUME NEW w \in ShareNo, ShareDone(w) PROVE Unused'
  BY <1>14 DEF ShareDone, hostVars, screenVars, lobbyHistory
<1>15. ASSUME NEW w \in ShareNo, ShareFails(w) PROVE Unused'
  BY <1>15 DEF ShareFails, hostVars, screenVars, lobbyHistory
<1>16. ASSUME NEW g \in Guest, GuestJoins(g) PROVE Unused'
  BY <1>16 DEF GuestJoins, hostVars, screenVars, lobbyHistory
<1>17. ASSUME NEW g \in Guest, GuestReceives(g) PROVE Unused'
  BY <1>17 DEF GuestReceives, hostVars, screenVars, lobbyHistory
<1>18. ASSUME NEW g \in Guest, GuestLeaves(g) PROVE Unused'
  BY <1>18 DEF GuestLeaves, hostVars, screenVars, lobbyHistory
<1> QED
  BY <1>1, <1>2, <1>3, <1>4, <1>5, <1>6, <1>7, <1>8, <1>9, <1>10, <1>11, <1>12, <1>13, <1>14, <1>15,
     <1>16, <1>17, <1>18 DEF LobbyNext

LEMMA HandleStep == Base /\ LobbyNext => HandleInv'
<1> SUFFICES ASSUME Base, LobbyNext PROVE HandleInv'
  OBVIOUS
<1>0. HandleInv /\ handle \in {0} \cup LobbyNo
  BY Parts DEF Base, TypeHost
<1> USE <1>0 DEF HandleInv
<1>1. CASE StartLobby
  BY <1>1, Starts, Numbers DEF StartLobby
<1>2. CASE StartReturns
  BY <1>2 DEF StartReturns, hostVars, screenVars, lobbyHistory
<1>3. CASE StopLobby
  BY <1>3, Stops, Numbers DEF StopLobby
<1>4. CASE StopReturns
  BY <1>4 DEF StopReturns, hostVars, screenVars, lobbyHistory, Unsync
<1>5. ASSUME NEW l \in LobbyNo, LobbyBinds(l) PROVE HandleInv'
  <2>1. /\ lobbies[l].pc = "starting" /\ lobbies'[l].pc \in {"open", "closed"}
        /\ \A k \in LobbyNo : k # l => lobbies'[k] = lobbies[k]
    BY <1>5, Binds
  <2>2. UNCHANGED <<handle, slotBusy>>
    BY <1>5 DEF LobbyBinds, hostVars, screenVars, lobbyHistory
  <2> QED
    BY <2>1, <2>2
<1>6. ASSUME NEW l \in LobbyNo, PostStatus(l) PROVE HandleInv'
  BY <1>6 DEF PostStatus, hostVars, screenVars, lobbyHistory
<1>7. ASSUME NEW l \in LobbyNo, LobbyCloses(l) PROVE HandleInv'
  <2>1. /\ lobbies[l].pc = "stopping" /\ lobbies'[l].pc = "closed"
        /\ \A k \in LobbyNo : k # l => lobbies'[k] = lobbies[k]
    BY <1>7, Closes
  <2>2. UNCHANGED <<handle, slotBusy>>
    BY <1>7 DEF LobbyCloses, hostVars, screenVars, lobbyHistory
  <2> QED
    BY <2>1, <2>2
<1>8. CASE SelectSave
  BY <1>8 DEF SelectSave, hostVars, screenVars, lobbyHistory, Unsync
<1>9. CASE RefreshSaves
  BY <1>9 DEF RefreshSaves, hostVars, screenVars, lobbyHistory, Unsync
<1>10. CASE ShareSave
  BY <1>10 DEF ShareSave, hostVars, screenVars, lobbyHistory
<1>11. CASE StartGameHost
  BY <1>11 DEF StartGameHost, hostVars, screenVars, lobbyHistory
<1>12. ASSUME NEW w \in ShareNo, ShareConnects(w) PROVE HandleInv'
  <2>1. UNCHANGED <<handle, slotBusy>>
    BY <1>12 DEF ShareConnects, hostVars
  <2>2. \A k \in LobbyNo : lobbies'[k].pc = lobbies[k].pc
    BY <1>12, Connects
  <2> QED
    BY <2>1, <2>2
<1>13. ASSUME NEW w \in ShareNo, ShareStored(w) PROVE HandleInv'
  <2>1. UNCHANGED <<handle, slotBusy>>
    BY <1>13 DEF ShareStored, hostVars
  <2>2. \A k \in LobbyNo : lobbies'[k].pc = lobbies[k].pc
    BY <1>13, Stores
  <2> QED
    BY <2>1, <2>2
<1>14. ASSUME NEW w \in ShareNo, ShareDone(w) PROVE HandleInv'
  BY <1>14 DEF ShareDone, hostVars, screenVars, lobbyHistory
<1>15. ASSUME NEW w \in ShareNo, ShareFails(w) PROVE HandleInv'
  BY <1>15 DEF ShareFails, hostVars, screenVars, lobbyHistory
<1>16. ASSUME NEW g \in Guest, GuestJoins(g) PROVE HandleInv'
  BY <1>16 DEF GuestJoins, hostVars, screenVars, lobbyHistory
<1>17. ASSUME NEW g \in Guest, GuestReceives(g) PROVE HandleInv'
  BY <1>17 DEF GuestReceives, hostVars, screenVars, lobbyHistory
<1>18. ASSUME NEW g \in Guest, GuestLeaves(g) PROVE HandleInv'
  BY <1>18 DEF GuestLeaves, hostVars, screenVars, lobbyHistory
<1> QED
  BY <1>1, <1>2, <1>3, <1>4, <1>5, <1>6, <1>7, <1>8, <1>9, <1>10, <1>11, <1>12, <1>13, <1>14, <1>15,
     <1>16, <1>17, <1>18 DEF LobbyNext

LEMMA ShareStep == Base /\ LobbyNext => ShareInv'
<1> SUFFICES ASSUME Base, LobbyNext PROVE ShareInv'
  OBVIOUS
<1>0. ShareInv /\ held \in {0} \cup ShareNo /\ seats \subseteq ShareNo /\ \A w \in seats : shares[w].pc # "unused"
  BY Parts DEF Base, TypeHost, TypeSeats
<1> USE <1>0 DEF ShareInv
<1>1. CASE StartLobby
  BY <1>1 DEF StartLobby, hostVars, screenVars, lobbyHistory
<1>2. CASE StartReturns
  BY <1>2 DEF StartReturns, hostVars, screenVars, lobbyHistory
<1>3. CASE StopLobby
  BY <1>3, Stops DEF StopLobby, hostVars, screenVars, lobbyHistory
<1>4. CASE StopReturns
  BY <1>4 DEF StopReturns, hostVars, screenVars, lobbyHistory
<1>5. ASSUME NEW l \in LobbyNo, LobbyBinds(l) PROVE ShareInv'
  BY <1>5 DEF LobbyBinds, hostVars, screenVars, lobbyHistory
<1>6. ASSUME NEW l \in LobbyNo, PostStatus(l) PROVE ShareInv'
  BY <1>6 DEF PostStatus, hostVars, screenVars, lobbyHistory
<1>7. ASSUME NEW l \in LobbyNo, LobbyCloses(l) PROVE ShareInv'
  BY <1>7 DEF LobbyCloses, hostVars, screenVars, lobbyHistory, SeatsElsewhere
<1>8. CASE SelectSave
  BY <1>8 DEF SelectSave, hostVars, screenVars, lobbyHistory
<1>9. CASE RefreshSaves
  BY <1>9 DEF RefreshSaves, hostVars, screenVars, lobbyHistory
<1>10. CASE ShareSave
  <2>1. UNCHANGED <<seats, held>>
    BY <1>10 DEF ShareSave
  <2>2. PICK w \in ShareNo :
           /\ shares[w].pc = "unused" /\ shares'[w].pc = "begun"
           /\ \A v \in ShareNo : v # w => shares'[v] = shares[v]
           /\ \A v \in ShareNo : shares'[v].lobby = shares[v].lobby /\ shares'[v].save = shares[v].save
    BY <1>10, Begins
  <2> QED
    BY <2>1, <2>2
<1>11. CASE StartGameHost
  BY <1>11 DEF StartGameHost, hostVars, screenVars, lobbyHistory
<1>12. ASSUME NEW w \in ShareNo, ShareConnects(w) PROVE ShareInv'
  <2>1. held' = 0 /\ seats' \subseteq seats \cup {w}
    BY <1>12 DEF ShareConnects, WithoutHeld
  <2>2. /\ handle # 0 /\ selected \in Save /\ shares'[w].pc = "pushing"
        /\ shares'[w].lobby = handle /\ shares'[w].save = selected
        /\ \A v \in ShareNo : v # w => shares'[v] = shares[v]
    BY <1>12, Connects, Numbers
  <2> QED
    BY <2>1, <2>2, Constant
<1>13. ASSUME NEW w \in ShareNo, ShareStored(w) PROVE ShareInv'
  <2>1. UNCHANGED <<seats, held>>
    BY <1>13 DEF ShareStored, hostVars
  <2>2. /\ shares[w].pc = "pushing" /\ shares'[w].pc = "stored"
        /\ \A v \in ShareNo : shares'[v].lobby = shares[v].lobby /\ shares'[v].save = shares[v].save
        /\ \A v \in ShareNo : v # w => shares'[v] = shares[v]
    BY <1>13, Stores
  <2> QED
    BY <2>1, <2>2
<1>14. ASSUME NEW w \in ShareNo, ShareDone(w) PROVE ShareInv'
  <2>1. seats' = seats /\ held' = w
    BY <1>14 DEF ShareDone
  <2> QED
    BY <1>14, <2>1, Ends
<1>15. ASSUME NEW w \in ShareNo, ShareFails(w) PROVE ShareInv'
  <2>1. seats' \subseteq seats /\ held' = 0
    BY <1>15 DEF ShareFails, WithoutHeld
  <2> QED
    BY <1>15, <2>1, Ends
<1>16. ASSUME NEW g \in Guest, GuestJoins(g) PROVE ShareInv'
  BY <1>16 DEF GuestJoins, hostVars, screenVars, lobbyHistory
<1>17. ASSUME NEW g \in Guest, GuestReceives(g) PROVE ShareInv'
  BY <1>17 DEF GuestReceives, hostVars, screenVars, lobbyHistory
<1>18. ASSUME NEW g \in Guest, GuestLeaves(g) PROVE ShareInv'
  BY <1>18 DEF GuestLeaves, hostVars, screenVars, lobbyHistory
<1> QED
  BY <1>1, <1>2, <1>3, <1>4, <1>5, <1>6, <1>7, <1>8, <1>9, <1>10, <1>11, <1>12, <1>13, <1>14, <1>15,
     <1>16, <1>17, <1>18 DEF LobbyNext

LEMMA SeatStep == Base /\ SeatInv /\ LobbyNext => SeatInv'
<1> SUFFICES ASSUME Base, SeatInv, LobbyNext PROVE SeatInv'
  OBVIOUS
<1> USE DEF SeatInv
<1>1. CASE StartLobby
  BY <1>1 DEF StartLobby, hostVars, screenVars, lobbyHistory, Underway
<1>2. CASE StartReturns
  BY <1>2 DEF StartReturns, hostVars, screenVars, lobbyHistory, Underway
<1>3. CASE StopLobby
  <2>1. UNCHANGED <<shares, overlap>> /\ held' = 0 /\ seats' = seats \ {held}
    BY <1>3, Stops DEF StopLobby
  <2>2. Underway' = Underway
    BY <2>1 DEF Underway
  <2> QED
    BY <2>1, <2>2
<1>4. CASE StopReturns
  BY <1>4 DEF StopReturns, hostVars, screenVars, lobbyHistory, Underway
<1>5. ASSUME NEW l \in LobbyNo, LobbyBinds(l) PROVE SeatInv'
  BY <1>5 DEF LobbyBinds, hostVars, screenVars, lobbyHistory, Underway
<1>6. ASSUME NEW l \in LobbyNo, PostStatus(l) PROVE SeatInv'
  BY <1>6 DEF PostStatus, hostVars, screenVars, lobbyHistory, Underway
<1>7. ASSUME NEW l \in LobbyNo, LobbyCloses(l) PROVE SeatInv'
  BY <1>7 DEF LobbyCloses, hostVars, screenVars, lobbyHistory, Underway, SeatsElsewhere
<1>8. CASE SelectSave
  BY <1>8 DEF SelectSave, hostVars, screenVars, lobbyHistory, Underway
<1>9. CASE RefreshSaves
  BY <1>9 DEF RefreshSaves, hostVars, screenVars, lobbyHistory, Underway
<1>10. CASE ShareSave
  <2>1. seats' = seats /\ held' = held /\ (~overlap' => ~overlap /\ Underway = {})
    BY <1>10 DEF ShareSave
  <2>2. PICK w \in ShareNo :
           /\ shares[w].pc = "unused" /\ shares'[w].pc = "begun"
           /\ \A v \in ShareNo : v # w => shares'[v] = shares[v]
    BY <1>10, Begins
  <2>3. Underway' = Underway \cup {w}
    BY <2>2 DEF Underway
  <2> QED
    BY <2>1, <2>2, <2>3
<1>11. CASE StartGameHost
  BY <1>11 DEF StartGameHost, hostVars, screenVars, lobbyHistory, Underway
<1>12. ASSUME NEW w \in ShareNo, ShareConnects(w) PROVE SeatInv'
  <2>1. held' = 0 /\ seats' = (seats \ {held}) \cup {w} /\ overlap' = overlap
    BY <1>12 DEF ShareConnects, WithoutHeld, lobbyHistory
  <2>2. shares[w].pc = "begun" /\ shares'[w].pc = "pushing" /\ \A v \in ShareNo : v # w => shares'[v] = shares[v]
    BY <1>12, Connects
  <2>3. Underway' = Underway /\ w \in Underway
    BY <2>2 DEF Underway
  <2> QED
    BY <2>1, <2>3
<1>13. ASSUME NEW w \in ShareNo, ShareStored(w) PROVE SeatInv'
  <2>1. UNCHANGED <<held, seats, overlap>>
    BY <1>13 DEF ShareStored, hostVars, lobbyHistory
  <2>2. shares[w].pc = "pushing" /\ shares'[w].pc = "stored" /\ \A v \in ShareNo : v # w => shares'[v] = shares[v]
    BY <1>13, Stores
  <2>3. Underway' = Underway
    BY <2>2 DEF Underway
  <2> QED
    BY <2>1, <2>2, <2>3 DEF Underway
<1>14. ASSUME NEW w \in ShareNo, ShareDone(w) PROVE SeatInv'
  <2>1. seats' = seats /\ held' = w /\ overlap' = overlap /\ shares[w].pc = "stored"
    BY <1>14 DEF ShareDone, lobbyHistory
  <2>2. w \in Underway /\ Underway' = Underway \ {w}
    BY <1>14, Ends
  <2>3. seats \subseteq ShareNo
    BY Parts DEF Base, TypeSeats
  <2> QED
    BY <2>1, <2>2, <2>3, Numbers
<1>15. ASSUME NEW w \in ShareNo, ShareFails(w) PROVE SeatInv'
  <2>1. /\ held' = 0 /\ overlap' = overlap
        /\ seats' = IF shares[w].pc = "begun" THEN seats \ {held} ELSE seats \ {w}
    BY <1>15 DEF ShareFails, WithoutHeld
  <2>2. w \in Underway /\ Underway' = Underway \ {w}
    BY <1>15, Ends
  <2>3. shares[w].pc = "begun" => w \notin seats
    BY DEF Base, ShareInv
  <2>4. seats \subseteq ShareNo
    BY Parts DEF Base, TypeSeats
  <2> QED
    BY <2>1, <2>2, <2>3, <2>4, Numbers
<1>16. ASSUME NEW g \in Guest, GuestJoins(g) PROVE SeatInv'
  BY <1>16 DEF GuestJoins, hostVars, screenVars, lobbyHistory, Underway
<1>17. ASSUME NEW g \in Guest, GuestReceives(g) PROVE SeatInv'
  BY <1>17 DEF GuestReceives, hostVars, screenVars, lobbyHistory, Underway
<1>18. ASSUME NEW g \in Guest, GuestLeaves(g) PROVE SeatInv'
  BY <1>18 DEF GuestLeaves, hostVars, screenVars, lobbyHistory, Underway
<1> QED
  BY <1>1, <1>2, <1>3, <1>4, <1>5, <1>6, <1>7, <1>8, <1>9, <1>10, <1>11, <1>12, <1>13, <1>14, <1>15,
     <1>16, <1>17, <1>18 DEF LobbyNext

-----------------------------------------------------------------------------
LEMMA FollowStep == Base /\ FollowInv /\ LobbyNext => FollowInv'
<1> SUFFICES ASSUME Base, FollowInv, LobbyNext PROVE FollowInv'
  OBVIOUS
<1>0. /\ TypeThreads /\ \A g \in Guest : guests[g].lobby \in {0} \cup LobbyNo
      /\ \A w \in ShareNo : shares[w].pc = "pushing" => shares[w].lobby \in LobbyNo
  <2>1. TypeThreads /\ TypeGuests /\ ShareInv
    BY Parts DEF Base
  <2> QED
    BY <2>1 DEF TypeThreads, TypeGuests, Receivers, ShareThreads, ShareInv
<1> USE <1>0 DEF FollowInv, WaitingIsServed, TypeThreads
<1>1. CASE StartLobby
  <2>1. UNCHANGED <<shares, guests>>
    BY <1>1 DEF StartLobby
  <2>2. \A k \in LobbyNo : lobbies'[k].copy = lobbies[k].copy
    BY <1>1, Starts
  <2> QED
    BY <2>1, <2>2
<1>2. CASE StartReturns
  BY <1>2 DEF StartReturns, hostVars, screenVars, lobbyHistory
<1>3. CASE StopLobby
  <2>1. UNCHANGED <<shares, guests>>
    BY <1>3 DEF StopLobby
  <2>2. \A k \in LobbyNo : lobbies'[k].copy = lobbies[k].copy
    BY <1>3, Stops
  <2> QED
    BY <2>1, <2>2
<1>4. CASE StopReturns
  BY <1>4 DEF StopReturns, hostVars, screenVars, lobbyHistory
<1>5. ASSUME NEW l \in LobbyNo, LobbyBinds(l) PROVE FollowInv'
  <2>1. UNCHANGED <<shares, guests>>
    BY <1>5 DEF LobbyBinds
  <2>2. \A k \in LobbyNo : lobbies'[k].copy = lobbies[k].copy
    BY <1>5, Binds
  <2> QED
    BY <2>1, <2>2
<1>6. ASSUME NEW l \in LobbyNo, PostStatus(l) PROVE FollowInv'
  BY <1>6 DEF PostStatus, hostVars, screenVars, lobbyHistory
<1>7. ASSUME NEW l \in LobbyNo, LobbyCloses(l) PROVE FollowInv'
  <2>1. shares' = shares
    BY <1>7 DEF LobbyCloses
  <2>2. \A k \in LobbyNo : lobbies'[k].copy = lobbies[k].copy
    BY <1>7, Closes
  <2>3. \A g \in Guest : guests'[g] = guests[g] \/ guests'[g].lobby = 0
    BY <1>7, Closes
  <2> QED
    BY <2>1, <2>2, <2>3
<1>8. CASE SelectSave
  BY <1>8 DEF SelectSave, hostVars, screenVars, lobbyHistory
<1>9. CASE RefreshSaves
  BY <1>9 DEF RefreshSaves, hostVars, screenVars, lobbyHistory
<1>10. CASE ShareSave
  <2>1. UNCHANGED <<lobbies, guests>>
    BY <1>10 DEF ShareSave
  <2>2. PICK w \in ShareNo :
           /\ shares[w].pc = "unused" /\ shares'[w].pc = "begun"
           /\ \A v \in ShareNo : v # w => shares'[v] = shares[v]
    BY <1>10, Begins
  <2> QED
    BY <2>1, <2>2
<1>11. CASE StartGameHost
  BY <1>11 DEF StartGameHost, hostVars, screenVars, lobbyHistory
<1>12. ASSUME NEW w \in ShareNo, ShareConnects(w) PROVE FollowInv'
  <2>1. /\ handle \in LobbyNo /\ selected \in Save /\ selected # NoSave
        /\ lobbies[handle].copy \in Copies /\ lobbies'[handle].copy = Opened(lobbies[handle].copy, selected)
        /\ \A k \in LobbyNo : k # handle => lobbies'[k].copy = lobbies[k].copy
    BY <1>12, Connects, Constant DEF LobbyThreads
  <2>2. /\ lobbies'[handle].copy.save # NoSave
        /\ lobbies[handle].copy.save = NoSave \/ lobbies[handle].copy.open => lobbies'[handle].copy.open
    BY <2>1 DEF Opened, Copies
  <2>3. /\ shares'[w].pc = "pushing" /\ shares'[w].lobby = handle
        /\ \A v \in ShareNo : v # w => shares'[v] = shares[v]
    BY <1>12, Connects
  <2>4. \A g \in Guest :
              /\ guests'[g].pc = guests[g].pc /\ guests'[g].lobby = guests[g].lobby
              /\ guests'[g].late = guests[g].late /\ guests'[g].inbox = guests[g].inbox
              /\ guests[g].follows \subseteq guests'[g].follows
              /\ guests[g].lobby = handle => w \in guests'[g].follows
    BY <1>12, Connects
  <2>5. \A v \in ShareNo : shares'[v].pc = "pushing" => lobbies'[shares'[v].lobby].copy.save # NoSave
    BY <2>1, <2>2, <2>3
  <2>6. WaitingIsServed'
    BY <2>1, <2>2, <2>4
  <2>7. ASSUME NEW g \in Guest, NEW v \in ShareNo, guests'[g].pc = "waiting", guests'[g].lobby # 0,
               ~guests'[g].late, shares'[v].pc = "pushing", shares'[v].lobby = guests'[g].lobby
        PROVE  v \in guests'[g].follows \/ guests'[g].inbox # {}
    BY <2>3, <2>4, <2>7
  <2> QED
    BY <2>5, <2>6, <2>7
<1>13. ASSUME NEW w \in ShareNo, ShareStored(w) PROVE FollowInv'
  <2> DEFINE l == shares[w].lobby
  <2>1. /\ l \in LobbyNo /\ shares[w].save \in Save /\ shares[w].save # NoSave
        /\ lobbies[l].copy \in Copies /\ lobbies'[l].copy = Completed(lobbies[l].copy, shares[w].save)
        /\ \A k \in LobbyNo : k # l => lobbies'[k].copy = lobbies[k].copy
    BY <1>13, Stores, Constant DEF LobbyThreads
  <2>2. lobbies'[l].copy.save # NoSave
    <3>1. Completed(lobbies[l].copy, shares[w].save).save = shares[w].save
      BY <2>1, CompletedTyped
    <3> QED
      BY <2>1, <3>1
  <2>3. /\ shares[w].pc = "pushing" /\ shares'[w].pc = "stored"
        /\ \A v \in ShareNo : v # w => shares'[v] = shares[v]
    BY <1>13, Stores
  <2>4. \A g \in Guest :
              /\ guests'[g].pc = guests[g].pc /\ guests'[g].lobby = guests[g].lobby
              /\ guests'[g].late = guests[g].late /\ guests'[g].follows = guests[g].follows
              /\ guests[g].inbox \subseteq guests'[g].inbox
              /\ guests[g].lobby = l /\ w \in guests[g].follows => guests'[g].inbox # {}
    BY <1>13, Stores
  <2> HIDE DEF l
  <2>5. \A v \in ShareNo : shares'[v].pc = "pushing" => lobbies'[shares'[v].lobby].copy.save # NoSave
    BY <2>1, <2>2, <2>3
  <2>6. \A g \in Guest : \A v \in ShareNo :
          guests'[g].pc = "waiting" /\ guests'[g].lobby # 0 /\ ~guests'[g].late
          /\ shares'[v].pc = "pushing" /\ shares'[v].lobby = guests'[g].lobby
            => v \in guests'[g].follows \/ guests'[g].inbox # {}
    BY <2>3, <2>4
  <2>7. WaitingIsServed'
    <3> SUFFICES ASSUME NEW g \in Guest, guests'[g].pc = "waiting", guests'[g].lobby # 0, ~guests'[g].late
                 PROVE  \/ lobbies'[guests'[g].lobby].copy.save = NoSave
                        \/ lobbies'[guests'[g].lobby].copy.open
                        \/ guests'[g].inbox # {}
      OBVIOUS
    <3>1. guests[g].pc = "waiting" /\ guests[g].lobby \in LobbyNo /\ guests'[g].lobby = guests[g].lobby /\ ~guests[g].late
      BY <2>4
    <3>2. CASE guests[g].lobby = l
      BY <2>3, <2>4, <3>1, <3>2 DEF l
    <3>3. CASE guests[g].lobby # l
      BY <2>1, <2>4, <3>1, <3>3
    <3> QED
      BY <3>2, <3>3
  <2> QED
    BY <2>5, <2>6, <2>7
<1>14. ASSUME NEW w \in ShareNo, ShareDone(w) PROVE FollowInv'
  <2>1. UNCHANGED <<lobbies, guests>>
    BY <1>14 DEF ShareDone
  <2>2. shares'[w].pc = "ended" /\ \A v \in ShareNo : v # w => shares'[v] = shares[v]
    BY <1>14, Ends
  <2> QED
    BY <2>1, <2>2
<1>15. ASSUME NEW w \in ShareNo, ShareFails(w) PROVE FollowInv'
  <2>1. UNCHANGED <<lobbies, guests>>
    BY <1>15 DEF ShareFails
  <2>2. shares'[w].pc = "ended" /\ \A v \in ShareNo : v # w => shares'[v] = shares[v]
    BY <1>15, Ends
  <2> QED
    BY <2>1, <2>2
<1>16. ASSUME NEW g \in Guest, GuestJoins(g) PROVE FollowInv'
  <2>1. UNCHANGED <<lobbies, shares>>
    BY <1>16 DEF GuestJoins
  <2>2. PICK l \in LobbyNo : guests' = [guests EXCEPT ![g] =
            [pc |-> "waiting", lobby |-> l, follows |-> {}, late |-> lobbies[l].copy.open,
             inbox |-> Replayed(l), got |-> @.got]]
    BY <1>16 DEF GuestJoins
  <2>3. /\ guests'[g].lobby = l /\ guests'[g].late = lobbies[l].copy.open /\ guests'[g].inbox = Replayed(l)
        /\ \A h \in Guest : h # g => guests'[h] = guests[h]
    <3>1. guests \in [Guest -> Receivers]
      BY Parts DEF Base, TypeGuests
    <3> QED
      BY <2>2, <3>1
  <2>4. lobbies[l].copy.save # NoSave /\ ~lobbies[l].copy.open => Replayed(l) # {}
    BY DEF Replayed
  <2>5. \A v \in ShareNo : shares'[v].pc = "pushing" => lobbies'[shares'[v].lobby].copy.save # NoSave
    BY <2>1
  <2>6. \A h \in Guest : \A v \in ShareNo :
          guests'[h].pc = "waiting" /\ guests'[h].lobby # 0 /\ ~guests'[h].late
          /\ shares'[v].pc = "pushing" /\ shares'[v].lobby = guests'[h].lobby
            => v \in guests'[h].follows \/ guests'[h].inbox # {}
    BY <2>1, <2>3, <2>4
  <2>7. WaitingIsServed'
    BY <2>1, <2>3, <2>4
  <2> QED
    BY <2>5, <2>6, <2>7
<1>17. ASSUME NEW g \in Guest, GuestReceives(g) PROVE FollowInv'
  <2>1. UNCHANGED <<lobbies, shares>>
    BY <1>17 DEF GuestReceives
  <2>2. guests'[g].pc # "waiting" /\ \A h \in Guest : h # g => guests'[h] = guests[h]
    BY <1>17, Receives
  <2> QED
    BY <2>1, <2>2
<1>18. ASSUME NEW g \in Guest, GuestLeaves(g) PROVE FollowInv'
  <2>1. UNCHANGED <<lobbies, shares>>
    BY <1>18 DEF GuestLeaves
  <2>2. guests'[g].pc # "waiting" /\ \A h \in Guest : h # g => guests'[h] = guests[h]
    BY <1>18, Receives
  <2> QED
    BY <2>1, <2>2
<1> QED
  BY <1>1, <1>2, <1>3, <1>4, <1>5, <1>6, <1>7, <1>8, <1>9, <1>10, <1>11, <1>12, <1>13, <1>14, <1>15,
     <1>16, <1>17, <1>18 DEF LobbyNext

-----------------------------------------------------------------------------
LEMMA Whole == \A s \in Save \cup {NoSave} : WholeCopy(s).sound /\ ~WholeCopy(s).open
BY DEF WholeCopy

\* What CopyInv says is of the choice, the shares and the copies.
LEMMA Copied ==
  ASSUME Base, CopyInv,
         UNCHANGED <<handle, slotBusy, selected, synced, shares, disturbed>>,
         \A k \in LobbyNo : lobbies'[k].copy = lobbies[k].copy
  PROVE  CopyInv'
<1>1. Underway' = Underway
  BY DEF Underway
<1>2. handle # 0 => lobbies'[handle].copy = lobbies[handle].copy
  BY Parts DEF Base, TypeHost
<1>3. ~disturbed /\ Underway # {} => handle # 0
  BY DEF CopyInv
<1> QED
  BY <1>1, <1>2, <1>3 DEF CopyInv

LEMMA CopyStep == Base /\ CopyInv /\ LobbyNext => CopyInv'
<1> SUFFICES ASSUME Base, CopyInv, LobbyNext PROVE CopyInv'
  OBVIOUS
<1>1. CASE StartLobby
  <2>1. /\ handle' \in LobbyNo /\ slotBusy' = "starting" /\ lobbies[handle'].pc = "unused"
        /\ lobbies'[handle'].copy = lobbies[handle'].copy
    BY <1>1, Starts
  <2>2. lobbies[handle'].copy = NoCopy
    BY <2>1 DEF Base, Unused
  <2>3. shares' = shares /\ synced' = synced /\ (~disturbed' => ~synced /\ Underway = {})
    BY <1>1 DEF StartLobby, screenVars
  <2>4. Underway' = Underway
    BY <2>3 DEF Underway
  <2> QED
    BY <2>1, <2>2, <2>3, <2>4, NoCopyTyped DEF CopyInv, Underway
<1>2. CASE StartReturns
  <2>1. /\ slotBusy = "starting" /\ slotBusy' = "" /\ handle' \in {0, handle}
        /\ UNCHANGED <<selected, synced, shares, lobbies, disturbed>>
    BY <1>2 DEF StartReturns, screenVars
  <2>2. Underway' = Underway
    BY <2>1 DEF Underway
  <2> QED
    BY <2>1, <2>2 DEF CopyInv, Underway
<1>3. CASE StopLobby
  <2>1. /\ slotBusy' = "stopping" /\ handle' = handle /\ handle \in LobbyNo
        /\ \A k \in LobbyNo : lobbies'[k].copy = lobbies[k].copy
    BY <1>3, Stops
  <2>2. UNCHANGED <<selected, synced, shares>> /\ (~disturbed' => ~disturbed /\ Underway = {})
    BY <1>3 DEF StopLobby, screenVars
  <2>3. Underway' = Underway
    BY <2>2 DEF Underway
  <2> QED
    BY <2>1, <2>2, <2>3 DEF CopyInv, Underway
<1>4. CASE StopReturns
  <2>1. /\ slotBusy = "stopping" /\ slotBusy' = "" /\ handle' = 0 /\ synced' = FALSE
        /\ UNCHANGED <<shares, lobbies, disturbed>>
    BY <1>4 DEF StopReturns, Unsync
  <2>2. Underway' = Underway
    BY <2>1 DEF Underway
  <2> QED
    BY <2>1, <2>2 DEF CopyInv, Underway
<1>5. ASSUME NEW l \in LobbyNo, LobbyBinds(l) PROVE CopyInv'
  <2>1. UNCHANGED <<handle, slotBusy, selected, synced, shares, disturbed>> /\ \A k \in LobbyNo : lobbies'[k].copy = lobbies[k].copy
    BY <1>5, Binds DEF LobbyBinds, hostVars, screenVars, lobbyHistory
  <2> QED
    BY <2>1, Copied
<1>6. ASSUME NEW l \in LobbyNo, PostStatus(l) PROVE CopyInv'
  <2>1. UNCHANGED <<handle, slotBusy, selected, synced, shares, disturbed>> /\ \A k \in LobbyNo : lobbies'[k].copy = lobbies[k].copy
    BY <1>6 DEF PostStatus, hostVars, screenVars, lobbyHistory
  <2> QED
    BY <2>1, Copied
<1>7. ASSUME NEW l \in LobbyNo, LobbyCloses(l) PROVE CopyInv'
  <2>1. UNCHANGED <<handle, slotBusy, selected, synced, shares, disturbed>> /\ \A k \in LobbyNo : lobbies'[k].copy = lobbies[k].copy
    BY <1>7, Closes DEF LobbyCloses, hostVars, screenVars, lobbyHistory
  <2> QED
    BY <2>1, Copied
<1>8. CASE SelectSave
  <2>1. /\ synced' = FALSE /\ UNCHANGED <<handle, slotBusy, shares, lobbies>>
        /\ slotBusy = "" /\ (~disturbed' => ~disturbed /\ Underway = {})
    BY <1>8 DEF SelectSave, Unsync
  <2>2. Underway' = Underway
    BY <2>1 DEF Underway
  <2> QED
    BY <2>1, <2>2 DEF CopyInv, Underway
<1>9. CASE RefreshSaves
  <2>1. /\ synced' = FALSE \/ synced' = synced
        /\ UNCHANGED <<handle, slotBusy, shares, lobbies>> /\ slotBusy = ""
        /\ ~disturbed' => ~disturbed /\ (selected' = selected \/ (~synced /\ Underway = {}))
    BY <1>9 DEF RefreshSaves, Unsync
  <2>2. Underway' = Underway
    BY <2>1 DEF Underway
  <2> QED
    BY <2>1, <2>2 DEF CopyInv, Underway
<1>10. CASE ShareSave
  <2>1. /\ slotBusy = "" /\ handle # 0 /\ UNCHANGED <<handle, slotBusy, selected, synced, lobbies>>
        /\ ~disturbed' => ~disturbed /\ Underway = {}
    BY <1>10 DEF ShareSave
  <2>2. PICK w \in ShareNo :
           /\ shares[w].pc = "unused" /\ shares'[w].pc = "begun"
           /\ \A v \in ShareNo : v # w => shares'[v] = shares[v]
    BY <1>10, Begins
  <2>3. Underway' = Underway \cup {w}
    BY <2>2 DEF Underway
  <2> QED
    BY <2>1, <2>2, <2>3 DEF CopyInv, Underway
<1>11. CASE StartGameHost
  <2>1. UNCHANGED <<handle, slotBusy, selected, synced, shares, disturbed>> /\ \A k \in LobbyNo : lobbies'[k].copy = lobbies[k].copy
    BY <1>11 DEF StartGameHost, hostVars, screenVars, lobbyHistory
  <2> QED
    BY <2>1, Copied
<1>12. ASSUME NEW w \in ShareNo, ShareConnects(w) PROVE CopyInv'
  <2>1. UNCHANGED <<handle, slotBusy, selected, synced, disturbed>> /\ handle # 0
    BY <1>12 DEF ShareConnects, screenVars, lobbyHistory
  <2>2. /\ handle \in LobbyNo /\ selected \in Save /\ shares[w].pc = "begun" /\ shares'[w].pc = "pushing"
        /\ shares'[w].lobby = handle /\ shares'[w].save = selected
        /\ \A v \in ShareNo : v # w => shares'[v] = shares[v]
        /\ lobbies'[handle].copy = Opened(lobbies[handle].copy, selected)
    BY <1>12, Connects
  <2>3. Underway' = Underway /\ w \in Underway
    BY <2>2 DEF Underway
  <2>4. SUFFICES ASSUME ~disturbed PROVE CopyInv'
    BY <2>1 DEF CopyInv
  <2>5. Underway = {w} /\ slotBusy = ""
    BY <2>3, <2>4 DEF CopyInv
  <2>6. lobbies[handle].copy \in Copies /\ lobbies[handle].copy.sound /\ ~lobbies[handle].copy.open
    <3>1. lobbies[handle].copy \in Copies
      BY <2>2, Parts DEF Base, TypeThreads, LobbyThreads
    <3>2. \A v \in ShareNo : shares[v].pc # "pushing"
      BY <2>2, <2>5 DEF Underway
    <3> QED
      BY <2>1, <2>4, <3>1, <3>2 DEF CopyInv
  <2>7. /\ lobbies'[handle].copy.sound /\ lobbies'[handle].copy.save = selected
        /\ lobbies[handle].copy.save = selected => lobbies'[handle].copy = lobbies[handle].copy
    BY <2>2, <2>6 DEF Opened, Copies
  <2>8. synced => lobbies'[handle].copy = WholeCopy(selected)
    <3>1. synced => lobbies[handle].copy = WholeCopy(selected)
      BY <2>1, <2>4, <2>5, <2>6 DEF CopyInv
    <3> QED
      BY <2>7, <3>1 DEF WholeCopy
  <2> QED
    BY <2>1, <2>2, <2>3, <2>5, <2>7, <2>8 DEF CopyInv
<1>13. ASSUME NEW w \in ShareNo, ShareStored(w) PROVE CopyInv'
  <2>1. UNCHANGED <<handle, slotBusy, selected, synced, disturbed>>
    BY <1>13 DEF ShareStored, hostVars, screenVars, lobbyHistory
  <2>2. /\ shares[w].pc = "pushing" /\ shares'[w].pc = "stored"
        /\ shares'[w].lobby = shares[w].lobby /\ shares'[w].save = shares[w].save
        /\ \A v \in ShareNo : v # w => shares'[v] = shares[v]
        /\ shares[w].lobby \in LobbyNo
        /\ lobbies'[shares[w].lobby].copy = Completed(lobbies[shares[w].lobby].copy, shares[w].save)
    BY <1>13, Stores
  <2>3. Underway' = Underway /\ w \in Underway
    BY <2>2 DEF Underway
  <2>4. SUFFICES ASSUME ~disturbed PROVE CopyInv'
    BY <2>1 DEF CopyInv
  <2>5. /\ Underway = {w} /\ slotBusy = "" /\ handle \in LobbyNo
        /\ shares[w].lobby = handle /\ shares[w].save = selected
        /\ lobbies[handle].copy.save = selected /\ lobbies[handle].copy.sound
    BY <2>2, <2>3, <2>4, Numbers DEF CopyInv
  <2>6. lobbies[handle].copy \in Copies
    BY <2>5, Parts DEF Base, TypeThreads, LobbyThreads
  <2>7. lobbies'[handle].copy = WholeCopy(selected)
    BY <2>2, <2>5, <2>6 DEF Completed, Copies, WholeCopy
  <2>8. lobbies'[handle].copy.sound /\ ~lobbies'[handle].copy.open
    BY <2>7 DEF WholeCopy
  <2> QED
    BY <2>1, <2>2, <2>3, <2>5, <2>7, <2>8 DEF CopyInv
<1>14. ASSUME NEW w \in ShareNo, ShareDone(w) PROVE CopyInv'
  <2>1. UNCHANGED <<handle, slotBusy, selected, lobbies, disturbed>> /\ shares[w].pc = "stored"
    BY <1>14 DEF ShareDone, lobbyHistory
  <2>2. w \in Underway /\ Underway' = Underway \ {w}
    BY <1>14, Ends
  <2>3. SUFFICES ASSUME ~disturbed PROVE CopyInv'
    BY <2>1 DEF CopyInv
  <2>4. Underway = {w} /\ slotBusy = "" /\ handle # 0 /\ lobbies[handle].copy = WholeCopy(selected)
    BY <2>1, <2>2, <2>3 DEF CopyInv
  <2>5. lobbies[handle].copy.sound /\ ~lobbies[handle].copy.open
    BY <2>4, Whole, Parts DEF Base, TypeHost
  <2>6. Underway' = {}
    BY <2>2, <2>4
  <2> QED
    BY <2>1, <2>4, <2>5, <2>6 DEF CopyInv
<1>15. ASSUME NEW w \in ShareNo, ShareFails(w) PROVE CopyInv'
  <2>1. UNCHANGED <<handle, slotBusy, selected, synced, lobbies>> /\ (~disturbed' => ~disturbed /\ shares[w].pc = "begun")
    BY <1>15 DEF ShareFails
  <2>2. w \in Underway /\ Underway' = Underway \ {w}
    BY <1>15, Ends
  <2>3. SUFFICES ASSUME ~disturbed, shares[w].pc = "begun" PROVE CopyInv'
    BY <2>1 DEF CopyInv
  <2>4. Underway = {w} /\ slotBusy = "" /\ handle # 0
    BY <2>2, <2>3 DEF CopyInv
  <2>5. \A v \in ShareNo : shares[v].pc # "pushing"
    BY <2>3, <2>4 DEF Underway
  <2>6. lobbies[handle].copy.sound /\ ~lobbies[handle].copy.open
    BY <2>3, <2>4, <2>5 DEF CopyInv
  <2> QED
    BY <2>1, <2>2, <2>3, <2>4, <2>6 DEF CopyInv
<1>16. ASSUME NEW g \in Guest, GuestJoins(g) PROVE CopyInv'
  <2>1. UNCHANGED <<handle, slotBusy, selected, synced, shares, disturbed>> /\ \A k \in LobbyNo : lobbies'[k].copy = lobbies[k].copy
    BY <1>16 DEF GuestJoins, hostVars, screenVars, lobbyHistory
  <2> QED
    BY <2>1, Copied
<1>17. ASSUME NEW g \in Guest, GuestReceives(g) PROVE CopyInv'
  <2>1. UNCHANGED <<handle, slotBusy, selected, synced, shares, disturbed>> /\ \A k \in LobbyNo : lobbies'[k].copy = lobbies[k].copy
    BY <1>17 DEF GuestReceives, hostVars, screenVars, lobbyHistory
  <2> QED
    BY <2>1, Copied
<1>18. ASSUME NEW g \in Guest, GuestLeaves(g) PROVE CopyInv'
  <2>1. UNCHANGED <<handle, slotBusy, selected, synced, shares, disturbed>> /\ \A k \in LobbyNo : lobbies'[k].copy = lobbies[k].copy
    BY <1>18 DEF GuestLeaves, hostVars, screenVars, lobbyHistory
  <2> QED
    BY <2>1, Copied
<1> QED
  BY <1>1, <1>2, <1>3, <1>4, <1>5, <1>6, <1>7, <1>8, <1>9, <1>10, <1>11, <1>12, <1>13, <1>14, <1>15,
     <1>16, <1>17, <1>18 DEF LobbyNext

-----------------------------------------------------------------------------
LEMMA BaseStep == Base /\ LobbyNext => Base'
<1> SUFFICES ASSUME Base, LobbyNext PROVE Base'
  OBVIOUS
<1>1. LobbyTypeOK'
  BY TypeHostStep, TypeFlagsStep, TypeThreadsStep, TypeGuestsStep, TypeSeatsStep, Parts, PTL
<1> QED
  BY <1>1, UnusedStep, HandleStep, ShareStep DEF Base

LEMMA Stutter == IInv /\ UNCHANGED launcherVars => IInv'
<1> SUFFICES ASSUME IInv, UNCHANGED launcherVars PROVE IInv'
  OBVIOUS
<1>1. UNCHANGED <<handle, slotBusy, held, selected, synced, canShare, canStart, present, lobbies, shares, seats,
                  guests, trips, overlap, disturbed>>
  BY DEF launcherVars, hostVars, screenVars, lobbyHistory
<1>2. Base'
  <2>1. LobbyTypeOK'
    <3>1. TypeHost' /\ TypeFlags'
      BY <1>1, Parts DEF IInv, Base, TypeHost, TypeFlags
    <3>2. TypeThreads' /\ TypeGuests'
      BY <1>1, Parts DEF IInv, Base, TypeThreads, TypeGuests
    <3>3. TypeSeats'
      BY <1>1, Parts DEF IInv, Base, TypeSeats
    <3> QED
      BY <3>1, <3>2, <3>3, Parts, PTL
  <2>2. Unused' /\ HandleInv'
    BY <1>1 DEF IInv, Base, Unused, HandleInv
  <2>3. ShareInv'
    BY <1>1 DEF IInv, Base, ShareInv
  <2> QED
    BY <2>1, <2>2, <2>3 DEF Base
<1>3. SeatInv'
  BY <1>1 DEF IInv, SeatInv, Underway
<1>4. FollowInv'
  BY <1>1 DEF IInv, FollowInv, WaitingIsServed
<1>5. CopyInv'
  <2>1. CopyInv
    BY DEF IInv
  <2>2. Underway' = Underway
    BY <1>1 DEF Underway
  <2> QED
    BY <1>1, <2>1, <2>2 DEF CopyInv
<1> QED
  BY <1>2, <1>3, <1>4, <1>5 DEF IInv

LEMMA Inductive == LobbySpec => []IInv
<1>1. LobbyInit => IInv
  BY InitIInv
<1>2. IInv /\ [LobbyNext]_launcherVars => IInv'
  BY BaseStep, SeatStep, FollowStep, CopyStep, Stutter DEF IInv
<1> QED
  BY <1>1, <1>2, PTL DEF LobbySpec

\* The state of the launchers and their threads keeps its types, and a seat is
\* always one of a share that ran, in a lobby that is not closed
\* (launcher_lobby.py, launcher_setup.py, lobby.py).
THEOREM LobbyTypeCorrect == LobbySpec => []LobbyTypeOK
<1>1. IInv => LobbyTypeOK
  BY DEF IInv, Base
<1> QED
  BY <1>1, Inductive, PTL

\* While the page says the save is shared, and no share was disturbed, the open
\* lobby serves a whole copy of the selected save (launcher_lobby._on_share_done,
\* launcher_setup.selectSave).
THEOREM SharedCopyIsSelected == LobbySpec => []SharedIsSelected
<1>1. IInv => SharedIsSelected
  BY DEF IInv, CopyInv, SharedIsSelected, WholeCopy
<1> QED
  BY <1>1, Inductive, PTL

\* Shares that run one at a time leave no seat behind that nobody closes
\* (launcher_lobby._disconnect_held).
THEOREM NoSeatIsForgotten == LobbySpec => []SeatsAreHeld
<1>1. IInv => SeatsAreHeld
  BY DEF IInv, SeatInv, SeatsAreHeld
<1> QED
  BY <1>1, Inductive, PTL

\* A guest that joined between two pushes never waits for a save the lobby has
\* (lobby.receive_save_file).
THEOREM NoGuestWaitsInVain == LobbySpec => []WaitingIsServed
<1>1. IInv => WaitingIsServed
  BY DEF IInv, FollowInv
<1> QED
  BY <1>1, Inductive, PTL
-----------------------------------------------------------------------------
\* The updater.

Busy == check.pc \in {"download", "record"}

\* The check under way: it plans against the record, what it wrote is what it
\* fetched, and it has everything written when it comes to record.
CheckInv ==
  /\ ~Busy => written = {}
  /\ Busy => /\ check.target \in DOMAIN published
             /\ changed = PlanUpdate(check.target)
             /\ check.left \subseteq changed
             /\ \A f \in written : disk[f] = published[check.target][f]
  /\ Busy /\ ~check.failed => changed = written \cup check.left
  /\ check.pc = "record" => check.left = {} /\ ~check.failed
  /\ check.pc # "idle" => running

\* A thread that is not in cmd_dev has nothing to copy, one that removes the
\* folder everything; the check's is in it once the release is recorded.
CopierInv ==
  /\ \A th \in Thread : /\ At(th, "idle") => copier[th].left = {}
                        /\ At(th, "wipe") => copier[th].left = Feeds
                        /\ ~At(th, "idle") => running
  /\ ~At(Checker, "idle") => check.pc = "reinstall"

UpdateBase == UpdateTypeOK /\ CheckInv /\ CopierInv

\* The steps of cmd_dev.
Installs ==
  \/ \E th \in Thread :
       \/ InstallMod(th) \/ Audited(th) \/ Wipe(th) \/ Wiped(th)
       \/ Copy(th) \/ Installed(th) \/ InstallFails(th)
  \/ AuditExits

-----------------------------------------------------------------------------
LEMMA UpdateConstant ==
  /\ Absent \notin Digest
  /\ ScriptFile \subseteq File /\ SharedFile \subseteq File /\ Checker \notin Installer
  /\ MaxAge \in Nat /\ MaxRelease \in Nat \ {0} /\ MaxTrouble \in Nat
BY UpdateConstants DEF UpdateConstants

LEMMA FeedsAreFiles == Feeds \subseteq File
BY UpdateConstant DEF Feeds

LEMMA IdleIsCheck == IdleCheck \in Checks
<1>1. 0 \in 0..MaxRelease
  BY UpdateConstant
<1> QED
  BY <1>1 DEF IdleCheck, Checks

LEMMA IdleIsCopier == IdleCopier \in Copiers /\ IdleCopier.pc = "idle" /\ IdleCopier.left = {}
BY DEF IdleCopier, Copiers

\* What the steps of cmd_dev leave alone, and what they do to the check.
LEMMA InstallsKeep ==
  ASSUME Installs
  PROVE  /\ UNCHANGED copyVars
         /\ check' \in {check, IdleCheck, [IdleCheck EXCEPT !.pc = "dead"]}
         /\ troubles' = troubles \/ Trouble
<1>1. ASSUME NEW th \in Thread, InstallMod(th) \/ Audited(th) \/ Wipe(th) \/ Wiped(th) \/ Copy(th)
      PROVE  UNCHANGED <<copyVars, check, troubles>>
  BY <1>1 DEF InstallMod, Audited, Wipe, Wiped, Copy
<1>2. ASSUME NEW th \in Thread, Installed(th) \/ InstallFails(th)
      PROVE  /\ UNCHANGED copyVars /\ check' \in {check, IdleCheck}
             /\ troubles' = troubles \/ Trouble
  BY <1>2 DEF Installed, InstallFails, Return
<1>3. CASE AuditExits
  BY <1>3 DEF AuditExits
<1> QED
  BY <1>1, <1>2, <1>3 DEF Installs

LEMMA Released ==
  UpdateTypeOK => /\ published \in Seq(Manifest) /\ Len(published) \in 1..MaxRelease
                  /\ Len(published) \in Nat /\ DOMAIN published = 1..Len(published)
                  /\ 1 \in DOMAIN published
<1> SUFFICES ASSUME UpdateTypeOK PROVE published \in Seq(Manifest) /\ Len(published) \in 1..MaxRelease
                                       /\ Len(published) \in Nat /\ DOMAIN published = 1..Len(published)
                                       /\ 1 \in DOMAIN published
  OBVIOUS
<1>1. published \in Seq(Manifest)
  BY DEF UpdateTypeOK
<1>2. Len(published) \in 1..MaxRelease
  BY DEF UpdateTypeOK
<1>3. Len(published) \in Nat /\ Len(published) >= 1
  BY <1>2, UpdateConstant
<1> QED
  BY <1>1, <1>2, <1>3

LEMMA NothingIsManifest == Nothing \in Manifest
BY DEF Nothing, Manifest

\* Publishing a release changes none of the earlier ones.
LEMMA Appended ==
  ASSUME published \in Seq(Manifest), NEW m \in Manifest, published' = Append(published, m)
  PROVE  /\ published' \in Seq(Manifest) /\ Len(published') = Len(published) + 1
         /\ DOMAIN published \subseteq DOMAIN published'
         /\ \A v \in DOMAIN published : published'[v] = published[v]
OBVIOUS

LEMMA BundleIsManifest == UpdateTypeOK => Bundle \in Manifest
<1> SUFFICES ASSUME UpdateTypeOK PROVE Bundle \in Manifest
  OBVIOUS
<1> QED
  BY Released DEF Bundle

LEMMA SourceIsManifest == UpdateTypeOK => SourceTree \in Manifest
BY BundleIsManifest DEF UpdateTypeOK, SourceTree

-----------------------------------------------------------------------------
LEMMA InitUpdateBase == UpdateInit => UpdateBase
<1> SUFFICES ASSUME UpdateInit PROVE UpdateBase
  OBVIOUS
<1>1. PICK m \in [File -> Digest] : published = <<m>>
  BY DEF UpdateInit
<1>2. m \in Manifest
  BY <1>1 DEF Manifest
<1>3. published \in Seq(Manifest) /\ Len(published) = 1
  BY <1>1, <1>2
<1>4. UpdateTypeOK
  <2>1. /\ disk = Nothing /\ version = 0 /\ mod = NoMod
        /\ running = FALSE /\ fromRuntime = FALSE
        /\ check = IdleCheck /\ changed = {} /\ copier = [th \in Thread |-> IdleCopier]
        /\ troubles = 0 /\ written = {} /\ torn = {} /\ behind = Feeds
    BY DEF UpdateInit
  <2>2. /\ Len(published) \in 1..MaxRelease
        /\ version \in 0..Len(published) /\ troubles \in 0..MaxTrouble
    <3>1. 0 \in 0..Len(published)
      BY <1>3
    <3>2. 0 \in 0..MaxTrouble /\ 1 \in 1..MaxRelease
      BY UpdateConstant
    <3> QED
      BY <1>3, <2>1, <3>1, <3>2, Zenon
  <2>3. mod \in [Feeds -> Digest \cup {Absent}]
    BY <2>1 DEF NoMod
  <2>4. check \in Checks /\ check.target <= Len(published)
    <3>1. check \in Checks
      BY <2>1, IdleIsCheck, Zenon
    <3>2. check.target = 0
      BY <2>1 DEF IdleCheck
    <3> QED
      BY <1>3, <3>1, <3>2
  <2>5. copier \in [Thread -> Copiers]
    BY <2>1, IdleIsCopier
  <2> QED
    BY <1>3, <2>1, <2>2, <2>3, <2>4, <2>5, NothingIsManifest, Zenon DEF UpdateTypeOK
<1>5. CheckInv
  BY DEF UpdateInit, CheckInv, Busy, IdleCheck
<1>6. CopierInv
  BY IdleIsCopier DEF UpdateInit, CopierInv, At, Thread
<1> QED
  BY <1>4, <1>5, <1>6 DEF UpdateBase

-----------------------------------------------------------------------------
\* The type invariant in four parts.
TypeDisk ==
  /\ published \in Seq(Manifest) /\ Len(published) \in 1..MaxRelease
  /\ disk \in Manifest /\ version \in 0..Len(published)
  /\ mod \in [Feeds -> Digest \cup {Absent}]

TypeSession ==
  /\ running \in BOOLEAN /\ fromRuntime \in BOOLEAN
  /\ copier \in [Thread -> Copiers]

TypeCheck == check \in Checks /\ check.target <= Len(published) /\ changed \subseteq File

TypeHistory ==
  /\ troubles \in 0..MaxTrouble
  /\ written \subseteq File /\ torn \subseteq File /\ behind \subseteq Feeds

-----------------------------------------------------------------------------
LEMMA IdleFields ==
  /\ IdleCheck.pc = "idle" /\ IdleCheck.target = 0 /\ IdleCheck.left = {} /\ IdleCheck.failed = FALSE
  /\ LET dead == [IdleCheck EXCEPT !.pc = "dead"] IN
       dead \in Checks /\ dead.pc = "dead" /\ dead.target = 0
<1>1. IdleCheck.pc = "idle" /\ IdleCheck.target = 0 /\ IdleCheck.left = {} /\ IdleCheck.failed = FALSE
  BY DEF IdleCheck
<1> QED
  BY <1>1, IdleIsCheck DEF Checks

LEMMA UpdateParts == UpdateTypeOK <=> TypeDisk /\ TypeSession /\ TypeCheck /\ TypeHistory
BY Zenon DEF UpdateTypeOK, TypeDisk, TypeSession, TypeCheck, TypeHistory

\* What cmd_dev does to the mod, to its threads and to the list of files behind.
LEMMA InstallsType ==
  ASSUME UpdateBase, Installs
  PROVE  /\ mod' \in [Feeds -> Digest \cup {Absent}]
         /\ copier' \in [Thread -> Copiers]
         /\ behind' \subseteq Feeds
<1>0. /\ mod \in [Feeds -> Digest \cup {Absent}] /\ copier \in [Thread -> Copiers]
      /\ behind \subseteq Feeds /\ UpdateTypeOK
  BY DEF UpdateBase, UpdateTypeOK
<1>a. ASSUME NEW th \in Thread, NEW pc \in {"idle", "audit", "wipe", "copy"},
             NEW left \in SUBSET Feeds, To(th, pc, left)
      PROVE  copier' \in [Thread -> Copiers]
  BY <1>0, <1>a DEF To, Copiers
<1>b. ASSUME NEW th \in Thread, Return(th) PROVE copier' \in [Thread -> Copiers]
  BY <1>0, <1>b, IdleIsCopier DEF Return
<1>c. \A th \in Thread : copier[th].left \subseteq Feeds
  BY <1>0 DEF Copiers
<1>1. ASSUME NEW th \in Thread, InstallMod(th) \/ Audited(th) \/ Wiped(th) PROVE copier' \in [Thread -> Copiers]
             /\ mod' = mod /\ behind' = behind
  BY <1>1, <1>a DEF InstallMod, Audited, Wiped
<1>2. ASSUME NEW th \in Thread, Wipe(th)
      PROVE  mod' \in [Feeds -> Digest \cup {Absent}] /\ copier' = copier /\ behind' = behind
  BY <1>0, <1>2 DEF Wipe
<1>3. ASSUME NEW th \in Thread, Copy(th)
      PROVE  /\ mod' \in [Feeds -> Digest \cup {Absent}] /\ copier' \in [Thread -> Copiers]
             /\ behind' \subseteq Feeds
  <2>1. PICK f \in NextFiles(th) :
          /\ mod' = IF SourceTree[f] = Absent THEN mod ELSE [mod EXCEPT ![f] = SourceTree[f]]
          /\ behind' = IF fromRuntime THEN behind \ {f} ELSE behind \cup {f}
          /\ To(th, "copy", copier[th].left \ {f})
    BY <1>3 DEF Copy
  <2>2. f \in Feeds
    BY <1>c DEF NextFiles
  <2>3. SourceTree[f] \in Digest \cup {Absent}
    BY <1>0, <2>2, SourceIsManifest, FeedsAreFiles DEF Manifest
  <2>4. copier' \in [Thread -> Copiers]
    BY <1>a, <1>c, <2>1
  <2> QED
    BY <1>0, <2>1, <2>2, <2>3, <2>4
<1>4. ASSUME NEW th \in Thread, Installed(th) \/ InstallFails(th)
      PROVE  mod' = mod /\ copier' \in [Thread -> Copiers] /\ behind' \subseteq Feeds
  BY <1>0, <1>4, <1>b, <1>c DEF Installed, InstallFails
<1>5. CASE AuditExits
  <2>1. Checker \in Thread
    BY DEF Thread
  <2> QED
    BY <1>0, <1>5, <1>a, <1>c, <2>1 DEF AuditExits
<1> QED
  BY <1>0, <1>1, <1>2, <1>3, <1>4, <1>5 DEF Installs

LEMMA TypeDiskStep == UpdateBase /\ [UpdateNext]_updateVars => TypeDisk'
<1> SUFFICES ASSUME UpdateBase, [UpdateNext]_updateVars PROVE TypeDisk'
  OBVIOUS
<1>0. UpdateTypeOK
  BY DEF UpdateBase
<1> USE <1>0, Released, UpdateParts DEF TypeDisk, diskVars, sessionVars, updateHistory
<1>1. CASE Publish
  BY <1>1, Appended, UpdateConstant DEF Publish
<1>2. CASE Quit \/ ThreadDies
  <2>1. version' \in {0, version} /\ UNCHANGED <<published, disk, mod>>
    BY <1>2 DEF Quit, ThreadDies, VersionLeft
  <2> QED
    BY <2>1
<1>3. CASE Installs
  BY <1>3, InstallsKeep, InstallsType DEF copyVars
<1>5. CASE Fetched
  <2>1. PICK f \in check.left : disk' = [disk EXCEPT ![f] = published[check.target][f]]
    BY <1>5 DEF Fetched
  <2>2. UNCHANGED <<published, version, mod>>
    BY <1>5 DEF Fetched
  <2>3. disk' \in Manifest
    <3>1. f \in File
      BY DEF TypeCheck, Checks
    <3>2. published[check.target] \in Manifest
      BY <1>5 DEF Fetched, UpdateBase, CheckInv, Busy
    <3> QED
      BY <2>1, <3>1, <3>2 DEF Manifest
  <2> QED
    BY <2>2, <2>3
<1>6. CASE Record
  <2>1. version' = check.target /\ UNCHANGED <<published, disk, mod>>
    BY <1>6 DEF Record
  <2>2. check.target \in 0..Len(published)
    BY UpdateConstant DEF TypeCheck, Checks
  <2> QED
    BY <2>1, <2>2
<1>7. CASE Start \/ CheckOffline \/ CheckCurrent \/ CheckPlans \/ Missed \/ GiveUp \/
         UNCHANGED updateVars
  BY <1>7 DEF Start, CheckOffline, CheckCurrent, CheckPlans, Missed, GiveUp, updateVars
<1> QED
  BY <1>1, <1>2, <1>3, <1>5, <1>6, <1>7 DEF UpdateNext, Installs

LEMMA TypeSessionStep == UpdateBase /\ [UpdateNext]_updateVars => TypeSession'
<1> SUFFICES ASSUME UpdateBase, [UpdateNext]_updateVars PROVE TypeSession'
  OBVIOUS
<1>0. UpdateTypeOK
  BY DEF UpdateBase
<1> USE <1>0, Released, UpdateParts DEF TypeSession, diskVars, sessionVars, updateHistory
<1>1. CASE Start
  BY <1>1 DEF Start, TypeDisk
<1>2. CASE Quit
  BY <1>2, IdleIsCopier DEF Quit
<1>3. CASE Installs
  BY <1>3, InstallsKeep, InstallsType DEF copyVars
<1>4. CASE Record
  <2>1. Checker \in Thread
    BY DEF Thread
  <2>2. UNCHANGED <<running, fromRuntime>>
        /\ copier' \in {copier, [copier EXCEPT ![Checker] = [pc |-> "audit", left |-> changed \cap Feeds]]}
    BY <1>4 DEF Record, To
  <2> QED
    BY <2>1, <2>2 DEF Copiers
<1>5. CASE Publish \/ CheckOffline \/ CheckCurrent \/ CheckPlans
         \/ Fetched \/ Missed \/ GiveUp \/ ThreadDies \/ UNCHANGED updateVars
  BY <1>5 DEF Publish, CheckOffline, CheckCurrent, CheckPlans, Fetched, Missed, GiveUp,
     ThreadDies, updateVars
<1> QED
  BY <1>1, <1>2, <1>3, <1>4, <1>5 DEF UpdateNext, Installs

LEMMA TypeCheckStep == UpdateBase /\ [UpdateNext]_updateVars => TypeCheck'
<1> SUFFICES ASSUME UpdateBase, [UpdateNext]_updateVars PROVE TypeCheck'
  OBVIOUS
<1>0. UpdateTypeOK
  BY DEF UpdateBase
<1> USE <1>0, Released, UpdateParts DEF TypeCheck, diskVars, sessionVars, updateHistory
<1>1. CASE Publish
  <2>1. Len(published') = Len(published) + 1 /\ UNCHANGED <<check, changed>>
    BY <1>1, Appended DEF Publish
  <2>2. check.target \in Nat
    BY UpdateConstant DEF Checks
  <2> QED
    BY <2>1, <2>2
<1>2. CASE Quit
  <2>1. check' = IdleCheck /\ changed' = {} /\ UNCHANGED published
    BY <1>2 DEF Quit
  <2>2. check' \in Checks /\ check'.target = 0
    BY <2>1, IdleIsCheck, IdleFields
  <2> QED
    BY <2>1, <2>2
<1>3. CASE CheckPlans
  <2>1. PICK v \in DOMAIN published :
          /\ changed' = PlanUpdate(v)
          /\ check' = [pc |-> IF PlanUpdate(v) = {} THEN "record" ELSE "download", target |-> v,
                       left |-> PlanUpdate(v), failed |-> FALSE]
    BY <1>3 DEF CheckPlans
  <2>2. UNCHANGED published
    BY <1>3 DEF CheckPlans
  <2>3. PlanUpdate(v) \subseteq File /\ v \in 0..MaxRelease /\ v <= Len(published)
    BY UpdateConstant DEF PlanUpdate
  <2> QED
    BY <2>1, <2>2, <2>3 DEF Checks
<1>4. CASE Fetched
  <2>1. PICK f \in check.left : After(check.left \ {f}, check.failed)
    BY <1>4 DEF Fetched
  <2>2. UNCHANGED <<changed, published>>
    BY <1>4 DEF Fetched
  <2> QED
    BY <2>1, <2>2 DEF After, Checks
<1>5. CASE Missed
  BY <1>5 DEF Missed, After, Checks
<1>6. CASE GiveUp
  BY <1>6, IdleIsCheck DEF GiveUp, IdleCheck
<1>7. CASE ThreadDies
  <2>1. check' = [IdleCheck EXCEPT !.pc = "dead"] /\ UNCHANGED <<changed, published>>
    BY <1>7 DEF ThreadDies
  <2>2. check' \in Checks /\ check'.target = 0
    BY <2>1, IdleIsCheck, IdleFields
  <2> QED
    BY <2>1, <2>2
<1>8. CASE Record
  <2>1. check' \in {[check EXCEPT !.pc = "reinstall"], IdleCheck} /\ UNCHANGED <<changed, published>>
    BY <1>8 DEF Record
  <2>2. CASE check' = IdleCheck
    BY <2>1, <2>2, IdleIsCheck, IdleFields
  <2>3. CASE check' = [check EXCEPT !.pc = "reinstall"]
    BY <2>1, <2>3 DEF Checks
  <2> QED
    BY <2>1, <2>2, <2>3
<1>9. CASE Installs
  <2>1. check' \in {check, IdleCheck, [IdleCheck EXCEPT !.pc = "dead"]} /\ UNCHANGED <<changed, published>>
    BY <1>9, InstallsKeep DEF copyVars
  <2>2. check' \in Checks /\ (check'.target = 0 \/ check' = check)
    BY <2>1, IdleIsCheck, IdleFields
  <2> QED
    BY <2>1, <2>2
<1>10. CASE Start \/ CheckOffline \/ CheckCurrent \/ UNCHANGED updateVars
  BY <1>10 DEF Start, CheckOffline, CheckCurrent, updateVars
<1> QED
  BY <1>1, <1>2, <1>3, <1>4, <1>5, <1>6, <1>7, <1>8, <1>9, <1>10 DEF UpdateNext, Installs

LEMMA TypeHistoryStep == UpdateBase /\ [UpdateNext]_updateVars => TypeHistory'
<1> SUFFICES ASSUME UpdateBase, [UpdateNext]_updateVars PROVE TypeHistory'
  OBVIOUS
<1>0. UpdateTypeOK
  BY DEF UpdateBase
<1> USE <1>0, Released, UpdateParts DEF TypeHistory, diskVars, sessionVars, updateHistory
<1>1. CASE Quit
  <2>0. troubles < MaxTrouble /\ troubles' = troubles + 1
    BY <1>1 DEF Quit, Trouble
  <2>1. troubles' \in 0..MaxTrouble
    BY <2>0, UpdateConstant
  <2>2. written' = {} /\ torn' = torn \cup written
    BY <1>1 DEF Quit
  <2>3. behind' \subseteq Feeds
    BY <1>1 DEF Quit, TypeSession, Copiers
  <2> QED
    BY <2>1, <2>2, <2>3
<1>2. CASE Installs
  <2>1. behind' \subseteq Feeds /\ UNCHANGED <<written, torn>> /\ (troubles' = troubles \/ Trouble)
    BY <1>2, InstallsKeep, InstallsType DEF copyVars
  <2>2. troubles' \in 0..MaxTrouble
    BY <2>1, UpdateConstant DEF Trouble
  <2> QED
    BY <2>1, <2>2
<1>3. CASE CheckOffline
  BY <1>3, UpdateConstant DEF CheckOffline, Trouble
<1>4. CASE Fetched
  BY <1>4 DEF Fetched, TypeCheck, Checks
<1>5. CASE Missed
  BY <1>5, UpdateConstant DEF Missed, Trouble
<1>6. CASE ThreadDies
  BY <1>6, UpdateConstant DEF ThreadDies, Trouble
<1>7. CASE Record
  BY <1>7 DEF Record, Feeds
<1>8. CASE Publish \/ Start \/ CheckCurrent \/ CheckPlans \/ GiveUp \/ UNCHANGED updateVars
  BY <1>8 DEF Publish, Start, CheckCurrent, CheckPlans, GiveUp, updateVars
<1> QED
  BY <1>1, <1>2, <1>3, <1>4, <1>5, <1>6, <1>7, <1>8 DEF UpdateNext, Installs

LEMMA TypeStep == UpdateBase /\ [UpdateNext]_updateVars => UpdateTypeOK'
<1> SUFFICES ASSUME UpdateBase, [UpdateNext]_updateVars PROVE UpdateTypeOK'
  OBVIOUS
<1>1. TypeDisk' /\ TypeSession' /\ TypeCheck' /\ TypeHistory'
  BY TypeDiskStep, TypeSessionStep, TypeCheckStep, TypeHistoryStep
<1> QED
  BY <1>1 DEF UpdateTypeOK, TypeDisk, TypeSession, TypeCheck, TypeHistory

LEMMA RecordedRelease == UpdateTypeOK => version = 0 \/ version \in DOMAIN published
<1> SUFFICES ASSUME UpdateTypeOK PROVE version = 0 \/ version \in DOMAIN published
  OBVIOUS
<1>1. version \in 0..Len(published)
  BY DEF UpdateTypeOK
<1>2. Len(published) \in Nat /\ DOMAIN published = 1..Len(published)
  BY Released
<1> QED
  BY <1>1, <1>2

\* While version.json and the recorded manifests stay, so does a plan.
LEMMA SamePlan ==
  ASSUME UpdateTypeOK, version' = version, NEW v \in DOMAIN published,
         \A w \in DOMAIN published : published'[w] = published[w]
  PROVE  PlanUpdate(v)' = PlanUpdate(v)
<1>1. version = 0 \/ version \in DOMAIN published
  BY RecordedRelease
<1> QED
  BY <1>1 DEF PlanUpdate

LEMMA CheckStep == UpdateBase /\ [UpdateNext]_updateVars => CheckInv'
<1> SUFFICES ASSUME UpdateBase, [UpdateNext]_updateVars PROVE CheckInv'
  OBVIOUS
<1>0. UpdateTypeOK /\ CheckInv
  BY DEF UpdateBase
<1> USE <1>0 DEF CheckInv, Busy
<1>b. IdleCheck.pc = "idle" /\ [IdleCheck EXCEPT !.pc = "dead"].pc = "dead"
  BY IdleFields
<1>1. CASE Publish
  <2>1. PICK m \in Manifest : published' = Append(published, m)
    BY <1>1 DEF Publish
  <2>2. UNCHANGED <<check, changed, written, disk, version, running>>
    BY <1>1 DEF Publish, sessionVars, updateHistory
  <2>3. DOMAIN published \subseteq DOMAIN published'
        /\ \A v \in DOMAIN published : published'[v] = published[v]
    BY <2>1, Appended, Released
  <2>4. CASE Busy
    <3>1. PlanUpdate(check.target)' = PlanUpdate(check.target)
      BY <2>2, <2>3, <2>4, SamePlan
    <3> QED
      BY <2>2, <2>3, <2>4, <3>1
  <2> QED
    BY <2>2, <2>4
<1>2. CASE Quit
  BY <1>2, <1>b DEF Quit
<1>3. CASE CheckOffline \/ CheckCurrent
  <2>1. check' = check /\ check.pc = "idle" /\ written' = written
    BY <1>3 DEF CheckOffline, CheckCurrent, updateHistory
  <2> QED
    BY <2>1
<1>4. CASE CheckPlans
  <2>1. PICK v \in DOMAIN published :
          /\ changed' = PlanUpdate(v)
          /\ check' = [pc |-> IF PlanUpdate(v) = {} THEN "record" ELSE "download", target |-> v,
                       left |-> PlanUpdate(v), failed |-> FALSE]
    BY <1>4 DEF CheckPlans
  <2>2. UNCHANGED <<published, disk, version, written, running>> /\ written = {} /\ running
    BY <1>4 DEF CheckPlans, diskVars, updateHistory
  <2>3. PlanUpdate(v)' = PlanUpdate(v)
    BY <2>2, SamePlan
  <2> QED
    BY <2>1, <2>2, <2>3
<1>5. CASE Fetched
  <2>1. PICK f \in check.left :
          /\ disk' = [disk EXCEPT ![f] = published[check.target][f]]
          /\ written' = written \cup {f}
          /\ After(check.left \ {f}, check.failed)
    BY <1>5 DEF Fetched
  <2>2. UNCHANGED <<published, version, changed, running>> /\ check.pc = "download"
    BY <1>5 DEF Fetched
  <2>3. /\ check'.target = check.target /\ check'.failed = check.failed
        /\ check'.left = check.left \ {f}
        /\ check'.pc = IF check.left \ {f} = {} /\ ~check.failed THEN "record" ELSE "download"
    BY <2>1 DEF After, UpdateTypeOK, Checks
  <2>4. PlanUpdate(check.target)' = PlanUpdate(check.target)
    BY <2>2, <2>3, SamePlan
  <2>5. \A g \in written' : disk'[g] = published[check.target][g]
    <3>1. written \subseteq File /\ disk \in Manifest /\ f \in File
      BY DEF UpdateTypeOK, Checks
    <3> QED
      BY <2>1, <2>2, <3>1 DEF Manifest
  <2> QED
    BY <2>1, <2>2, <2>3, <2>4, <2>5
<1>6. CASE Missed
  <2>1. PICK f \in check.left : After(check.left \ {f}, TRUE)
    BY <1>6 DEF Missed
  <2>2. UNCHANGED <<published, disk, version, changed, written, running>> /\ check.pc = "download"
    BY <1>6 DEF Missed, diskVars
  <2>3. /\ check'.target = check.target /\ check'.failed = TRUE /\ check'.pc = "download"
        /\ check'.left = check.left \ {f}
    BY <2>1 DEF After, UpdateTypeOK, Checks
  <2>4. PlanUpdate(check.target)' = PlanUpdate(check.target)
    BY <2>2, <2>3, SamePlan
  <2> QED
    BY <2>2, <2>3, <2>4
<1>7. CASE GiveUp \/ ThreadDies
  BY <1>7, <1>b DEF GiveUp, ThreadDies
<1>8. CASE Record
  <2>1. /\ written' = {} /\ check' \in {[check EXCEPT !.pc = "reinstall"], IdleCheck}
        /\ running' = running /\ check.pc = "record"
    BY <1>8 DEF Record
  <2>2. check'.pc \notin {"download", "record"}
    BY <2>1, <1>b DEF UpdateTypeOK, Checks
  <2> QED
    BY <2>1, <2>2
<1>9. CASE \/ Start \/ UNCHANGED updateVars
           \/ Installs /\ check' = check
  <2>1. UNCHANGED <<published, disk, version, check, changed, written>> /\ (running => running')
    BY <1>9, InstallsKeep DEF Start, updateVars, diskVars, sessionVars, updateHistory, copyVars
  <2>2. CASE Busy
    <3>1. PlanUpdate(check.target)' = PlanUpdate(check.target)
      BY <2>1, <2>2, SamePlan
    <3> QED
      BY <2>1, <2>2, <3>1
  <2> QED
    BY <2>1, <2>2
\* The thread of the check ends: it has recorded.
<1>10. CASE Installs /\ check' # check
  <2>1. UNCHANGED <<written, running>> /\ check' \in {IdleCheck, [IdleCheck EXCEPT !.pc = "dead"]}
    BY <1>10, InstallsKeep DEF copyVars
  <2>2. ~At(Checker, "idle")
    BY <1>10 DEF Installs, InstallMod, Audited, Wipe, Wiped, Copy, Installed, InstallFails,
       AuditExits, Return, At
  <2>3. check.pc = "reinstall"
    BY <2>2 DEF UpdateBase, CopierInv
  <2> QED
    BY <2>1, <2>3, <1>b
<1> QED
  BY <1>1, <1>2, <1>3, <1>4, <1>5, <1>6, <1>7, <1>8, <1>9, <1>10 DEF UpdateNext, Installs

\* The threads of cmd_dev keep their part of the invariant.
LEMMA CopierStep == UpdateBase /\ [UpdateNext]_updateVars => CopierInv'
<1> SUFFICES ASSUME UpdateBase, [UpdateNext]_updateVars PROVE CopierInv'
  OBVIOUS
<1>0. CopierInv /\ CheckInv /\ copier \in [Thread -> Copiers] /\ check \in Checks
  BY DEF UpdateBase, UpdateTypeOK
<1>c. Checker \in Thread /\ Checker \notin Installer
  BY UpdateConstant DEF Thread
<1>1. ASSUME NEW th \in Thread, NEW pc \in {"audit", "wipe", "copy"}, NEW left, To(th, pc, left),
             running, running' = running, pc = "wipe" => left = Feeds,
             th = Checker => check'.pc = "reinstall",
             ~At(Checker, "idle") => check'.pc = "reinstall"
      PROVE  CopierInv'
  BY <1>0, <1>1 DEF CopierInv, At, To
<1>2. ASSUME NEW th \in Thread, ~At(th, "idle") PROVE running /\ (th = Checker => check.pc = "reinstall")
  BY <1>0, <1>2 DEF CopierInv
<1>3. ASSUME NEW th \in Thread, InstallMod(th) \/ Audited(th) \/ Wiped(th) \/ Copy(th) PROVE CopierInv'
  <2>1. UNCHANGED <<running, check>> /\ running /\ (th = Checker => check.pc = "reinstall")
    BY <1>2, <1>3, <1>c DEF InstallMod, Audited, Wiped, Copy, copyVars, At
  <2>2. \E pc \in {"audit", "wipe", "copy"}, left \in SUBSET Feeds :
          To(th, pc, left) /\ (pc = "wipe" => left = Feeds)
    <3>1. CASE InstallMod(th) \/ Audited(th) \/ Wiped(th)
      BY <3>1 DEF InstallMod, Audited, Wiped
    <3>2. CASE Copy(th)
      <4>1. \E f : To(th, "copy", copier[th].left \ {f})
        BY <3>2 DEF Copy
      <4>2. copier[th].left \in SUBSET Feeds
        BY <1>0 DEF Copiers
      <4> QED
        BY <4>1, <4>2
    <3> QED
      BY <1>3, <3>1, <3>2
  <2>3. ~At(Checker, "idle") => check'.pc = "reinstall"
    BY <1>0, <2>1 DEF CopierInv
  <2> QED
    BY <1>1, <2>1, <2>2, <2>3
<1>4. ASSUME NEW th \in Thread, Wipe(th) PROVE CopierInv'
  BY <1>0, <1>4 DEF Wipe, copyVars, CopierInv, At
<1>5. ASSUME NEW th \in Thread, Installed(th) \/ InstallFails(th) PROVE CopierInv'
  <2>1. /\ copier' = [copier EXCEPT ![th] = IdleCopier] /\ running' = running
        /\ th # Checker => check' = check
    BY <1>5 DEF Installed, InstallFails, Return, copyVars
  <2> QED
    BY <1>0, <2>1, IdleIsCopier DEF CopierInv, At
<1>6. CASE AuditExits
  BY <1>0, <1>6, <1>c DEF AuditExits, To, copyVars, CopierInv, At
<1>7. CASE Quit
  BY <1>7, <1>c, IdleIsCopier DEF Quit, CopierInv, At
<1>8. CASE Record
  <2>1. check.pc = "record" /\ running /\ running' = running /\ At(Checker, "idle")
    BY <1>0, <1>8 DEF Record, CheckInv, CopierInv
  <2>2. CASE ChangedModFiles(changed)
    <3>1. check' = [check EXCEPT !.pc = "reinstall"] /\ To(Checker, "audit", changed \cap Feeds)
      BY <1>8, <2>2 DEF Record
    <3>2. check'.pc = "reinstall"
      BY <1>0, <3>1 DEF Checks
    <3> QED
      BY <1>1, <1>c, <2>1, <3>1, <3>2
  <2>3. CASE ~ChangedModFiles(changed)
    <3>1. copier' = copier
      BY <1>8, <2>3 DEF Record
    <3> QED
      BY <1>0, <2>1, <3>1 DEF CopierInv, At
  <2> QED
    BY <2>2, <2>3
<1>9. CASE Fetched \/ Missed \/ GiveUp \/ ThreadDies \/ CheckOffline \/ CheckCurrent \/ CheckPlans
  <2>1. UNCHANGED <<copier, running>> /\ check.pc # "reinstall"
    BY <1>9 DEF Fetched, Missed, GiveUp, ThreadDies, CheckOffline, CheckCurrent, CheckPlans
  <2> QED
    BY <1>0, <2>1 DEF CopierInv, At
<1>10. CASE Publish \/ Start \/ UNCHANGED updateVars
  <2>1. UNCHANGED <<copier, check>> /\ (running => running')
    BY <1>10 DEF Publish, Start, sessionVars, updateVars
  <2> QED
    BY <1>0, <2>1 DEF CopierInv, At
<1> QED
  BY <1>3, <1>4, <1>5, <1>6, <1>7, <1>8, <1>9, <1>10 DEF UpdateNext

\* A check writes the files it planned and nothing else while it runs.
LEMMA UpdateBaseStep == UpdateBase /\ [UpdateNext]_updateVars => UpdateBase'
BY TypeStep, CheckStep, CopierStep DEF UpdateBase

LEMMA RecordStep == UpdateBase /\ RecordIsOnDisk /\ [UpdateNext]_updateVars => RecordIsOnDisk'
<1> SUFFICES ASSUME UpdateBase, RecordIsOnDisk, [UpdateNext]_updateVars PROVE RecordIsOnDisk'
  OBVIOUS
<1>0. UpdateTypeOK /\ CheckInv
  BY DEF UpdateBase
<1>a. version = 0 \/ version \in DOMAIN published
  BY <1>0, RecordedRelease
<1> USE <1>0 DEF RecordIsOnDisk
<1>1. CASE Publish
  <2>1. PICK m \in Manifest : published' = Append(published, m)
    BY <1>1 DEF Publish
  <2>2. UNCHANGED <<written, torn, disk, version>>
    BY <1>1 DEF Publish, updateHistory
  <2>3. \A v \in DOMAIN published : published'[v] = published[v]
    BY <2>1, Appended, Released
  <2> QED
    BY <2>2, <2>3, <1>a
<1>2. CASE Quit \/ GiveUp \/ ThreadDies
  <2>1. /\ version' \in {0, version} /\ UNCHANGED <<published, disk>>
        /\ written' = {} /\ torn' = torn \cup written
    BY <1>2 DEF Quit, GiveUp, ThreadDies, VersionLeft, diskVars
  <2> QED
    BY <2>1
<1>3. CASE Fetched
  <2>1. PICK f \in check.left :
          disk' = [disk EXCEPT ![f] = published[check.target][f]] /\ written' = written \cup {f}
    BY <1>3 DEF Fetched
  <2>2. UNCHANGED <<published, version, torn>>
    BY <1>3 DEF Fetched
  <2>3. disk \in Manifest
    BY DEF UpdateTypeOK
  <2> QED
    BY <2>1, <2>2, <2>3 DEF Manifest
<1>4. CASE Record
  <2>1. /\ version' = check.target /\ UNCHANGED <<published, disk>> /\ check.pc = "record"
        /\ written' = {} /\ torn' = torn \ written
    BY <1>4 DEF Record
  <2>2. /\ written = PlanUpdate(check.target)
        /\ \A f \in written : disk[f] = published[check.target][f]
    BY <2>1 DEF CheckInv, Busy
  <2>3. SUFFICES ASSUME NEW f \in File \ (torn \ written), published[check.target][f] # Absent
                 PROVE  disk[f] = published[check.target][f]
    BY <2>1
  <2>4. CASE f \in written
    BY <2>2, <2>4
  <2>5. CASE f \notin written
    <3>1. version # 0 /\ published[version][f] = published[check.target][f]
      BY <2>2, <2>3, <2>5 DEF PlanUpdate
    <3> QED
      BY <2>3, <2>5, <3>1
  <2> QED
    BY <2>4, <2>5
<1>5. CASE Start \/ CheckOffline \/ CheckCurrent \/ CheckPlans \/ Missed \/ Installs
           \/ UNCHANGED updateVars
  <2>1. UNCHANGED <<published, disk, version, written, torn>>
    BY <1>5, InstallsKeep DEF Start, CheckOffline, CheckCurrent, CheckPlans, Missed,
       copyVars, updateVars, diskVars, updateHistory
  <2> QED
    BY <2>1
<1> QED
  BY <1>1, <1>2, <1>3, <1>4, <1>5 DEF UpdateNext, Installs

\* A file the runtime does not have is not left in the mod by a copy of the
\* runtime: the folder was empty once.
AbsentInv ==
  fromRuntime => \A th \in Thread, f \in Feeds :
                   At(th, "copy") /\ disk[f] = Absent => mod[f] = Absent

LEMMA AbsentStep == UpdateBase /\ AbsentInv /\ [UpdateNext]_updateVars => AbsentInv'
<1> SUFFICES ASSUME UpdateBase, AbsentInv, [UpdateNext]_updateVars PROVE AbsentInv'
  OBVIOUS
<1>0. UpdateTypeOK /\ CheckInv /\ CopierInv
  BY DEF UpdateBase
<1> USE <1>0 DEF AbsentInv
<1>1. ASSUME UNCHANGED <<fromRuntime, mod, disk>>,
             \A th \in Thread : At(th, "copy")' => At(th, "copy")
      PROVE  AbsentInv'
  BY <1>1
<1>2. ASSUME NEW th \in Thread, NEW pc, NEW left, To(th, pc, left)
      PROVE  At(th, pc)' /\ \A o \in Thread \ {th} : copier'[o] = copier[o]
  BY <1>2 DEF To, At, UpdateTypeOK
<1>3. ASSUME NEW th \in Thread, InstallMod(th) \/ Audited(th) PROVE AbsentInv'
  <2>1. UNCHANGED <<fromRuntime, mod, disk>> /\ \E pc \in {"audit", "wipe"} : \E left : To(th, pc, left)
    BY <1>3 DEF InstallMod, Audited, copyVars
  <2> QED
    BY <1>1, <1>2, <2>1 DEF At
<1>4. ASSUME NEW th \in Thread, Wipe(th) PROVE AbsentInv'
  <2>1. UNCHANGED <<fromRuntime, disk, copier>> /\ \E f \in Feeds : mod' = [mod EXCEPT ![f] = Absent]
    BY <1>4 DEF Wipe, copyVars
  <2> QED
    BY <2>1 DEF At, UpdateTypeOK
<1>5. ASSUME NEW th \in Thread, Wiped(th) PROVE AbsentInv'
  BY <1>5 DEF Wiped, copyVars, NoMod
<1>6. ASSUME NEW th \in Thread, Copy(th) PROVE AbsentInv'
  <2>1. PICK f \in NextFiles(th) :
          /\ mod' = IF SourceTree[f] = Absent THEN mod ELSE [mod EXCEPT ![f] = SourceTree[f]]
          /\ To(th, "copy", copier[th].left \ {f})
    BY <1>6 DEF Copy
  <2>2. UNCHANGED <<fromRuntime, disk>> /\ At(th, "copy")
    BY <1>6 DEF Copy, copyVars
  <2>3. \A o \in Thread : At(o, "copy")' => At(o, "copy")
    BY <1>2, <2>1, <2>2 DEF At
  <2>4. ASSUME NEW g \in Feeds, fromRuntime, disk[g] = Absent PROVE mod'[g] = mod[g]
    BY <2>1, <2>4 DEF SourceTree, UpdateTypeOK
  <2> QED
    BY <2>2, <2>3, <2>4
<1>7. ASSUME NEW th \in Thread, Installed(th) \/ InstallFails(th) PROVE AbsentInv'
  <2>1. UNCHANGED <<fromRuntime, mod, disk>> /\ copier' = [copier EXCEPT ![th] = IdleCopier]
    BY <1>7 DEF Installed, InstallFails, Return, copyVars
  <2> QED
    BY <1>1, <2>1, IdleIsCopier DEF At, UpdateTypeOK
<1>8. CASE AuditExits
  <2>1. UNCHANGED <<fromRuntime, mod, disk>> /\ To(Checker, "idle", {}) /\ Checker \in Thread
    BY <1>8 DEF AuditExits, copyVars, Thread
  <2> QED
    BY <1>1, <1>2, <2>1 DEF At
<1>9. CASE Quit
  BY <1>9 DEF Quit
<1>10. CASE Start
  <2>1. \A th \in Thread : At(th, "idle")
    BY <1>10 DEF Start, CopierInv
  <2> QED
    BY <1>10, <2>1 DEF Start, At
<1>11. CASE Fetched
  <2>1. PICK f \in check.left : disk' = [disk EXCEPT ![f] = published[check.target][f]]
    BY <1>11 DEF Fetched
  <2>2. UNCHANGED <<mod, fromRuntime, copier>> /\ check.pc = "download"
    BY <1>11 DEF Fetched
  <2>3. f \in PlanUpdate(check.target)
    BY <2>2 DEF CheckInv, Busy
  <2>4. published[check.target][f] # Absent
    BY <2>3 DEF PlanUpdate
  <2>5. \A g \in Feeds : disk'[g] = Absent => disk[g] = Absent
    BY <2>1, <2>4, FeedsAreFiles DEF UpdateTypeOK, Manifest
  <2> QED
    BY <2>2, <2>5 DEF At
<1>12. CASE Record
  <2>1. UNCHANGED <<fromRuntime, mod, disk>>
        /\ (copier' = copier \/ To(Checker, "audit", changed \cap Feeds)) /\ Checker \in Thread
    BY <1>12 DEF Record, Thread
  <2> QED
    BY <1>1, <1>2, <2>1 DEF At
<1>13. CASE Publish \/ CheckOffline \/ CheckCurrent \/ CheckPlans \/ Missed \/ GiveUp \/ ThreadDies
            \/ UNCHANGED updateVars
  <2>1. UNCHANGED <<fromRuntime, mod, disk, copier>>
    BY <1>13 DEF Publish, CheckOffline, CheckCurrent, CheckPlans, Missed, GiveUp, ThreadDies,
       updateVars, diskVars, sessionVars
  <2> QED
    BY <1>1, <2>1 DEF At
<1> QED
  BY <1>3, <1>4, <1>5, <1>6, <1>7, <1>8, <1>9, <1>10, <1>11, <1>12, <1>13 DEF UpdateNext

\* A step that takes a file out of what is pending has copied it, or explains it.
LEMMA ModStep == UpdateBase /\ AbsentInv /\ ModFollows /\ [UpdateNext]_updateVars => ModFollows'
<1> SUFFICES ASSUME UpdateBase, AbsentInv, ModFollows, [UpdateNext]_updateVars PROVE ModFollows'
  OBVIOUS
<1>0. UpdateTypeOK /\ CheckInv /\ CopierInv
  BY DEF UpdateBase
<1> USE <1>0 DEF ModFollows
<1>1. ASSUME UNCHANGED <<mod, disk>>, behind \cup Pending \subseteq behind' \cup Pending'
      PROVE  ModFollows'
  BY <1>1
<1>2. ASSUME NEW th \in Thread, NEW pc, NEW left, To(th, pc, left)
      PROVE  copier'[th].left = left /\ \A o \in Thread \ {th} : copier'[o] = copier[o]
  BY <1>2 DEF To, UpdateTypeOK
<1>3. ASSUME NEW th \in Thread, copier'[th].left = Feeds PROVE ModFollows'
  BY <1>3 DEF Pending
<1>4. ASSUME NEW th \in Thread, InstallMod(th) PROVE ModFollows'
  <2>1. UNCHANGED <<mod, disk, written, behind>> /\ To(th, "audit", {}) /\ copier[th].left = {}
    BY <1>4 DEF InstallMod, copyVars, CopierInv
  <2>2. Pending \subseteq Pending'
    BY <1>2, <2>1 DEF Pending
  <2> QED
    BY <1>1, <2>1, <2>2
<1>5. ASSUME NEW th \in Thread, Audited(th) \/ Wiped(th) PROVE ModFollows'
  BY <1>2, <1>3, <1>5 DEF Audited, Wiped
<1>6. ASSUME NEW th \in Thread, Wipe(th) PROVE ModFollows'
  BY <1>3, <1>6 DEF Wipe, CopierInv
<1>7. ASSUME NEW th \in Thread, Copy(th) PROVE ModFollows'
  <2>1. PICK f \in NextFiles(th) :
          /\ mod' = IF SourceTree[f] = Absent THEN mod ELSE [mod EXCEPT ![f] = SourceTree[f]]
          /\ behind' = IF fromRuntime THEN behind \ {f} ELSE behind \cup {f}
          /\ To(th, "copy", copier[th].left \ {f})
    BY <1>7 DEF Copy
  <2>2. UNCHANGED <<disk, written, fromRuntime>> /\ At(th, "copy")
    BY <1>7 DEF Copy, copyVars
  <2>3. Pending \ {f} \subseteq Pending'
    BY <1>2, <2>1, <2>2 DEF Pending
  <2>4. SUFFICES ASSUME NEW g \in Feeds, g \notin behind', g \notin Pending' PROVE mod'[g] = disk[g]
    BY <2>2
  <2>5. CASE g # f
    <3>1. g \notin behind /\ g \notin Pending
      BY <2>1, <2>3, <2>4, <2>5
    <3>2. mod'[g] = mod[g]
      BY <2>1, <2>5 DEF UpdateTypeOK
    <3> QED
      BY <3>1, <3>2
  <2>6. CASE g = f
    <3>1. fromRuntime
      BY <2>1, <2>4, <2>6
    <3>2. SourceTree = disk
      BY <3>1 DEF SourceTree
    <3>3. CASE disk[f] = Absent
      BY <2>1, <2>2, <2>4, <2>6, <3>1, <3>2, <3>3 DEF AbsentInv
    <3>4. CASE disk[f] # Absent
      BY <2>1, <2>4, <2>6, <3>2, <3>4 DEF UpdateTypeOK
    <3> QED
      BY <3>3, <3>4
  <2> QED
    BY <2>5, <2>6
<1>8. ASSUME NEW th \in Thread, Installed(th) \/ InstallFails(th) PROVE ModFollows'
  <2>1. /\ UNCHANGED <<mod, disk, written>> /\ copier' = [copier EXCEPT ![th] = IdleCopier]
        /\ behind \cup copier[th].left \subseteq behind'
    BY <1>8 DEF Installed, InstallFails, Return, copyVars
  <2>2. \A o \in Thread \ {th} : copier'[o] = copier[o]
    BY <2>1 DEF UpdateTypeOK
  <2>3. Pending \subseteq Pending' \cup copier[th].left
    BY <2>1, <2>2 DEF Pending
  <2> QED
    BY <1>1, <2>1, <2>3
<1>9. CASE AuditExits
  <2>1. /\ UNCHANGED <<mod, disk, written>> /\ To(Checker, "idle", {}) /\ Checker \in Thread
        /\ behind' = behind \cup copier[Checker].left
    BY <1>9 DEF AuditExits, copyVars, Thread
  <2>2. Pending \subseteq Pending' \cup copier[Checker].left
    BY <1>2, <2>1 DEF Pending
  <2> QED
    BY <1>1, <2>1, <2>2
<1>10. CASE Quit
  <2>1. /\ UNCHANGED <<mod, disk>>
        /\ behind' = behind \cup (Feeds \cap written) \cup UNION {copier[th].left : th \in Thread}
    BY <1>10 DEF Quit
  <2> QED
    BY <2>1 DEF Pending
<1>11. CASE GiveUp \/ ThreadDies
  <2>1. UNCHANGED <<mod, disk, copier>> /\ behind' = behind \cup (written \cap Feeds)
    BY <1>11 DEF GiveUp, ThreadDies, diskVars
  <2> QED
    BY <2>1 DEF Pending
<1>12. CASE Fetched
  <2>1. PICK f \in check.left :
          /\ disk' = [disk EXCEPT ![f] = published[check.target][f]]
          /\ written' = written \cup {f}
    BY <1>12 DEF Fetched
  <2>2. UNCHANGED <<mod, copier, behind>>
    BY <1>12 DEF Fetched
  <2> QED
    BY <2>1, <2>2, FeedsAreFiles DEF Pending, UpdateTypeOK, Manifest
<1>13. CASE Record
  <2>1. UNCHANGED <<disk, mod, changed>> /\ check.pc = "record"
    BY <1>13 DEF Record
  <2>2. written = changed /\ Checker \in Thread /\ copier[Checker].left = {}
    BY <2>1 DEF CheckInv, Busy, CopierInv, Thread
  <2>3. CASE ChangedModFiles(changed)
    <3>1. To(Checker, "audit", changed \cap Feeds) /\ behind' = behind
      BY <1>13, <2>3 DEF Record
    <3>2. Pending \cap Feeds \subseteq Pending'
      BY <1>2, <2>2, <3>1 DEF Pending
    <3> QED
      BY <2>1, <3>1, <3>2
  <2>4. CASE ~ChangedModFiles(changed)
    <3>1. behind' = behind \cup (changed \cap SharedFile) /\ copier' = copier
      BY <1>13, <2>4 DEF Record
    <3>2. changed \cap Feeds = changed \cap SharedFile
      BY <2>4 DEF ChangedModFiles, Feeds
    <3>3. (behind \cup Pending) \cap Feeds \subseteq behind' \cup Pending'
      BY <2>2, <3>1, <3>2 DEF Pending
    <3> QED
      BY <2>1, <3>3
  <2> QED
    BY <2>3, <2>4
<1>14. CASE CheckOffline \/ CheckCurrent \/ CheckPlans \/ Missed \/ Publish \/ Start \/ UNCHANGED updateVars
  <2>1. UNCHANGED <<disk, mod, copier, written, behind>>
    BY <1>14 DEF CheckOffline, CheckCurrent, CheckPlans, Missed, Publish, Start, updateVars,
       diskVars, sessionVars, updateHistory
  <2> QED
    BY <1>1, <2>1 DEF Pending
<1> QED
  BY <1>4, <1>5, <1>6, <1>7, <1>8, <1>9, <1>10, <1>11, <1>12, <1>13, <1>14 DEF UpdateNext

-----------------------------------------------------------------------------
\* Every state the launcher, its disk and the repository reach is of its type:
\* a check only fetches what the release it applies lists.
THEOREM UpdateTypeCorrect == UpdateSpec => []UpdateTypeOK
<1>1. UpdateBase => UpdateTypeOK
  BY DEF UpdateBase
<1> QED
  BY <1>1, InitUpdateBase, UpdateBaseStep, PTL DEF UpdateSpec

\* version.json says what is on disk, but for the files of a check that did not
\* come to record: however checks fail, crash and follow one another
\* (updater.plan_update, apply_changes and write_local_manifest).
THEOREM RecordCorrect == UpdateSpec => []RecordIsOnDisk
<1>1. UpdateInit => RecordIsOnDisk
  BY DEF UpdateInit, RecordIsOnDisk
<1> QED
  BY <1>1, InitUpdateBase, UpdateBaseStep, RecordStep, PTL DEF UpdateSpec

\* The mod in the Mods folder is the runtime's, but for the files that a failed,
\* missing or skipped install left behind or a thread has yet to copy, however
\* the threads of the button and of the check overlap (installMod and
\* _check_updates in launcher_setup.py, cmd_dev in build_script_mod.py).
THEOREM FollowsCorrect == UpdateSpec => []ModFollows
<1>1. UpdateInit => ModFollows /\ AbsentInv
  BY DEF UpdateInit, ModFollows, AbsentInv
<1> QED
  BY <1>1, InitUpdateBase, UpdateBaseStep, AbsentStep, ModStep, PTL DEF UpdateSpec
=============================================================================
