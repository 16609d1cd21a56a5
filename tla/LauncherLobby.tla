--------------------------- MODULE LauncherLobby ---------------------------
(***************************************************************************)
(* The lobby page of the launcher: the host opens lobbies, chooses a save  *)
(* and shares it from threads of their own while the user clicks on and    *)
(* the lobby's thread posts its status; the launchers of the guests wait   *)
(* for the save.  A push is its first and its last chunk here: what a      *)
(* guest or the cache makes of the chunks is SaveTransfer's.               *)
(*                                                                         *)
(* One port is used throughout.  A seat is the connection of a share.      *)
(***************************************************************************)
EXTENDS Naturals

CONSTANTS Save,       \* the slots in the host's saves folder
          Guest, NoSave,
          MaxLobby,   \* bound: lobbies opened
          MaxShare,   \* bound: shares begun
          MaxTrips    \* bound: choices of a save, joins, failures and timeouts

ASSUME LobbyConstants == NoSave \notin Save /\ MaxLobby \in Nat /\ MaxShare \in Nat /\ MaxTrips \in Nat

VARIABLES
  \* the host's launcher
  handle,     \* self.server: the number of its lobby, 0 for none
  slotBusy,   \* the slot the user interface waits in
  selected,   \* _selected_save
  synced,     \* _synced
  canShare,   \* the Share button
  canStart,   \* the Start button
  present,    \* _connected_players is not 0
  held,       \* _share_client: the share whose client is kept, 0 for none
  \* its threads
  lobbies,    \* the server threads, and the cached copy of each
  shares,     \* the threads of shareSave
  \* connections and guests
  seats,      \* shares whose client is connected
  guests,     \* receive_save_file of each
  \* history
  trips,      \* choices, joins and troubles so far
  overlap,    \* a share was begun while another was under way
  disturbed   \* see SharedIsSelected

screenVars == <<selected, synced, canShare, canStart, present>>
hostVars == <<handle, slotBusy, held, screenVars>>
lobbyHistory == <<trips, overlap, disturbed>>
launcherVars == <<hostVars, lobbies, shares, seats, guests, lobbyHistory>>

LobbyNo == 1..MaxLobby
ShareNo == 1..MaxShare

NoCopy == [save |-> NoSave, open |-> FALSE, sound |-> TRUE]

Copies == [save : Save \cup {NoSave}, open : BOOLEAN, sound : BOOLEAN]
LobbyThreads == [pc : {"unused", "starting", "open", "stopping", "closed"}, copy : Copies]
ShareThreads ==
  [pc : {"unused", "begun", "pushing", "stored", "ended"}, lobby : {0} \cup LobbyNo,
   save : Save \cup {NoSave}]
\* got and inbox hold NoSave for a damaged file.
Receivers ==
  [pc : {"out", "waiting", "held"}, lobby : {0} \cup LobbyNo, follows : SUBSET ShareNo, late : BOOLEAN,
   inbox : SUBSET (Save \cup {NoSave}), got : SUBSET (Save \cup {NoSave})]

LobbyTypeOK ==
  /\ handle \in {0} \cup LobbyNo /\ slotBusy \in {"", "starting", "stopping"}
  /\ selected \in Save \cup {NoSave} /\ synced \in BOOLEAN
  /\ canShare \in BOOLEAN /\ canStart \in BOOLEAN /\ present \in BOOLEAN
  /\ held \in {0} \cup ShareNo
  /\ lobbies \in [LobbyNo -> LobbyThreads] /\ shares \in [ShareNo -> ShareThreads]
  /\ seats \subseteq ShareNo /\ guests \in [Guest -> Receivers]
  /\ \A w \in seats : shares[w].pc # "unused" /\ lobbies[shares[w].lobby].pc \in {"open", "stopping"}
  /\ trips \in 0..MaxTrips /\ overlap \in BOOLEAN /\ disturbed \in BOOLEAN

LobbyInit ==
  /\ handle = 0 /\ slotBusy = "" /\ held = 0
  /\ selected \in Save /\ synced = FALSE /\ canShare = FALSE /\ canStart = FALSE /\ present = FALSE
  /\ lobbies = [l \in LobbyNo |-> [pc |-> "unused", copy |-> NoCopy]]
  /\ shares = [w \in ShareNo |-> [pc |-> "unused", lobby |-> 0, save |-> NoSave]]
  /\ seats = {}
  /\ guests = [g \in Guest |-> [pc |-> "out", lobby |-> 0, follows |-> {}, late |-> FALSE,
                                inbox |-> {}, got |-> {}]]
  /\ trips = 0 /\ overlap = FALSE /\ disturbed = FALSE

-----------------------------------------------------------------------------
Trip == trips < MaxTrips /\ trips' = trips + 1

Underway == {w \in ShareNo : shares[w].pc \in {"begun", "pushing", "stored"}}

Guests(l) == {g \in Guest : guests[g].lobby = l}

Connected(l) == Guests(l) # {} \/ \E w \in seats : shares[w].lobby = l

\* Mutant of Unsync: the flag outlives the choice it belongs to.
UnsyncNever == UNCHANGED <<synced, canStart>>

\* self._synced = False, _update_host_start_button.
Unsync == synced' = FALSE /\ canStart' = FALSE

\* Mutant of WithoutHeld: the client of the last share is forgotten, not closed.
ForgetHeld == seats

\* _disconnect_held closes the client it forgets.
WithoutHeld == seats \ {held}

-----------------------------------------------------------------------------
\* The lobby.

StartLobby ==
  /\ slotBusy = "" /\ handle = 0
  /\ \E l \in LobbyNo :
       /\ lobbies[l].pc = "unused" /\ \A k \in 1..(l - 1) : lobbies[k].pc # "unused"
       /\ handle' = l /\ lobbies' = [lobbies EXCEPT ![l].pc = "starting"]
  /\ slotBusy' = "starting"
  /\ disturbed' = (synced \/ Underway # {})
  /\ UNCHANGED <<held, screenVars, shares, seats, guests, trips, overlap>>

\* _amain: the port is free, or another lobby still has it.
LobbyBinds(l) ==
  /\ lobbies[l].pc = "starting"
  /\ lobbies' = [lobbies EXCEPT ![l].pc =
       IF \E k \in LobbyNo : lobbies[k].pc \in {"open", "stopping"} THEN "closed" ELSE "open"]
  /\ UNCHANGED <<hostVars, shares, seats, guests, lobbyHistory>>

\* start() returns, without a lobby if none is open after ten seconds: its
\* thread runs on.
StartReturns ==
  /\ slotBusy = "starting" /\ slotBusy' = ""
  /\ \/ lobbies[handle].pc = "open" /\ UNCHANGED <<handle, trips>>
     \/ lobbies[handle].pc = "closed" /\ handle' = 0 /\ UNCHANGED trips
     \/ lobbies[handle].pc = "starting" /\ handle' = 0 /\ Trip
  /\ UNCHANGED <<held, screenVars, lobbies, shares, seats, guests, overlap, disturbed>>

\* _on_status of the lobby's thread, once a second.
PostStatus(l) ==
  /\ lobbies[l].pc = "open"
  /\ present' = Connected(l)
  /\ IF handle = 0 \/ lobbies[handle].pc = "closed"
     THEN UNCHANGED <<canShare, canStart>>
     ELSE /\ canShare' = IF Connected(l) THEN selected # NoSave /\ ~synced ELSE canShare
          /\ canStart' = synced
  /\ UNCHANGED <<handle, slotBusy, held, selected, synced, lobbies, shares, seats, guests, lobbyHistory>>

StopLobby ==
  /\ slotBusy = "" /\ handle # 0
  /\ held' = 0 /\ seats' = WithoutHeld
  /\ slotBusy' = "stopping" /\ lobbies' = [lobbies EXCEPT ![handle].pc = "stopping"]
  /\ disturbed' = (disturbed \/ Underway # {})
  /\ UNCHANGED <<handle, screenVars, shares, guests, trips, overlap>>

SeatsElsewhere(l) == {w \in seats : shares[w].lobby # l}

\* MPServer.stop closes every connection, and the port.
LobbyCloses(l) ==
  /\ lobbies[l].pc = "stopping"
  /\ lobbies' = [lobbies EXCEPT ![l].pc = "closed"]
  /\ seats' = SeatsElsewhere(l)
  /\ guests' = [g \in Guest |-> IF g \in Guests(l) THEN [guests[g] EXCEPT !.lobby = 0] ELSE guests[g]]
  /\ UNCHANGED <<hostVars, shares, lobbyHistory>>

\* stop() joins the thread, for five seconds at most.
StopReturns ==
  /\ slotBusy = "stopping" /\ slotBusy' = ""
  /\ \/ lobbies[handle].pc = "closed" /\ UNCHANGED trips
     \/ lobbies[handle].pc = "stopping" /\ Trip
  /\ handle' = 0 /\ Unsync /\ present' = FALSE /\ canShare' = FALSE
  /\ UNCHANGED <<held, selected, lobbies, shares, seats, guests, overlap, disturbed>>

-----------------------------------------------------------------------------
\* Choosing and sharing.

SelectSave ==
  /\ slotBusy = "" /\ Trip
  /\ selected' \in Save /\ Unsync
  /\ disturbed' = (disturbed \/ Underway # {})
  /\ UNCHANGED <<handle, slotBusy, held, canShare, present, lobbies, shares, seats, guests, overlap>>

\* The newest save of the folder.  The list's own selectSave follows only if
\* the index it shows was not the first already.
RefreshSaves ==
  /\ slotBusy = "" /\ Trip
  /\ selected' \in Save \cup {NoSave}
  /\ Unsync \/ UNCHANGED <<synced, canStart>>
  /\ disturbed' = (disturbed \/ (selected' # selected /\ (synced \/ Underway # {})))
  /\ UNCHANGED <<handle, slotBusy, held, canShare, present, lobbies, shares, seats, guests, overlap>>

ShareSave ==
  /\ slotBusy = "" /\ canShare /\ selected # NoSave /\ handle # 0
  /\ \E w \in ShareNo :
       /\ shares[w].pc = "unused" /\ \A v \in 1..(w - 1) : shares[v].pc # "unused"
       /\ shares' = [shares EXCEPT ![w].pc = "begun"]
  /\ canShare' = FALSE
  /\ overlap' = (overlap \/ Underway # {}) /\ disturbed' = (disturbed \/ Underway # {})
  /\ UNCHANGED <<handle, slotBusy, held, selected, synced, canStart, present, lobbies, seats, guests, trips>>

\* The first chunk in the room's cache: the copy of the slot that is being
\* written goes on, a closed one stays.
Opened(copy, save) ==
  IF copy.save # save THEN [save |-> save, open |-> TRUE, sound |-> TRUE]
  ELSE IF copy.open THEN [copy EXCEPT !.sound = FALSE]
  ELSE copy

\* The last one: another slot's copy gives way to a file of one chunk.
Completed(copy, save) ==
  IF copy.save = save THEN [copy EXCEPT !.open = FALSE]
  ELSE [save |-> save, open |-> FALSE, sound |-> FALSE]

\* The thread drops the client of the last share, reads the choice and the
\* handle, connects and pushes the first chunk.
ShareConnects(w) ==
  /\ shares[w].pc = "begun"
  /\ selected # NoSave /\ handle # 0 /\ lobbies[handle].pc = "open"
  /\ held' = 0 /\ seats' = WithoutHeld \cup {w}
  /\ shares' = [shares EXCEPT ![w] = [@ EXCEPT !.pc = "pushing", !.lobby = handle, !.save = selected]]
  /\ lobbies' = [lobbies EXCEPT ![handle].copy = Opened(@, selected)]
  /\ guests' = [g \in Guest |-> IF g \in Guests(handle)
                                  THEN [guests[g] EXCEPT !.follows = @ \cup {w}] ELSE guests[g]]
  /\ UNCHANGED <<handle, slotBusy, screenVars, lobbyHistory>>

\* The server has the last chunk, relays it and acknowledges it.
ShareStored(w) ==
  LET l == shares[w].lobby
  IN  /\ shares[w].pc = "pushing" /\ lobbies[l].pc = "open"
      /\ lobbies' = [lobbies EXCEPT ![l].copy = Completed(@, shares[w].save)]
      /\ guests' = [g \in Guest |-> IF g \in Guests(l) /\ w \in guests[g].follows
                                      THEN [guests[g] EXCEPT !.inbox = @ \cup {shares[w].save}] ELSE guests[g]]
      /\ shares' = [shares EXCEPT ![w].pc = "stored"]
      /\ UNCHANGED <<hostVars, seats, lobbyHistory>>

\* _on_share_done(True, ...).
ShareDone(w) ==
  /\ shares[w].pc = "stored"
  /\ shares' = [shares EXCEPT ![w].pc = "ended"]
  /\ held' = w
  /\ synced' = TRUE /\ canStart' = TRUE /\ canShare' = present
  /\ UNCHANGED <<handle, slotBusy, selected, present, lobbies, seats, guests, lobbyHistory>>

\* An exception: no lobby, no save, a broken connection or a timeout.
ShareFails(w) ==
  LET unlucky == IF shares[w].pc = "begun"
                   THEN selected # NoSave /\ handle # 0 /\ lobbies[handle].pc = "open"
                   ELSE lobbies[shares[w].lobby].pc # "closed"
  IN  /\ w \in Underway
      /\ IF unlucky THEN Trip ELSE UNCHANGED trips
      /\ shares' = [shares EXCEPT ![w].pc = "ended"]
      /\ seats' = (IF shares[w].pc = "begun" THEN WithoutHeld ELSE seats \ {w})
      /\ held' = 0
      /\ disturbed' = (disturbed \/ shares[w].pc # "begun")
      /\ UNCHANGED <<handle, slotBusy, selected, synced, canShare, canStart, present, lobbies, guests, overlap>>

StartGameHost ==
  /\ slotBusy = "" /\ canStart /\ handle # 0
  /\ canStart' = FALSE
  /\ UNCHANGED <<handle, slotBusy, held, selected, synced, canShare, present, lobbies, shares, seats,
                 guests, lobbyHistory>>

-----------------------------------------------------------------------------
\* The guests.

\* Mutant of Replayed: nobody asks for the copy.
ReplayedNever(l) == {}

\* The reply to the SAVE_REQUEST that follows the WELCOME.
Replayed(l) ==
  LET copy == lobbies[l].copy
  IN  IF copy.save = NoSave \/ copy.open THEN {} ELSE {IF copy.sound THEN copy.save ELSE NoSave}

\* joinLobby: the client of the last join is closed first.
GuestJoins(g) ==
  /\ guests[g].pc # "waiting" /\ Trip
  /\ \E l \in LobbyNo :
       /\ lobbies[l].pc = "open"
       /\ guests' = [guests EXCEPT ![g] =
            [pc |-> "waiting", lobby |-> l, follows |-> {}, late |-> lobbies[l].copy.open,
             inbox |-> Replayed(l), got |-> @.got]]
  /\ UNCHANGED <<hostVars, lobbies, shares, seats, overlap, disturbed>>

\* receive_save_file returns at the first save; nothing pumps the client it
\* keeps.
GuestReceives(g) ==
  /\ guests[g].pc = "waiting" /\ guests[g].inbox # {}
  /\ guests' = [guests EXCEPT ![g] = [@ EXCEPT !.pc = "held", !.got = guests[g].got \cup guests[g].inbox, !.inbox = {}]]
  /\ UNCHANGED <<hostVars, lobbies, shares, seats, lobbyHistory>>

\* No save within two minutes, or the launcher is closed.
GuestLeaves(g) ==
  /\ guests[g].pc # "out"
  /\ IF guests[g].lobby = 0 THEN UNCHANGED trips ELSE Trip
  /\ guests' = [guests EXCEPT ![g] = [@ EXCEPT !.pc = "out", !.lobby = 0, !.inbox = {}]]
  /\ UNCHANGED <<hostVars, lobbies, shares, seats, overlap, disturbed>>

LobbyNext ==
  \/ StartLobby \/ StartReturns \/ StopLobby \/ StopReturns
  \/ \E l \in LobbyNo : LobbyBinds(l) \/ PostStatus(l) \/ LobbyCloses(l)
  \/ SelectSave \/ RefreshSaves \/ ShareSave \/ StartGameHost
  \/ \E w \in ShareNo : ShareConnects(w) \/ ShareStored(w) \/ ShareDone(w) \/ ShareFails(w)
  \/ \E g \in Guest : GuestJoins(g) \/ GuestReceives(g) \/ GuestLeaves(g)

LobbySpec == LobbyInit /\ [][LobbyNext]_launcherVars

-----------------------------------------------------------------------------
\* A share that nothing disturbs means what it says: as long as _synced is set,
\* the open lobby has a whole copy of the selected save for whoever joins.
\* Disturbed are a share during another, another choice or another lobby while
\* one is under way, one cut short, and a refresh that changes the choice.
SharedIsSelected ==
  synced /\ handle # 0 /\ slotBusy = "" /\ ~disturbed =>
    lobbies[handle].copy = [save |-> selected, open |-> FALSE, sound |-> TRUE]

\* No share leaves a seat in the room that nothing will ever close, unless two
\* ran at once (launcher_lobby._disconnect_held, lobby.push_save_file's held).
SeatsAreHeld == overlap \/ seats \subseteq Underway \cup {held}

\* A guest that waits in a lobby with a finished copy has a save coming, unless
\* it joined in the middle of a push (lobby.receive_save_file, SAVE_REQUEST).
WaitingIsServed ==
  \A g \in Guest :
    LET l == guests[g].lobby
    IN  guests[g].pc = "waiting" /\ l # 0 /\ ~guests[g].late =>
          lobbies[l].copy.save = NoSave \/ lobbies[l].copy.open \/ guests[g].inbox # {}
=============================================================================
