# SimsMultiplayerMod in TLA+

A relay server (`src/server`, one asyncio loop) keeps the authoritative state
of co-op rooms for The Sims 4; a game script (`src/client_mod`) connects each
game to it; a launcher (`src/tools`) keeps both up to date, opens lobbies and
hands the host's save to the guests.  This directory models the parts whose
correctness depends on the order of steps of several actors, checks them with
TLC and proves most of the invariants with TLAPS.

## Inventory

| Component | State | Operations | Hard part | What makes it correct |
|---|---|---|---|---|
| Session state, `server/state/session.py` | players, client ids, rooms and rosters, owners and interactions per room and zone, cooldowns, readiness | create, adopt, disconnect, move, claim, release, request, end, expire, evict | one player, several connections; release from four places | rosters agree with players; nothing is reserved for a forgotten player; cooldown after every use |
| Handlers, `server/protocol/handlers.py` | locals kept across awaits | one handler per frame type | state changes on both sides of an await | as above, between any two awaits |
| Connections, `server/networking/` | open connections, their player and room | read loop, close, disconnect path, reaper | a stale socket's end races the HELLO that replaces it | a stale connection changes nothing |
| Travel, `server/travel/coordinator.py` | one slot per room, sessions, timers | request, answer, ready, watchdogs, disconnect | supersession, timers and clean-ups around broadcasts | all or nothing, every travel ends, one per room |
| Clock gate, session + handlers + `connectivity.py`, `deep/clock.py` | readiness, desired speed, what clients reported, the speed every game runs at | TIME_READY/UNREADY/SPEED, sync, tick, relay to the host | readiness cleared late or for others; forced pauses taken for a user's; changes that cross | closed while anyone is loading; opens again; one speed, one somebody picked |
| Reliable events, `networking/engine.py` + EVENT handler | sequence numbers, unacked events, last number seen | send, ack, re-send, relay | two threads on one socket, reconnects, new engines, overflow | relayed once and in order; acknowledged means relayed |
| World replication, `state/world.py`, `connectivity.py` + OBJECT_* handlers | catalog, mirrors, claims under way, denials | tick, claim, release, update, remove, snapshot, reclaim | replies overtake broadcasts; an update that fails half way; denials that nothing lifts | mirrors converge on the catalog; every claim is answered |
| Client interaction mirror, `state/interactions.py`, `connectivity.py` | grants as the client sees them, denials, what was held at a drop | sample, propose, end, push, reclaim | samples against grants against snapshots | mirrors agree; who holds runs it |
| Client life cycle, `connectivity.py`, `engine.py`, `state/session.py` | engine thread, queue, back-off, captured state | connect, reconnect, reclaim, report | two threads, alarms, late frames | one engine; what was held is asked for again |
| Save transfer, `state/save_transfer.py` + SAVE_* | cached file, inbox chunks | push, relay, request, replay | re-push, two pushers, cut push | what is written is one complete push |
| Funds, `connectivity.py` + FUNDS_SYNC | balance of a room, baselines | sample, store, echo, apply | late joiners, echoes against own changes | games agree when quiet |
| Deep session, `deep/session.py` + SESSION_ROLE, DEEP_RELAY | host of a room, roles | claim, clear, move, relay | a host that moves, drops or is evicted | players agree on the host; relays reach it |
| Wire protocol, `protocol/simmp` | decoder buffer | encode, feed, validate | frames after a bad one | sequential |
| Game hooks and deep features | held by the game | patches of game functions | depend on the game itself | not stated here |
| Updater, `tools/updater.py`, `launcher_setup.py`, `make_manifest.py`, `build_script_mod.py` | files beside the .exe, `version.json`, the mod in the Mods folder, what a session has mounted | publish, check, download, record, reinstall, install | failures and crashes between files; a cached manifest; two threads on one folder; what was imported before the download | the record tells what is on disk; the mod is built from it |
| Launcher and lobby tools, `tools/launcher_lobby.py`, `launcher_setup.py`, `lobby.py` | handle of a lobby, choice of a save, shared flag, client of the last share | open, stop, choose, refresh, share, join, receive | shares, stops and choices from threads of their own; a client kept after its share | what is marked as shared is what guests get; no seat is forgotten; nobody waits in vain |
| Diagnostics and console | files, UI | | | not stated here |

Interactions: clients send frames over TCP; the server handles those of one
connection in order and those of different connections interleaved at awaits.
Handlers call the session synchronously and broadcast through
`MPServer.broadcast_room`/`broadcast_zone`.  The reaper and the travel watchdogs
are tasks of the same loop.  On the client an engine thread feeds a queue that
an alarm on the game thread drains; the same alarm runs the ticks that compare
the game with the mirrors and send what differs.

`PROJECT.json` lists the hazards found at their lines, each with the property
that watches it.

### What an await means

`conn.send` writes directly and suspends only above the socket's high-water
mark; it raises when the socket is closed, which ends the handler.  A broadcast
(`asyncio.gather`) suspends whenever it has recipients, and its sends run as
tasks of their own, in the order they were made: a direct reply can overtake a
broadcast made before it.  `Connection.close` waits up to 2 s.  A step of a model
is the code between two awaits that can suspend and have state on both sides.

## Modules

| Module | Models | Kind |
|---|---|---|
| `KeyReservation` | what using an object promises: one holder, a grant only when free and cool, a cooldown after every loss | abstract |
| `ServerSession` | session state, handlers that change it, connection life cycle, reaper | detailed |
| `GroupTravel` | a travel's promise: all agree before anyone leaves, over only when all arrived, final | abstract |
| `TravelCoordinator` | the travel coordinator and the disconnects and moves around it | detailed |
| `ClockGate` | readiness, the gate, its announcements and the clients' reports, over rooms and zones | detailed |
| `RoomSpeed` | the room's speed, every game's own, forced pauses, echo windows, relays to the host | detailed |
| `EventLog` | what a room may expect of a player's events: once, in order, what is given up stays so | abstract |
| `ReliableEvents` | the two threads of a client engine, the socket, the EVENT handler | detailed |
| `WorldReplication` | the object catalog of a zone, its mirrors, claims, updates, removals, reclaims | detailed |
| `InteractionMirror` | the interactions of a zone: samples, grants, mirrors, pushes, denials, reclaims | detailed |
| `SaveTransfer` | save files in chunks: push, relay, cached copy, replay, reassembly | detailed |
| `DeepSession` | who is a room's host, and the commands relayed to it | detailed |
| `HouseholdFunds` | the household balance | detailed |
| `RuntimeUpdate` | releases, checks, downloads, the record of what was applied, the mod | detailed |
| `LauncherLobby` | the lobby page: lobbies, shares, waiting guests | detailed |
| `Players` | the players and their `None`, common to `ClockGate`, `WorldReplication`, `DeepSession`, `HouseholdFunds`, `InteractionMirror`, `SaveTransfer` | constants |
| `MCServerSession`, `MCTravelCoordinator` | symmetry sets for TLC | instances |
| `MCRooms`, `MCLive`, `MCTravelAndLauncher` | several components in one run | instances |
| `*_proofs` | theorems about the module named (`ServerSession_proofs` also about `KeyReservation`) | proofs |
| `Launcher_proofs` | theorems about `LauncherLobby`, `RuntimeUpdate` | proofs |
| `RoomAgreement_proofs` | theorems about `HouseholdFunds`, `InteractionMirror`, `DeepSession` | proofs |
| `RoomStreams_proofs` | theorems about `RoomSpeed`, `SaveTransfer` | proofs |

The components below the two large ones share no state that the properties tell
apart, so `MCRooms`, `MCLive` and `MCTravelAndLauncher` compose them side by side: a variable `focus`
chooses the component of a behaviour, the others rest, and the state spaces add
up instead of multiplying.

A mutant of a definition (`... Mutant of`) is what that definition would be after
a plausible mistake; each property is broken by one.  History variables record
the cases the code does not handle, so that a property can say "but for these"
and nothing else escapes it.

### ServerSession

State: `registered`, `identity`, `connection`, `roomOf`, `clockReady`,
`clockZone`, `members` are the attributes of `Session`, `Player` and `Room`;
`owner`, `holder` and `cooling` are the catalog, the interaction table and the
cooldowns, all indexed by `Slot` (room, zone, key) as in `_zone_key`; `who`,
`connRoom`, `closed` are attributes of `Connection`; `pc` and `target` say where
a connection's task is suspended and with which local.

| Action | Code |
|---|---|
| `HelloNew`, `HelloAnonymous` | `_handle_hello`, new player with and without a `client_id` |
| `HelloResume` | the same, the old socket gone or closed |
| `HelloTakeover`, `HelloAdopt` | the same, before and after `await old_conn.close()` |
| `HelloFinish` | its end: readiness is cleared after the snapshots |
| `Break`, `Disconnect` | a failing socket or an idle one; `_on_connection`'s `finally` |
| `EvictGhost` | `expire_ghosts` |
| `JoinRoom`, `JoinRoomFinish` | `_handle_join_room` before and after its broadcasts |
| `TimeReady`, `TimeReadyLeave`, `TimeReadyArrive` | `_handle_time_ready`, nothing to release / released and announcing / arriving |
| `TimeUnready` | `_handle_time_unready` |
| `ObjectClaim`, `ObjectRelease` | OBJECT_CLAIM; OBJECT_RELEASE and OBJECT_GONE of an owned object |
| `InteractionRequest`, `InteractionEnd` | INTERACTION_REQUEST, INTERACTION_END |
| `ExpireInteraction`, `CooldownOver` | the watchdog; a cooldown's end |

Requests the code refuses change nothing and are stuttering steps.

Assumptions and abstractions:

- `SerialHello`: a client does not send a second HELLO of its own while one
  still waits (2 s at most) for the stale socket.  The client's back-off is at
  least 2 s, but a manual reconnect can come sooner; without the assumption the
  older of the two new connections stays open beside its player, which
  `OnePlayerOneConnection` and `HoldersRegistered` then exempt.
- `EvictGhost` waits for closed connections of the player and for a HELLO that
  is adopting it: the ownership TTL is 60 s, these last seconds.
- Time is not counted: the watchdog, the end of a cooldown and an eviction may
  come whenever their condition holds.  This has more behaviours than the code.
- A connection a takeover closed may handle frames it had buffered; the code
  stops at the first one whose direct reply fails, the model may go on.
- The zone of a world write is a free choice from `Stamp` (`_zone_of` takes the
  client's stamp).
- Lobby seats and presence are left out; payload fields, the deep host and the
  clock speed are in modules of their own.

### TravelCoordinator

`active` is `_active`; `status`, `roomFor`, `requester`, `members`, `accepted`,
`ready`, `timer` are the attributes of `TravelSession`; `toInvite` is what the
loop over `session.invited` has left; `doomed` are the tasks of
`cancel_on_disconnect`; `unwinding` are aborts by tasks that still have to clear
the slot; `pc`/`job` are suspended handlers.

`Request`, `RequestSupersede`, `RequestResume`, `Invite`, `InvitesSent` are
`start`; `Accept`, `Decline` are `respond`; `Ready`, `ReadyElsewhere` are
`ready`; `Begun` is the end of `_begin`; `Closed` and `Unwind` are the end of
`complete`/`abort` in a handler and in a task; `Watchdog`, `AbortDoomed` the
tasks; `Connect`, `Disconnect`, `JoinRoom` the session around it.

Who waits for a slow socket is served in the order in which it came
(`Connection.send` drains after it has written).  So a request whose invitation
waits for a socket (`stalledOn`, set by `Stall`) holds up every later broadcast to
a room its invitee is in: `Broadcast` notes whom it has to wait for in
`queuedBehind`, and `RequestResume`, `Begun` and `Closed` wait until `BroadcastMoves`.
A broadcast to a room the slow invitee has left does not wait.  No other order
between suspended handlers is assumed, and none for the aborting tasks, which
gives more behaviours than the code has.

An arrival is in the right zone or not; a `request_id` is used by one request
(the client draws them at random); a player whose handler is suspended is not
taken over meanwhile.

### ClockGate

`seat`, `room`, `ready`, `zone`, `desired` are the session's; `task` is where the
handler of a player's connection is suspended and `late` the same for a
connection that was taken over; `game`, `sent`, `unsent`, `readyZone` are the
client's `_maybe_sync_clock` state; `heard` is the last TIME_SYNC.

`TickPlaying`, `TickAway`, `TickQuiet`, `TickSettled` are the branches of
`_maybe_sync_clock`; `MarkReady`, `TypeJoin`, `ChangeSpeed` the console commands;
`Hello`, `HelloFinish`, `TimeReady`, `TimeReadyLeave`, `TimeReadyArrive`,
`TimeUnready`, `TimeSpeed`, `JoinRoom`, `JoinRoomFinish`, `JoinRoomDies`,
`Disconnect`, `DisconnectFinish`, `EvictGhost`, `LateFinish` the server.

A TIME_SYNC is delivered at once (RoomSpeed has it in flight).  One taken-over
handler per player is kept; it announces the player's room, in the code the room its
old connection was in (`handlers.py:749`), which only differs after a move.  Ghosts live longer than handlers.  Four history
variables hold what the code forgets: `skipped` (JOIN_ROOM died at a reply, the
room it left is not told), `forgotten` (readiness cleared by JOIN_ROOM or by
another player's travel, unknown to the client), `vouched` (a WELCOME drained
after TIME_READY, with the zone left meanwhile: TIME_UNREADY is never sent),
`revived` (a handler that outlived its connection marks the player ready).

### RoomSpeed

`pace` is the room's speed on record (`Room.clock["desired"]`), `speed` the client's `time_speed`, `local`
the speed its game runs at, `opened` and `echo` the two windows in which a tick
does not publish.  `TickHolds` is the pause of every tick while the game is held,
`TickPlays` the comparison of the game with the room, `TickReports` TIME_READY;
`ReadWelcome`, `ReadRoster`, `ReadTimeSync`, `ReadRelay` are `_handle_message` and the
host's `_host_set_clock_speed`; `PickInGame` is a change in a game (a joiner's
overrides relay it too), `PickByCommand` `change_clock_speed`.  `Break` keeps part of
what was on its way.  `hasty` are clients that published before they read their
WELCOME.  The model starts with everybody present; zone changes, evictions and
takeovers are in ClockGate.

### ReliableEvents

One client identity.  `pending` is `_pending`, `pc` and `todo` are the engine thread
between its steps, `posting` is `send_event` of the game thread between its append
and its send; `wire`, `old`, `acks` are frames in flight, `old` those of the broken
connection that the server still reads.  `Restart` is a new `ClientEngine` of the
same identity, numbered from 1.  `crossed`, `cut`, `numbered` are the three reasons
an event can be settled without a relay: a later one went past it while it was
re-sent, its handler ended at the failed acknowledgement, another engine had
numbered the record.

### WorldReplication

`exists`, `owner`, `value` are the catalog; `mirrorOwner`, `mirrorValue` the mirrors;
`driven`, `inFlight`, `denied`, `dropped` the client's `_driven_sim_key`,
`_claimed_in_flight`, `_claim_denied_until` (infinite), `_dropped_owned`.  `SampleTick` is
the whole of `_maybe_send_world_update`: release of the sim that is no longer
driven, claims, then the update.  Broadcasts wait in `outbox`; replies go to the
inbox at once.  One zone and one field; FIFO connections make the `seq` of deltas
redundant.

A connection that breaks, is closed by a takeover (`handlers.py:133`) or reaped
(`server.py:278`) is still read for what it had received, `lateWire`, a prefix of
what was on its way.  The first direct reply on it raises: `LateClaim` and
`LateRelease` change the owner and tell nobody (`handlers.py:376`, `414`), `LateRefusal`
leaves what an update stored before its locked key, `LateInVain` changes nothing,
and the reading ends there (`HangsUp`).  `LateUpdate` and `LateGone` need no reply, are
broadcast as ever, and the next frame is read.  A connection is read to its end
before the player's next one breaks or its ghost is evicted, and its handlers
wait for the player's last broadcast.

`unheard`, `astray`, `stranded`, `shut` are the exceptions: values stored by an update
that was then refused; owners told out of order, or changed by a claim or a
release that ended at its reply; claims lost with a connection; denials no
ownership frame lifts, those of a key released to nobody's knowledge among
them.  The snapshot of
the next connection ends `unheard` and `astray`, the next ownership broadcast of a
key `astray` and `shut`.

### InteractionMirror

`table` and `cooling` are the server's; `mirror` is the client's
`InteractionMirror.interactions`, `doing` what its sampler reports, `denied`
`_denied_until`, `kept` `_dropped_held`.  `Tick` is the whole of
`_maybe_send_interactions`; `Request`, `End`, `Expire`, `Evict` the server; `Notify`
pushes what others hold onto one's own copies of the sims, and may fail;
`ReadState` is the snapshot after a reconnection and the reclaim that follows it.
A pushed interaction is sampled like any other: when its holder's ends, this
client may propose it back.  One room, one zone; who owns which sim in the
world catalog is fixed; a broadcast is delivered with the step that makes it.

### SaveTransfer

A file is the sequence of its bytes, no two pushes share one, so a file put
together from two pushes shows.  `CacheAndRelay` is `_handle_save_push` with
`_cache_save_chunk`, `Replay` the answer to SAVE_REQUEST, `Feed` `SaveInbox.feed`.
`spoilt`, `muddled`, `same` are slots in which pushes were cut, overlapped or
looked like the cached copy.

### DeepSession

`ServeHostClaim`, `ServeJoinerClaim`, `ServeJoinRoom`, `ServeCommand`, `Enter`, `Reap` are
the server; `HandleHost`, `HandleRole`, `HandleCommand`, `Lose` the client's
`DeepSession`.  Those in `wantsHost` (any of `Claimant`) are configured to claim
the role with their HELLO.  A DEEP_HOST broadcast (`handlers.py:934`) waits in
`tasks` for its turn, while the reply to a JOIN_ROOM or a HELLO and the relay of a
command (`handlers.py:983`) are written at once and overtake it (`Overtakes`).

`misled`, `vacated`, `yielded`, `early` are the exceptions: members who are not told of
a host that came with `want_host`, who came into a room without one, or whose
reply overtook a broadcast; rooms whose host left or was evicted; rooms whose
host gave up; rooms with a command, or a HELLO's reply, that overtook a broadcast
to the host.

### HouseholdFunds

`SampleFunds` is `_maybe_sync_funds`, `ServeFunds` the handler, `ApplyFunds` the echo.
`behind` are players who came after the last echo: nothing sends them the
balance, although the comment at `session.py:58-61` says a late joiner sees it.

### RuntimeUpdate

`published` are the manifests `make_manifest.py` has pushed, `disk` the files under
`CODE_ROOT`, `version` the release `version.json` records, `mod` the files in the Mods
folder, `fromRuntime` whether the session's `build_script_mod` was imported from the
runtime (only its own file decides, `build_script_mod.py:23-36`), `check` the thread of
`_check_updates` with what it has left to fetch.  `CheckOffline`, `CheckCurrent`,
`CheckPlans` are the ways out of `sync`; `Fetched` and `Missed` a file of `apply_changes`
that a verified copy was found for or not; `GiveUp` and `Record` what `_on_update_done`
makes of it; `ThreadDies` an exception nothing catches.  `Quit` takes the threads with
it wherever they are.  A thread that ends in the write of `version.json` leaves it as
it was or truncated (`VersionLeft`).

`copier` are the threads in `cmd_dev`: those of the button (`Installer`, a press each,
as the button is never disabled) and the one of the check (`Checker`).  All of them
work on one folder, step by step beside each other and beside the check's
downloads: `Audited`; `Wipe`, a file of `rmtree`, and `Wiped`, its end with an empty
folder; `Copy`, a file of `_copy_tree`, scripts before protocol, as the source tree has
it at that moment; `Installed`; `InstallFails`, when a file is held open or threads get
in each other's way (`Collides`); `AuditExits`, the `SystemExit` that leaves
`_update_busy` set.  One file is removed or copied in one step: Windows, where the
game runs, lets no open file be replaced or removed.

A file is its digest; the manifest's digest of each file makes a bad copy a missing
one.  `Served` lets a check see a manifest that is `MaxAge` behind, as the raw CDN's
cache does.  `written` are files the check under way has written, `torn` those of
checks that were never recorded, `behind` the files of the mod that an install has
failed for, has skipped, or has copied from the .exe; `Pending` those that some
thread has yet to copy.

### LauncherLobby

`handle` is `self.server`, `selected`, `synced`, `canShare`, `canStart` and `held` the page's
`_selected_save`, `_synced`, the two buttons and `_share_client`; `lobbies` are the
server threads, each with the room's cached copy, `shares` the threads of
`shareSave`, `guests` the launchers in `receive_save_file`.  `StartLobby`, `LobbyBinds`,
`StartReturns`, `StopLobby`, `LobbyCloses`, `StopReturns` are the two sides of
`ServerHandle.start` and `stop`; `ShareSave`, `ShareConnects`, `ShareStored`, `ShareDone`,
`ShareFails` those of a share; `PostStatus` the lobby's report once a second;
`SelectSave`, `RefreshSaves`, `StartGameHost` the user; `GuestJoins`, `GuestReceives`,
`GuestLeaves` the others.

A push is its first and its last chunk.  `overlap` says that a share was begun while
another was under way, `disturbed` that a share was crossed by another choice, lobby
or share, or cut, and `late` that a guest joined in the middle of a push.

## Runs

| Run | Checks | Shows |
|---|---|---|
| `session` | `TypeOK`, `RostersAgree`, `OnePlayerOneConnection`, `HoldersRegistered`, `ReservesKeys`, `GhostKeepsObjects` | the server's state is consistent between any two awaits |
| `travel`: `TravelCoordinator` | `EveryTravelHasDeadline`, `FinishedLeavesSlot`, `DropAborts`, `ActiveKeepsSlot`, `KeepsPromise` | supersession, drops and timeouts in any order |
| `travel`: `LauncherLobby` | `SharedIsSelected`, `SeatsAreHeld`, `WaitingIsServed` | what the page says of a share, and what guests get of it |
| `travel`: `RuntimeUpdate` | `RecordIsOnDisk`, `ModFollows` | what failures, crashes, cached manifests and overlapping installs leave on disk, and in the game |
| `travel_live` | `EveryTravelEnds` | moves during a travel; no travel lasts for ever |
| `rooms`: `ClockGate` | `AnnouncedIsCurrent`, `NobodyPlaysAhead`, `ReportsCount` | the gate is shut while anyone is loading, everybody knows it, and a report counts, but for the cases the history variables name |
| `rooms`: `WorldReplication` | `CatalogIsMirrored`, `ClaimsSettled` | a quiet mirror equals the catalog; no claim waits for ever; what a client gave up on, it has a reason to |
| `rooms`: `SaveTransfer` | `FilesWhole`, `LatestArrives` | what is written is one complete push, and the last one |
| `rooms`: `RoomSpeed` | `SpeedExplained`, `SpeedsAgree` | the room runs at a speed somebody picked or at a reconnection's pause; quiet games run at it |
| `live`: `ReliableEvents` | `LossesExplained`, `AckedIsSettled`, `KeepsOrder`, `PendingDrains` | relayed once and in order; what is lost is lost for a named reason; the pending list empties |
| `live`: `DeepSession` | `RolesAgree`, `CommandsHeard` | quiet members agree on the host; relays reach it |
| `live`: `HouseholdFunds` | `FundsConverge` | quiet games show the room's balance |
| `live`: `InteractionMirror` | `MirrorsTell` | a quiet mirror equals the table; who holds an interaction runs it, or its sampler went silent |
| `live`: liveness of the others | `GateOpens`, `GoneOwnersLetGo`, `SpeedSettles` | a gate that can open is heard to open; an owner that is gone comes back or loses what it owned; the games come to one speed |
| `takeover` | `TakeoverKeepsPlayer` violated | finding 1 |
| `travel_release` | `TravelReleasesOldZone` violated | finding 2 |
| `two_travels` | `OneTravelPerRoom` violated | finding 3 |
| `invite_deadline` | `TravelingHasReadyDeadline` violated | finding 4 |
| `released_claim` | `ReleasedCanBeClaimed` violated | finding 5 |
| `acked_relayed` | `AckedWasRelayed` violated | finding 6 |
| `reconnect_pause` | `SpeedIsChosen` violated | finding 7 |

`rooms`, `live` and `travel` also check the type invariants of their components
(`RoomsTypeOK`, `LiveTypeOK`, `HostTypeOK`).  The first two have about half a million to a million distinct states; the others fewer.

### Bounds

Where a constant is a set, the configuration is its only bound.  Bounds on
counters are constants that guards name.

| Component | Instance | Cases it holds |
|---|---|---|
| `ServerSession` | 2 players, 2 connections, 2 clients, 2 rooms, 2 zones, 1 key; for liveness 1 player, 3 connections, 1 client, 1 zone | a takeover, and of a takeover; an owner and somebody who wants the key; what is left behind against what is current |
| `TravelCoordinator` | 3 players, 2 sessions, 1 room; for liveness 2 players, 2 sessions, 2 rooms; 3 sessions where two requests supersede one; 3 players, 2 rooms, 1 session for the slow invitation | a requester and two invitees in any order; a session superseded or cleaned up late, and its successor |
| `ClockGate` | 2 players, 2 rooms, 2 zones, `MinPlayers` 1, one frame on its way per client (`MaxFrames`), 2 drops, takeovers or moves (`MaxTrouble`); for liveness 1 room, `MinPlayers` 2, `MaxTrouble` 1 | one loads while the other plays, travels, drops or is evicted; a handler that outlives its connection |
| `WorldReplication` | 2 clients, a sim and another object, 2 values, 3 frames on their way (`MaxWire`), 4 changes by users, drops or removals (`MaxMoves`) | two claims that cross, an update refused at its second key, a reclaim that finds another owner |
| `SaveTransfer` | 2 slots, chunks of 2 bytes, files of up to 3 (`MaxBytes`), 2 pushes, 1 broken connection | files of one and of two chunks; two pushers of one slot; a push that is cut |
| `RoomSpeed` | 2 players, one of them host, speeds 0 to 2, 2 changes or breaks (`MaxActs`); for liveness 1 | two changes that cross; a change and a reconnection |
| `ReliableEvents` | a pending list of 1, 2 numbers, 2 engines, 1 break | overflow, a re-send past a new event, an engine that starts again from 1 |
| `DeepSession` | 2 players, one of whom may be configured to be host (`Claimant`), 2 rooms, 3 claims, moves, commands, drops or evictions (`MaxDeeds`) | a host that moves, drops, is evicted or is contested |
| `HouseholdFunds` | 2 players, 2 balances, 2 changes, 1 absence | changes that cross; a late joiner |
| `RuntimeUpdate` | 3 files (the builder, a script, a file of the protocol), the button's thread and the check's, 2 digests, 2 releases (`MaxRelease`), manifests up to 1 behind (`MaxAge`), 1 failure, crash or restart (`MaxTrouble`) | a check that fails between two files, and the next one; a cached manifest after a new one; an install that copies while the check writes, and one that removes what another copies |
| `LauncherLobby` | 2 saves, 1 guest, 2 lobbies, 2 shares, 3 choices, joins, failures or timeouts (`MaxTrips`) | two shares at once, a lobby stopped during one, a guest that joins in the middle |
| `InteractionMirror` | 2 clients, 2 sims (one driven), 2 actions, 2 frames on their way, 2 deeds (`MaxStirs`) | a request against a grant, a replaced interaction, an eviction, a reclaim |

Symmetry (players, connections, clients; players, zones and values in `rooms`,
players and saves in `travel`) is
used only where no liveness is checked.  Larger instances of the small modules
passed when they were run alone: `RuntimeUpdate` with 2 failures
(3.6 million states), `ReliableEvents` with a pending list of 2 and 3
numbers (14.8 million states), `InteractionMirror` with 3 deeds (2.0 million),
`SpeedSettles` with 2 acts, and `DeepSession` with 4 deeds (0.8 million) together with
the inductive invariant of its proof.  For the components that
the theorems below speak of, those take over where the bounds end.

Deadlock is not checked: connections, ids, travels and acts may all be used up.

### Findings

1. `handlers.py:133`.  The player still points at the old connection while HELLO
   waits for it to close, so the guard of `disconnect_player` lets the stale
   socket tear the player down: its travels are cancelled and the room sees
   PLAYER_LEFT and then PLAYER_JOINED.  `session.py:160-162` and
   `architecture.md:96-97` say this path is a no-op.
2. `handlers.py:713`.  The old zone is released only if the player was ready;
   TIME_UNREADY on the way out, as the client sends it, skips the release that
   `protocol.md:133-136` promises.
3. `coordinator.py:60`.  Two requests that supersede the same travel both end up
   active; `protocol.md:86` says one per room.  The travel outside the slot is
   deaf and dies at its invite timeout.
4. `coordinator.py:95`.  The invite watchdog is armed after the last invitation,
   whatever the travel has come to.  TLC's trace: a invites b, then waits for the
   socket of c, which is slow to read; c has the invitation, accepts and goes to
   another room (a JOIN_ROOM its session acts on); b accepts, and TRAVEL_BEGIN goes
   to a and b alone, so nothing makes it wait behind the invitation.  The ready
   watchdog is armed, then a's handler goes on and puts the invite watchdog in
   its place.  While c stays in the room TRAVEL_BEGIN has to wait for the same
   socket, behind the invitation, and the ready watchdog comes last.
5. `connectivity.py:1592`.  When the user selects another sim, one tick releases
   the old one and then updates it, because the mirror still has it as this
   client's own.  The server refuses the update with "locked by player None"
   (`handlers.py:447`), and the client gives the sim up for good
   (`connectivity.py:1123`), after the acknowledgement that would have cleared
   the denial.
6. `handlers.py:251`.  The server takes every number not above the last one it
   has seen for one it has relayed.  An event that a later one overtook while it
   was re-sent (`engine.py:390`), or the first events of a new engine under the
   old record, are acknowledged and relayed to nobody.
7. `connectivity.py:592`.  A client that loses its connection pauses its game.
   Connected again, and before it has read its WELCOME, a tick takes that pause
   for a change of the user's and publishes it: the room stays paused when
   everybody is ready again.  `test_time_sync.py:192` says it resumes at the stored
   speed.

Findings 1, 3, 5 and 7 were reproduced on the Python code itself.  Seen on the
way, and stated by no run: `session.py:58-61` says a late joiner sees the room's
balance, and nothing sends it; `protocol.md:120` says ownership dies with the
connection, which the section on ghost ownership of the same file contradicts;
`protocol.md:185-186` says interactions the sampler no longer reports are
ended, and an empty sample ends none (`connectivity.py:1800`), so that only the
300 s watchdog frees them, which is the exception in `HoldersRunOrIdle`.  Of the
launcher, reproduced on the Python code where it can run without a game:

- `updater.py:262` compares a new manifest with the recorded one, not with the disk:
  after an update that failed half way, a release that goes back to an older file
  leaves the newer one in place, under "Up to date" (`launcher_setup.py:155`).
- `build_script_mod.py:29` builds from the tree its module was imported from: the
  first update of a fresh .exe reinstalls the .exe's own mod
  (`launcher_setup.py:160`), where the repository's `README.md:226` promises the updated one.
- `launcher_setup.py:99` starts a thread for every press of Install, all of them on one
  folder: the second removes files the first has copied, collides with the one it
  is copying and fails; the first finishes its list and says "Mod installed" of a
  mod without the removed files (not reproduced, TLC's trace).  A reinstallation
  after an update can do the same to a press.
- `updater.py:368` reinstalls the mod for files under `client_mod/` alone, which its
  docstring calls the mod's sources; the mod contains `protocol/` too.
- `lobby.py:187` imports the server when a lobby opens, so a lobby after an update runs the
  new server in the old launcher; `README.md:227` says a restart decides.
- `launcher_lobby.py:206` marks as shared what is selected when a push ends, and
  `launcher_setup.py:201` keeps the mark when a refresh changes the selection;
  every choice made by hand undoes it (`launcher_setup.py:211`).
- `lobby.py:438` stops reading at the first save and keeps the connection, which
  counts as a guest a later share has reached (`launcher_lobby.py:210`): the second
  save never arrives, though `README.md:243` has the host share again.

The models follow the code; the last seven are what `torn`, `behind`, `disturbed` and
the hazards without a property stand for.

### Fairness

Weak fairness, of the disjunction of what a component owes: the component may
not stop altogether while something of it is still to do, and nothing is said of
which of its steps comes first.

- `ServerSession`: a closed connection's task ends, a HELLO that waits for a
  socket goes on (`wait_for` with 2 s), the reaper evicts (it runs every
  `reap_interval`).
- `TravelCoordinator`: each suspended handler goes on (a socket that never drains
  is closed by the reaper), and each travel's watchdog, scheduled abort or clean-up
  runs; these are tasks of the loop.
- `ClockGate`, `RoomSpeed`: the alarm's ticks recur, the server reads and answers.
- `ReliableEvents`: the engine thread and the game thread go on, the server reads.

Clients and users owe nothing: no player has to answer, arrive, reconnect or
report, and `GoneOwnersLetGo` and `GateOpens` speak only of what does not depend
on them.

## Proofs

`ServerSession_proofs` proves, for every value of the constants that meets the
named assumptions of `ServerSession` (`None` is new, the lobby is a room, stamps
are zones):

- `TypeCorrect`, `RostersAgreeCorrect`, `OnePlayerOneConnectionCorrect`,
  `HoldersRegisteredCorrect`: the invariants of the run `session`;
- `ReservesKeysCorrect`: every step of the detailed specification is a step of
  `KeyReservation` or leaves `holder` and `cooling` alone;
- `GhostKeepsObjectsCorrect`: the action property.

None of the invariants is inductive alone.  The inductive invariant `IInv` adds:

- `TaskInv`: what `pc` says of `who` and `target` (a suspended handler's locals
  name a player that was issued);
- `ConnInv`: a connection that is some player's connection belongs to that
  player and its task is not over.  Without it the `finally` of one connection
  could clear another one's player;
- `IdentityInv`: client ids are one to one with registered players, and a
  connection that has not said HELLO is nobody's;
- `RoomInv`: a registered player has a room, and nobody else has;
- `SerialInv`, under `SerialHello`: a connection that is not its player's any
  more is closed, one HELLO at a time waits for a player, and a player somebody
  still acts for is registered.  This is what makes eviction safe: a player is
  forgotten only when no task can write in its name.

TLC checked `IInv` with `SerialHello` both ways before it was proved.
`HeldIsWarmCorrect` proves of `KeyReservation` that a key in use is never cooling.

`TravelCoordinator_proofs` proves, assuming that the lobby is a room and that
`None` is new, for any players, rooms and travels (so also for the three
sessions at once that the passing runs do not reach):

- `TravelTypeCorrect`, `EveryTravelHasDeadlineCorrect`,
  `FinishedLeavesSlotCorrect`, `DropAbortsCorrect`: the invariants;
- `ActiveKeepsSlotCorrect`: the action property;
- `KeepsPromiseCorrect`: the refinement of `GroupTravel`.

They rest on the inductive `Base`: types; `TaskInv` (a suspended handler's player
is connected, the session of a request that supersedes another does not exist
yet and belongs to that request alone, a handler that closes a session has
finished it); `SlotInv` (a slot holds an existing session of its own room);
`UnwindInv` (an abort that still has to clear the slot has ended its session).
The deadline, slot and drop invariants are each inductive relative to `Base`.
`IInv`, their conjunction, was checked by TLC first.

`ClockGate_proofs` proves, from `GateConstants` and for any players, rooms and
zones, all four invariants of the component.  The inductive `Base` is its types
and `TaskInv`: a suspended handler belongs to a connected player, the one of a
disconnect to a ghost, and what it still has to announce is the player's room.

- `GhostsNeverReady` and `AnnouncementsCurrent` are inductive relative to `Base`;
  the second because every handler that changes a room's readiness announces it
  in the same step, but for the JOIN_ROOM that dies at a reply.
- `NobodyRunsAhead` needs `Honest`: a client that is counted ready, or will be by
  a TIME_READY under way, still owes the server a TIME_UNREADY or has sent it
  after, but for the named exceptions.
- `ReadyReportsCount` needs `Held`: a client that believes it is counted ready is,
  or a TIME_READY of it is under way, or it is one of those the code forgets.

`ReliableEvents_proofs` proves, from `EventConstants` and so for every limit of
the pending list and any number of events, engines and breaks:

- `EventsKeepOrder`: the refinement of `EventLog`;
- `LossesAreExplained`: an event that is nowhere any more was relayed, fell out
  of the list or has one of the three named reasons.  It needs `Order`: what the
  frames on the wire, those of the broken connection, the pending list and the
  last number seen say of each other;
- `AcknowledgedWasRelayed`: in the first engine of an identity what is
  acknowledged was relayed, but for the same reasons; `FirstEngine` adds to `Order`
  that every acknowledgement under way is of such an event.

Their `Base` is the types, that one HELLO is under way at a time, and that
nothing relayed or lost has a number past the record's.

`WorldReplication_proofs` proves, from `WorldConstants` and for any players, objects,
values and any number of frames on their way:

- `CatalogConverges`: a client with nothing on its way has the catalog's owners and
  values, but for `astray` and `unheard`, whatever a closed connection is still read
  for;
- `ClaimsSettle`: it waits for no claim, and what it gave up on somebody else owns,
  but for `stranded` and `shut`.

Both say something of a quiet client, and neither is inductive, as every step makes
some client not quiet.  What is inductive is said of a queue: a client hears of a
key through four channels (its owner, its value, whether it is denied, whether a
claim is unanswered), and on each, what the frames to the client tell last, or
else what it has, is what the server has (`Final`).  A reply goes before the
broadcasts that wait, so `Leads` distinguishes what the broadcasts tell, what
the inbox tells, and what the mirror has; its lemmas say what appending,
delivering and reading a frame does to it, for any queues, and each action then
needs only what its own frames tell.  `Exempt` is where the client may have
something else: what the history variables name, a claim or a removal the
server has still to read, and a denial of what somebody owns.  `Away` (a client
without a connection has nothing on its way) and `Casting` (broadcasts go to
connected clients and never deny) keep a snapshot the first thing a client reads
after a HELLO.  TLC checked the invariant before it was proved.

`Launcher_proofs` proves `RecordCorrect` and `FollowsCorrect` from `UpdateConstants`, for
any files, releases, number of failures and of threads that install at once.
`RecordIsOnDisk` needs `CheckInv`: a check plans against the record, everything it has
written it has fetched from its target, and when it comes to record nothing is
left.  Without it, recording a release would say nothing of files the plan had
left alone.  `ModFollows` is an invariant of single files: removing one or copying
one disturbs it only for files that some thread has yet to copy (`Pending`), a
thread that fails leaves its list in `behind`, and a copy that is made from the
disk makes the file equal to it.  It needs that a thread that removes files has
all of them left to copy, and that the files of the disk stay.

It also proves, from `LobbyConstants` and for any saves, guests, lobbies and
shares, `SharedCopyIsSelected`, `NoSeatIsForgotten` and `NoGuestWaitsInVain`.  Their `Base`
relates the page to its threads: the handle's lobby and the slot it waits in
(`HandleInv`), a share past its first chunk has a lobby and a save, and the client
that is kept is of a share that has ended (`ShareInv`), a lobby not yet used has
no copy (`Unused`).  `SeatInv` adds that shares that never overlap are one at a time,
`FollowInv` that a waiting guest of a push under way is being relayed it, and
`CopyInv` that, while nothing disturbs it, a share is of the selected save in the
handle's lobby, with the copy as far as its chunks have come.

`RoomAgreement_proofs` proves what the members of a room come to agree on, from
`FundsConstants`, `MirrorConstants` and `DeepConstants` and so for any players,
balances, keys, actions, rooms and numbers of deeds.  All three components tell in
frames that keep their order, and the inductive invariant says of each queue what
its last telling frame says.  Lemmas on queues (`AllSay`, `EndsOn`: what all of
their frames, or the last of them, say) carry the proofs.

- `BalancesConverge`: the last echo on its way to a player, or else the number its
  game shows, is the room's balance, unless a report of it is under way that
  the server will answer, or it came after the last echo.
- `MirrorsTellTheTable`: for each client and key, the last frame that tells of the key
  says what the table has, and with none on its way the mirror does (`Foretold`).
  That holders run what they hold follows: a tick with nothing to send has found
  every sample in the mirror.
- `RolesCorrect`: `RolesFollow` says that what a player that is not misled reads last,
  in the broadcasts or in its queue, names its room's host, or that it plays so.
- `CommandsAreHeard` needs two more parts.  `HostsPlay`: where nothing has happened to a
  room, its host is in it and will play the host.  `CommandsFollow`: before a
  command on its way to it, the host reads that it is the host, and nothing else
  after.  `Ages` (no room has a host of a later record of a player than the one it
  has) is what makes an evicted player's new identity nobody's.

The proof of `CommandsAreHeard` changed the model's account of the code.  The relay
of a command, and the reply to the HELLO of a player that claims the role,
overtake an announcement that waits, so the new host may read an older one
after it and drop commands; the second needs six deeds, more than the run has.
Both are now in `early`, which the property names.

`RoomStreams_proofs` proves, from `SpeedConstants` and so for any members, speeds and
numbers of changes and breaks, `SpeedTypeCorrect`, `SpeedIsExplained` and `GamesAgree`.
`SpeedsAgree` is about quiet states and `SpeedExplained` about the server's record
alone; the inductive invariant `IInv` speaks of queues in both directions.

- `Conns`: who counts as ready is there; a HELLO is the first frame of a
  connection and no other's, and a client the server does not know has nothing
  to read.
- `GateInv`: while a member is gone, what the others have to read ends with the
  gate shut (`ShutAt`), and in front of every frame that makes a roster grow too.
  A roster alone therefore never ends a hold: without this a game that is
  paused, at a speed nobody picked, could be released by PLAYER_JOINED and
  publish its pause.
- `ChosenInv`: as long as nobody published before its WELCOME, every speed on its
  way in a TIME_SPEED, a relay or a TIME_SYNC that opens the gate was picked, and
  so is what a game that may publish runs at.
- `RosterInv`: the roster a client comes to has everybody that is there (`There`).
- `ReadyInv`: a client that reported after its WELCOME counts as ready, or its
  report is on its way.
- `ToldInv`: when no handler is half way, the last TIME_SYNC on its way to a
  client, or else what it has, is what the server would say now, but for a speed
  of its own on its way (`Told`).

In a quiet state `ReadyInv` makes everybody ready, `RosterInv` every roster whole, and
`ToldInv` every game's speed the room's.  `MinMembers` is at most the number of
members, as a room that waits for more players than there are never plays.  TLC
checked the parts for two and three members before they were proved.

It also proves, from `SaveConstants` and so for any players, slots, sizes of files
and chunks, and numbers of pushes, `SaveTypeCorrect`, `FilesAreWhole` and
`LatestDoesArrive`.  A written file and a complete copy say little of the chunks still
on their way, so the inductive invariant `SaveIInv` follows one push per slot that
is not spoilt (`OnePushOf`):

- `OnePush`: all chunks of a slot, on whatever wire or in whatever relay, are of
  that push, and the transfer of a client they can still reach holds its
  first bytes.  A transfer that nothing reaches any more may be of another, and
  is then either untouched or a leftover that spoils the next push or replay.
- `OnePusher`: one player sends it, to its end and in order; while the server
  reads it, nothing else is read, or the slot is in `muddled`.
- `CopyOf`: the copy is what the server has read of the push, or a whole file of an
  earlier one (`Whole`) that the first chunk replaces, but for one of the same
  shape (`same`).
- `Owed`: what a client that was there still waits for comes to it without a gap:
  the next chunks on its wire, those after in the relays, the rest with the
  pusher (`Coming`, `Line`); when no chunk can reach it any more it has the file.

The lemmas on `Upto`, `FirstPart` and `Piece` say that the chunks of a file put together
are the file, for any size of either (`Joined`), and those on `Line` what appending
and reading a chunk does to a queue.  `Aside` names the steps that tell nothing of
a slot: all the cases of another slot go through it once.  TLC checked
`SaveIInv` before it was proved, raising one bound at a time: files of five bytes,
three pushes, three breaks, three players.

### Only model-checked

- Liveness (`GoneOwnersLetGo`, `EveryTravelEnds`, `PendingDrains`, `GateOpens`,
  `SpeedSettles`), which the prover does not handle.
- `RoomsTypeOK`, `LiveTypeOK` and `HostTypeOK` are conjunctions over components,
  stated for the runs that compose them; each of their parts is proved.

## Not modelled

Most of the repository is not concurrent state of its own.

- The game hooks and some fifty deep features (about a third of the code) are
  patches and adapters of the game's Python: what they do depends on a program
  that is not in the repository, and a model of them would be a guess.
- The message catalogues, framing and validation of `protocol/simmp` are
  sequential conversions, tested as such, with nothing to interleave.
- The console and diagnostics are user interface around the protocol.  Of the
  launcher these are left out: where the game is found, the checks before it starts
  and the configuration written for it, several ports, the transport of downloads,
  two launchers on one folder, and runtimes that are not preferred
  (`prefer_synced`).

So the maps name a modest share of the lines, those of the server, the engine,
`connectivity.py`, the updater and the lobby page, where the orders of steps are.  Within the parts that are
modelled these are left out: lobby seats, presence and status files; CLOCK_SYNC
and the absolute ticks of the clock; pause barriers of the game's clock; snapshots
in parts, deferred local removals and the smoothing of positions; deep relays to
one player or to all, which change nothing on the server; acknowledgements of
saves and disks that fail; the alarm and the back-off of the client.  Zones and
moves are in `ServerSession` and `ClockGate`, and not in `WorldReplication` and
`InteractionMirror`, whose one zone is a world of its own on the server.
