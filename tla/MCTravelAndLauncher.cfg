\* Travels: three players, a requester and invitees of whom one agrees or
\* arrives before the other; two sessions, one superseded or cleaned up late.
\* Updates: the builder, a script and a file of the protocol, two releases; the
\* button's thread and the check's install at the same time.
\* Lobbies: two of them, two saves shared, one guest.
SPECIFICATION HostSpec
CONSTANTS
  a = a
  b = b
  c = c
  Player = {a, b, c}
  r1 = r1
  Room = {r1}
  Lobby = r1
  t1 = t1
  t2 = t2
  Travel = {t1, t2}
  None = None
  File = {"builder", "script", "wire"}
  Builder = "builder"
  ScriptFile = {"script"}
  SharedFile = {"wire"}
  Installer = {"button"}
  Checker = "checker"
  d1 = d1
  d2 = d2
  Digest = {d1, d2}
  Absent = Absent
  MaxAge = 1
  MaxRelease = 2
  MaxTrouble = 1
  x = x
  y = y
  Save = {x, y}
  gil = gil
  Guest = {gil}
  NoSave = NoSave
  MaxLobby = 2
  MaxShare = 2
  MaxTrips = 3
SYMMETRY Symmetry
INVARIANTS
  HostTypeOK
  EveryTravelHasDeadline
  FinishedLeavesSlot
  DropAborts
  RecordIsOnDisk
  ModFollows
  SharedIsSelected
  SeatsAreHeld
  WaitingIsServed
PROPERTIES
  ActiveKeepsSlot
  KeepsPromise
\* The sessions, the releases and the lobbies may be used up.
CHECK_DEADLOCK FALSE
