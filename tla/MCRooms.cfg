SPECIFICATION RoomsSpec
CONSTANTS
  ann = ann
  bob = bob
  Player = {ann, bob}
  r1 = r1
  r2 = r2
  Room = {r1, r2}
  DefaultRoom = r1
  z1 = z1
  z2 = z2
  Zone = {z1, z2}
  None = None
  MinPlayers = 1
  MaxFrames = 1
  MaxTrouble = 2
  jo = jo
  chair = chair
  Key = {jo, chair}
  Sim = {jo}
  v1 = v1
  v2 = v2
  Value = {v1, v2}
  MaxWire = 3
  MaxMoves = 4
  SaveSlot = {"x", "y"}
  ChunkBytes = 2
  MaxBytes = 3
  MaxPush = 2
  MaxTrips = 1
  gil = gil
  hal = hal
  Member = {gil, hal}
  Host = gil
  Speed = {0, 1, 2}
  MinMembers = 2
  MaxActs = 2
SYMMETRY Symmetry
INVARIANTS
  RoomsTypeOK
  AnnouncedIsCurrent
  NobodyPlaysAhead
  ReportsCount
  CatalogIsMirrored
  ClaimsSettled
  FilesWhole
  LatestArrives
  SpeedExplained
  SpeedsAgree
CHECK_DEADLOCK FALSE
