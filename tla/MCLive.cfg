SPECIFICATION LiveSpec
CONSTANTS
  PendingLimit = 1
  MaxSeq = 2
  MaxEngine = 2
  MaxBreak = 1
  ann = ann
  bob = bob
  Player = {ann, bob}
  None = None
  r1 = r1
  GateRoom = {r1}
  Lobby = r1
  z1 = z1
  z2 = z2
  Zone = {z1, z2}
  MinPlayers = 2
  MaxFrames = 1
  MaxTrouble = 1
  p1 = p1
  Identity = {p1}
  c1 = c1
  c2 = c2
  c3 = c3
  Conn = {c1, c2, c3}
  k1 = k1
  Client = {k1}
  SessionZone = {z1}
  o1 = o1
  SessionKey = {o1}
  SerialHello = TRUE
  SpeedHost = ann
  Speed = {0, 1, 2}
  MaxActs = 1
  r2 = r2
  Room = {r1, r2}
  Claimant = {ann}
  MaxDeeds = 3
  Balance = {1, 2}
  MaxSpend = 2
  MaxGap = 1
  k2 = k2
  Key = {k1, k2}
  sit = sit
  nap = nap
  Action = {sit, nap}
  Driver = ann
  Driven = {k1}
  MaxWire = 2
  MaxStirs = 2
INVARIANTS
  LiveTypeOK
  LossesExplained
  AckedIsSettled
  RolesAgree
  CommandsHeard
  FundsConverge
  MirrorsTell
PROPERTIES
  KeepsOrder
  PendingDrains
  GateOpens
  GoneOwnersLetGo
  SpeedSettles
CHECK_DEADLOCK FALSE
