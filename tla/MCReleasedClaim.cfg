SPECIFICATION WorldSpec
CONSTANTS
  ann = ann
  bob = bob
  Player = {ann, bob}
  None = None
  jo = jo
  chair = chair
  Key = {jo, chair}
  Sim = {jo}
  v1 = v1
  Value = {v1}
  MaxWire = 3
  MaxMoves = 3
INVARIANTS
  ReleasedCanBeClaimed
CHECK_DEADLOCK FALSE
