\* One client of two reconnects and publishes its own pause.
SPECIFICATION SpeedSpec
CONSTANTS
  ann = ann
  bob = bob
  Member = {ann, bob}
  Host = ann
  Speed = {0, 1, 2}
  MinMembers = 2
  MaxActs = 2
INVARIANTS
  SpeedIsChosen
CHECK_DEADLOCK FALSE
