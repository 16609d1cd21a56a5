\* Two sessions in two rooms, players moving between them.
SPECIFICATION FairSpec
CONSTANTS
  a = a
  b = b
  Player = {a, b}
  r1 = r1
  r2 = r2
  Room = {r1, r2}
  Lobby = r1
  t1 = t1
  t2 = t2
  Travel = {t1, t2}
  None = None
PROPERTIES
  EveryTravelEnds
\* The sessions may be used up.
CHECK_DEADLOCK FALSE
