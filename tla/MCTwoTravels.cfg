\* Two requests while the session they supersede is being aborted.
SPECIFICATION Spec
CONSTANTS
  a = a
  b = b
  Player = {a, b}
  r1 = r1
  Room = {r1}
  Lobby = r1
  t1 = t1
  t2 = t2
  t3 = t3
  Travel = {t1, t2, t3}
  None = None
INVARIANTS
  OneTravelPerRoom
CHECK_DEADLOCK FALSE
