\* Three players, and an invitee with a slow socket that moves to another room:
\* TRAVEL_BEGIN goes out while the requester still waits for that socket.
SPECIFICATION Spec
CONSTANTS
  a = a
  b = b
  c = c
  Player = {a, b, c}
  r1 = r1
  r2 = r2
  Room = {r1, r2}
  Lobby = r1
  t1 = t1
  Travel = {t1}
  None = None
INVARIANTS
  TravelingHasReadyDeadline
CHECK_DEADLOCK FALSE
