\* TIME_UNREADY between the old zone and the new one.
SPECIFICATION Spec
CONSTANTS
  p1 = p1
  p2 = p2
  Player = {p1, p2}
  c1 = c1
  c2 = c2
  Conn = {c1, c2}
  k1 = k1
  k2 = k2
  Client = {k1, k2}
  r1 = r1
  r2 = r2
  Room = {r1, r2}
  DefaultRoom = r1
  z1 = z1
  z2 = z2
  Zone = {z1, z2}
  Stamp = {z1}
  o1 = o1
  Key = {o1}
  SerialHello = TRUE
  None = None
PROPERTIES
  TravelReleasesOldZone
CHECK_DEADLOCK FALSE
