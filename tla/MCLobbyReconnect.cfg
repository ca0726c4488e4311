CONSTANTS
  Users = {ann, bob}
  Conns = {c1, c2, c3}
  Rooms = {r1}
  Sizes = {2}
  Timer = timer
  NoUser = noUser
  NoConn = noConn
  NoRoom = noRoom
  NoRecord = noRecord
  NoSession = noSession
  MaxEvents = 5
  MaxOverlapped = 0
  MaxLogins = 3
  MaxCrashes = 0
SPECIFICATION Spec
CHECK_DEADLOCK FALSE
SYMMETRY Symmetry
INVARIANTS
  ReconnectRestoresRoom
