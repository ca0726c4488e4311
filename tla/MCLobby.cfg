CONSTANTS
  Users = {ann, bob}
  Conns = {c1, c2}
  Rooms = {r1}
  Sizes = {2}
  Timer = timer
  NoUser = noUser
  NoConn = noConn
  NoRoom = noRoom
  NoRecord = noRecord
  NoSession = noSession
  MaxEvents = 7
  MaxOverlapped = 5
  MaxLogins = 3
  MaxCrashes = 1
SPECIFICATION Spec
CHECK_DEADLOCK FALSE
SYMMETRY Symmetry
INVARIANTS
  RecordsAreSound
  SessionsAgree
  StartedMeansGame
