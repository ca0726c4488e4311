CONSTANTS
  Rooms = {r1, r2}
  NoRoom = noRoom
  MaxTurns = 4
SPECIFICATION FairSpec
INVARIANTS
  EntryIsStillToCome
  CancelStopsTheRest
PROPERTY TurnsAreAnswered
