CHECK_DEADLOCK FALSE
SPECIFICATION FairSpec
CONSTANTS
  NumPlayers = 2
  Host = 0
  Slots = {s1, s2}
  s1 = s1
  s2 = s2
  MaxGames = 1
  MaxTurns = 1
  MaxFaults = 1
  MaxCrashes = 1
INVARIANTS RunningGameHasClock
PROPERTIES GameIsRemoved
