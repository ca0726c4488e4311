CHECK_DEADLOCK FALSE
SPECIFICATION Spec
CONSTANTS
  NumPlayers = 2
  Host = 0
  Slots = {s1}
  s1 = s1
  MaxGames = 2
  MaxTurns = 1
  MaxFaults = 1
  MaxCrashes = 0
INVARIANTS TypeOK RunningGameHasClock FinishedGameLeaves EndIsAnnounced
