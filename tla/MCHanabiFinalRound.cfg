CONSTANTS
  Colors = {red, green}
  MaxCardNumber = 2
  Copies <- MCCopies
  NumPlayers = 3
  MaxHintTokens = 2
  InitialMissTokens = 2
  PerfectScore = 4
  InitialHandSize = 1
  ReducedHandSize = 1
  MinPlayersForReduced = 4
SPECIFICATION RoundSpec
INVARIANT FinalRoundForAll
