CONSTANTS
  Colors = {red}
  MaxCardNumber = 3
  Copies <- MCCopies
  NumPlayers = 2
  MaxHintTokens = 1
  InitialMissTokens = 2
  PerfectScore = 3
  InitialHandSize = 1
  ReducedHandSize = 1
  MinPlayersForReduced = 4
  Newcomers = {newcomer}
  MaxResumes = 2
  MaxLostSaves = 1
SPECIFICATION ResumeFairSpec
CHECK_DEADLOCK FALSE
INVARIANTS
  ResumedCardsOnce
  ResumedHandsFull
PROPERTIES
  NothingLostButDeck
  NextCardEndsResumed
  ResumedGameEnds
