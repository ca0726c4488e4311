CONSTANTS
  Colors = {red, green}
  MaxCardNumber = 2
  Copies <- MCCopies
  NumPlayers = 3
  MaxHintTokens = 2
  InitialMissTokens = 2
  PerfectScore = 4
  InitialHandSize = 1
  ReducedHandSize = 1
  MinPlayersForReduced = 4
SPECIFICATION FairSpec
INVARIANTS
  OneHolderPerCard
  FireworksAccountForCards
  HandsStayFull
  OverHasReason
  EndReasonTruthful
  DecisionsAreAccepted
  DecidesFromItsView
  MissesAreForced
PROPERTIES
  RequestsUseBudget
  GameEnds
