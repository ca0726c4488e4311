CONSTANTS
  Shapes = {circle, square}
  CopiesPerType = 3
  Rows = 3
  Columns = 2
  NumPlayers = 2
  Empty = empty
  NoState = noState
  MaxRestarts = 2
  MaxFaults = 1
SPECIFICATION Spec
INVARIANTS
  TilesAreConserved
  EndOfDeckIsNoticed
  SavedLagsByRefusals
PROPERTY FinalBoardStays
