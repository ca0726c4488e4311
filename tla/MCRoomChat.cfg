CONSTANTS
  Users = {ann, bob}
  Host = ann
  NoUser = noUser
  Notice = notice
  MaxChatHistory = 2
  MaxMessages = 2
  MaxTime = 1
  MaxFaults = 1
  MaxMoves = 2
SPECIFICATION FairSpec
CHECK_DEADLOCK FALSE
INVARIANTS
  ShownStaysInHistory
  OneOrderForAll
PROPERTIES
  MembersAreTold
