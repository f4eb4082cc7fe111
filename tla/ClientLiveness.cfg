CONSTANTS
  MaxServed = 7
  MaxTyped = 1
  PollTimeout = 1
  MinInterval = 2
  JoinTimeout = 4
SPECIFICATION FairSpec
PROPERTIES DisconnectEndsProcess CloseEndsProcess CommandIsSent
