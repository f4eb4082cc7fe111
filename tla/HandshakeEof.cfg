CONSTANTS
  MaxServed = 7
  MaxTyped = 1
  PollTimeout = 1
  MinInterval = 2
  JoinTimeout = 10
SPECIFICATION Spec
INVARIANT OnlyLiveSessionsClose
