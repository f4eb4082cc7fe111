CONSTANTS
  MaxServed = 8
  MaxTyped = 3
  PollTimeout = 1
  MinInterval = 2
  JoinTimeout = 10
SPECIFICATION Spec
INVARIANTS TypeOK CommandsKept TextKept ClosedNoticeIsLast HandshakeInStep JoinInTime
PROPERTIES Pacing NothingAfterClosed CommandsAreFifo TranscriptIsFifo
