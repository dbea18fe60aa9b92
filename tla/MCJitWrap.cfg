SPECIFICATION Spec
CONSTANTS
  W = 160
  StartDelay = 1
  MarginDelay = 1
  JitDelay = 4
  MaxAdvance = 16
  BeaconGuard = 3
  BeaconReserved = 3
  AsapDelay = 8
  QueueMax = 2
  Requests <- WrapRequests
  MaxReq = 2
  StartTime = 144
  AskTicks = 18
  EndTicks = 40
  Outcomes = {"programmed", "blocked", "failed"}
  NumBeacon = 1
  PollMax = 2
  JitLag = 1
  DownLag = 2
INVARIANT AirtimesDisjoint
INVARIANT DequeuesWhatItPeeked
INVARIANT SentInTime
INVARIANT VerdictRightBeforeWrap
