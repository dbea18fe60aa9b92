SPECIFICATION Spec
CONSTANTS
  W = 200
  StartDelay = 1
  MarginDelay = 1
  JitDelay = 4
  MaxAdvance = 40
  BeaconGuard = 3
  BeaconReserved = 3
  AsapDelay = 8
  QueueMax = 2
  Requests <- BusyRequests
  MaxReq = 3
  StartTime = 0
  AskTicks = 7
  EndTicks = 48
  Outcomes = {"programmed"}
  NumBeacon = 1
  PollMax = 2
  JitLag = 1
  DownLag = 2
INVARIANT TypeOK
INVARIANT LossExplained
