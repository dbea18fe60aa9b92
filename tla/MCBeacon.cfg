SPECIFICATION Spec
CONSTANTS
  W = 80
  StartDelay = 1
  MarginDelay = 1
  JitDelay = 1
  MaxAdvance = 18
  BeaconGuard = 1
  BeaconReserved = 1
  AsapDelay = 4
  QueueMax = 3
  P = 6
  NumBeacon = 2
  MaxAge = 1
  Phase = 66
  Offsets = {4, 9}
  MaxReq = 2
  MaxLoss = 1
  MaxRetry = 14
  MaxLast = 130
  Moments = {2, 9, 13, 76}
  Stalls = {4, 5, 10, 11, 12, 13, 14, 60, 61}
  Pauses = {0, 2}
  End = 94
INVARIANT NoExcessBeacon
INVARIANT MissExplained
INVARIANT BeaconOffExplained
