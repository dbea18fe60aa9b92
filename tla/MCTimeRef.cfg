SPECIFICATION Spec
CONSTANTS
  S = 2
  W = 9
  Parts = 6
  Phase = 3
  Start = 40
  End = 51
  MaxAge = 1
  InitAvg = 1
  SyncPeriod = 6
  Lag = 1
  SetTimes = {48}
  Jumps <- SmallJumps
INVARIANT WrongRefIsReplaced
INVARIANT FlagsAreEarned
INVARIANT ClockIsExact
PROPERTY SlopeCheckHolds
