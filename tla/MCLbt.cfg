SPECIFICATION Spec
CONSTANTS
  Turn = 40
  Lsb = 4
  FpgaLsb = 2
  W = 160
  Margin = 2
  MaxTime <- MCMaxTime
  Plan <- MCPlan
  Freqs = {9200, 9201, 9202, 9206}
  Durations = {8, 11, 18}
  Leads = {1, 2, 3}
  Second = 14
  StartDelay = 1
  Start = 67
  End = 92
INVARIANT AllowedEndsInTime
INVARIANT RefusedForAReason
