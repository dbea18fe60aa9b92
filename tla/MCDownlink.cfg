SPECIFICATION FairSpec
CONSTANTS
  Threshold = 1
  Tokens = {t1}
  Places = 1
  MaxPull = 2
  MaxAck = 1
  MaxResp = 2
INVARIANT ReportNested
PROPERTY ServiceSpec
PROPERTY ResponseAnswered
PROPERTY SilentServerQuits
