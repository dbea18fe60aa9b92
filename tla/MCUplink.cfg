SPECIFICATION FairSpec
CONSTANTS
  Forwarded = {"ok"}
  Statuses = {"ok", "bad", "other"}
  NbPktMax = 2
  Tokens = {t1, t2}
  NoToken = t0
  MaxPkt = 2
  MaxDgram = 3
  MaxReport = 2
INVARIANT ForwardedOnce
INVARIANT NothingUncounted
INVARIANT ReportConsistent
INVARIANT AcksAreReal
INVARIANT ReportsInOrder
PROPERTY ReportIsSent
