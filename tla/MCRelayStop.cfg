SPECIFICATION FairSpec
CONSTANTS
  Threads = {"main", "udp0", "up", "send"}
  MaxSig = 2
INVARIANT HangNeedsMissedSignal
PROPERTY SignalEnds
PROPERTY OthersEnd
