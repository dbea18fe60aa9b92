SPECIFICATION Spec
CONSTANTS
  N = 3
  UpMsgs <- MCUpMsgs
  Tokens = {0, 1, 2}
  RespFreqs <- MCRespFreqs
  Plan <- MCPlan
  Rx2Freq = 505300
  MaxDown = 2
INVARIANT SocketMatchesAddress
INVARIANT PullRespReachesItsConcentrator
INVARIANT AckReachesASender
PROPERTY AckDropExplained
