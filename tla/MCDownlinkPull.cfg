SPECIFICATION Spec
CONSTANTS
  Threshold = 2
  Tokens = {t1, t2}
  Places = 1
  MaxPull = 5
  MaxAck = 4
  MaxResp = 0
SYMMETRY Symmetry
INVARIANT QuitOnlyWhenUnanswered
INVARIANT NoExcessAck
