CONSTANTS p = p  q = q  r = r
  Addrs = {p, q}  Far = {r}  Swap <- MCSwap  Crc <- MCCrc  ReadOnly = {}  Values = {"v1"}
  RetryNum = 2  Faults = {}  MaxCalls = 2
SPECIFICATION Spec
INVARIANTS SentOnce
CHECK_DEADLOCK FALSE
