CONSTANTS p = p  q = q  r = r
  Addrs = {p, q}  Far = {r}  Swap <- MCSwap  Crc <- MCCrc  ReadOnly = {p}  Values = {"v1", "v2", "v3"}
  RetryNum = 2  Faults = {"data", "stack", "refuse"}  MaxCalls = 3
SPECIFICATION FairSpec
INVARIANTS Coherent 
PROPERTIES QuietAfterReturn CallEnds
CHECK_DEADLOCK FALSE
