CONSTANTS MaxTag = 4  MaxRetry = 3  MaxStatusRetry = 2  NumWords = 2  MaxOps = 3  MaxSessions = 2
SPECIFICATION FairSpec
INVARIANTS AckMeansLanded OnceAtMostOnce Coherent Inv
PROPERTIES NothingLate PortSpec CallEnds
CHECK_DEADLOCK FALSE
