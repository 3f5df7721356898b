CONSTANTS p = p  q = q  Procs = {p, q}  NoCmd = none  Faults <- MCFaults
  Cmds = {"status", "run", "read"}  Timeout = 2  RetryTime = 1  Bins = 2
SPECIFICATION FairCaptureSpec
INVARIANTS OwnAnswer RunsOnce DataMine CaptureInv
PROPERTIES CallEnds CaptureEnds
