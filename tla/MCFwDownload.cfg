CONSTANTS Updaters = {"u1", "u2"}  NBlocks = 2  MaxTries = 2  MaxCalls = 2
  Faults = {{"mrpc_err", "eof"}, {"sys_err", "kill"}}
SPECIFICATION FairSpec
INVARIANTS SuccessWithoutErrors IrqRestored
PROPERTIES UpdateEnds
CHECK_DEADLOCK FALSE
