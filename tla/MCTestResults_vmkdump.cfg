\* VmkstatsTest: VmkDumpFailureNoticed
CONSTANTS
  NumWorlds <- MCNumWorlds
  ShareVals <- MCShareVals
  UsedVals <- MCUsedVals
  PctVals <- MCPctVals
  UptimeVals <- MCUptimeVals
  CountVals <- MCCountVals
  NumPcpus <- MCNumPcpus
  MaxUnfairness = 10
  MaxErr = 10
  RunTime = 50
  SP_WaitLockIRQ = SP_WaitLockIRQ
  CpuSched_IdleLoop = CpuSched_IdleLoop
  CpuSched_Wait = CpuSched_Wait
  Other = Other
  Funcs <- MCFuncs
  Matches <- MCMatches
  MaxSamples = 2
  OldProfiles <- MCOldProfiles
SPECIFICATION Spec
INVARIANT VmkDumpFailureNoticed
CHECK_DEADLOCK FALSE
