\* Whether one corrupt line of the global or pcpu table aborts load_data.
CONSTANTS
  MaxCells <- MCMaxCells
  MaxPcpus <- MCMaxPcpus
  MaxVcpus <- MCMaxVcpus
  GlobalCols <- MCGlobalCols
  PcpuCols <- MCPcpuCols
  VcpuCols <- MCVcpuCols
SPECIFICATION Spec
INVARIANT NoAbortOnCorruptLine
CHECK_DEADLOCK FALSE
