\* load_data returns (or raises) and then the program moves on: the final
\* state of a parse is not a deadlock.
CONSTANTS
  MaxCells <- MCMaxCells
  MaxPcpus <- MCMaxPcpus
  MaxVcpus <- MCMaxVcpus
  GlobalCols <- MCGlobalCols
  PcpuCols <- MCPcpuCols
  VcpuCols <- MCVcpuCols
SPECIFICATION Spec
INVARIANT TypeOK
INVARIANT ParseMatchesDump
CHECK_DEADLOCK FALSE
