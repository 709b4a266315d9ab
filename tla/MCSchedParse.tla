--------------------------- MODULE MCSchedParse ----------------------------
(***************************************************************************)
(* Every dump with up to one cell line, two pcpu lines and three vcpu      *)
(* lines, each data line well formed or not. Headers of different widths  *)
(* make a line read under the wrong header mismatch.                       *)
(***************************************************************************)
EXTENDS SchedParse

MCMaxCells == 1
MCMaxPcpus == 2
MCMaxVcpus == 3
MCGlobalCols == 2
MCPcpuCols == 3
MCVcpuCols == 4
=============================================================================
