----------------------------- MODULE SchedParse -----------------------------
(***************************************************************************)
(* parse_sched.load_data(verbose=1): the reader of                         *)
(* /proc/vmware/sched/cpu-verbose, one readline() per step.                *)
(*                                                                         *)
(* A line is abstracted to what the parser looks at: whether it matches    *)
(* the regexp '\s*\d+' (lead = "digit") and how many whitespace-separated  *)
(* tokens split() gives (cols). LineData(headers, data) raises when the    *)
(* two token counts differ. A record is identified by the index of the    *)
(* line it came from, so order and provenance can be checked.              *)
(*                                                                         *)
(* The dump handed to the parser is built from a shape: a global table,    *)
(* a cell table, a pcpu table and a vcpu table, each data line well formed *)
(* ("good") or carrying one token too many ("bad"), and the vcpu table     *)
(* ending in a blank line or at end of file.                               *)
(***************************************************************************)
EXTENDS Integers, Sequences, SequencesExt

CONSTANTS
  MaxCells,   \* most cell lines in a dump
  MaxPcpus,   \* most pcpu lines in a dump
  MaxVcpus,   \* most vcpu lines in a dump
  GlobalCols, PcpuCols, VcpuCols   \* token counts of the three headers

ASSUME /\ MaxCells \in Nat /\ MaxPcpus \in Nat /\ MaxVcpus \in Nat
       /\ {GlobalCols, PcpuCols, VcpuCols} \subseteq Nat \ {0}

Header(n)  == [lead |-> "text", cols |-> n]
Blank      == [lead |-> "text", cols |-> 0]
\* readline() at end of file returns "", which neither matches nor splits
EOF        == [lead |-> "eof", cols |-> 0]
Data(n, q) == [lead |-> "digit", cols |-> IF q = "good" THEN n ELSE n + 1]

SeqsUpTo(S, n) == UNION {[1..k -> S] : k \in 0..n}

Shapes ==
  [gq : {"good", "bad"}, cells : 0..MaxCells,
   pcs : SeqsUpTo({"good", "bad"}, MaxPcpus),
   vcs : SeqsUpTo({"good", "bad"}, MaxVcpus), tail : {"blank", "eof"}]

\* the text of cpu-verbose for a shape
Render(s) ==
  << Header(GlobalCols), Data(GlobalCols, s.gq), Blank, Header(1) >>
  \o [i \in 1..s.cells |-> Data(1, "good")]
  \o << Blank, Header(PcpuCols) >>
  \o [i \in 1..Len(s.pcs) |-> Data(PcpuCols, s.pcs[i])]
  \o << Blank, Header(VcpuCols) >>
  \o [i \in 1..Len(s.vcs) |-> Data(VcpuCols, s.vcs[i])]
  \o (IF s.tail = "blank" THEN <<Blank>> ELSE <<>>)

Phases == {"global", "cells", "pcpuHdr", "pcpus", "vcpuHdr", "vcpus", "done"}

VARIABLES
  shape,      \* the dump's shape (fixed for a behaviour)
  lines,      \* the dump's lines (fixed for a behaviour)
  pos,        \* index of the line the next readline() returns
  cur,        \* index of curline
  phase,      \* which loop of load_data is running
  pcpuHdr,    \* len(pcpu_headers)
  vcpuHdr,    \* len(vcpu_headers)
  globalRec,  \* index of the global_data line, 0 before it is read
  pcpus,      \* pcpu_list, as line indices
  vcpus,      \* vcpu_list, as line indices
  vcpulines,  \* vcpulines, as line indices
  status      \* "parsing", "ok" (returned) or "raised" (exception escaped)

vars == <<shape, lines, pos, cur, phase, pcpuHdr, vcpuHdr, globalRec,
          pcpus, vcpus, vcpulines, status>>

L(i) == IF i \in 1..Len(lines) THEN lines[i] ELSE EOF
\* mutant: the pattern '\s*\d*', which matches every line, "" included
NotBlankStar(i) == TRUE
\* notblank.match(line)
NotBlank(i) == L(i).lead = "digit"
\* LineData(headers, split(line)) does not raise
Fits(hdr, i) == L(i).cols = hdr

Init ==
  /\ shape \in Shapes
  /\ lines = Render(shape)
  /\ pos = 1 /\ cur = 0 /\ phase = "global"
  /\ pcpuHdr = 0 /\ vcpuHdr = 0 /\ globalRec = 0
  /\ pcpus = <<>> /\ vcpus = <<>> /\ vcpulines = <<>>
  /\ status = "parsing"

\* global_headers, global_line = two readline()s; LineData raises on a
\* mismatch (nothing catches it); then the blank line and the first line of
\* the cell section are read and dropped
ReadGlobal ==
  /\ phase = "global"
  /\ IF Fits(L(pos).cols, pos + 1)
     THEN /\ globalRec' = pos + 1 /\ pos' = pos + 4 /\ phase' = "cells"
          /\ UNCHANGED status
     ELSE /\ status' = "raised" /\ phase' = "done"
          /\ UNCHANGED <<globalRec, pos>>
  /\ UNCHANGED <<shape, lines, cur, pcpuHdr, vcpuHdr, pcpus, vcpus, vcpulines>>

\* while notblank.match(infile.readline()): pass -- the line that ends the
\* loop is consumed as well
SkipCell ==
  /\ phase = "cells"
  /\ pos' = pos + 1
  /\ phase' = IF NotBlank(pos) THEN "cells" ELSE "pcpuHdr"
  /\ UNCHANGED <<shape, lines, cur, pcpuHdr, vcpuHdr, globalRec, pcpus,
                 vcpus, vcpulines, status>>

\* pcpu_headers = split(readline()); curline = readline()
PcpuHeader ==
  /\ phase = "pcpuHdr"
  /\ pcpuHdr' = L(pos).cols
  /\ cur' = pos + 1 /\ pos' = pos + 2 /\ phase' = "pcpus"
  /\ UNCHANGED <<shape, lines, vcpuHdr, globalRec, pcpus, vcpus, vcpulines,
                 status>>

\* while notblank.match(curline): pcpu_list.append(LineData(...)); no try:
\* a mismatched pcpu line raises out of load_data
PcpuLine ==
  /\ phase = "pcpus" /\ NotBlank(cur)
  /\ IF Fits(pcpuHdr, cur)
     THEN /\ pcpus' = Append(pcpus, cur)
          /\ cur' = pos /\ pos' = pos + 1
          /\ UNCHANGED <<phase, status>>
     ELSE /\ status' = "raised" /\ phase' = "done"
          /\ UNCHANGED <<pcpus, cur, pos>>
  /\ UNCHANGED <<shape, lines, pcpuHdr, vcpuHdr, globalRec, vcpus, vcpulines>>

PcpuEnd ==
  /\ phase = "pcpus" /\ ~NotBlank(cur)
  /\ phase' = "vcpuHdr"
  /\ UNCHANGED <<shape, lines, pos, cur, pcpuHdr, vcpuHdr, globalRec, pcpus,
                 vcpus, vcpulines, status>>

\* vcpu_headers = split(readline()); curline = readline()
VcpuHeader ==
  /\ phase = "vcpuHdr"
  /\ vcpuHdr' = L(pos).cols
  /\ cur' = pos + 1 /\ pos' = pos + 2 /\ phase' = "vcpus"
  /\ UNCHANGED <<shape, lines, pcpuHdr, globalRec, pcpus, vcpus, vcpulines,
                 status>>

\* mutant: the vcpu loop without its try/except
VcpuLineUncaught ==
  /\ phase = "vcpus" /\ NotBlank(cur)
  /\ vcpulines' = Append(vcpulines, cur)
  /\ IF Fits(vcpuHdr, cur)
     THEN /\ vcpus' = Append(vcpus, cur)
          /\ cur' = pos /\ pos' = pos + 1
          /\ UNCHANGED <<phase, status>>
     ELSE /\ status' = "raised" /\ phase' = "done"
          /\ UNCHANGED <<vcpus, cur, pos>>
  /\ UNCHANGED <<shape, lines, pcpuHdr, vcpuHdr, globalRec, pcpus>>

\* while notblank.match(curline): vcpulines.append(curline), then inside
\* try: vcpu_list.append(LineData(...)); a mismatch is printed and skipped
VcpuLine ==
  /\ phase = "vcpus" /\ NotBlank(cur)
  /\ vcpulines' = Append(vcpulines, cur)
  /\ vcpus' = IF Fits(vcpuHdr, cur) THEN Append(vcpus, cur) ELSE vcpus
  /\ cur' = pos /\ pos' = pos + 1
  /\ UNCHANGED <<shape, lines, phase, pcpuHdr, vcpuHdr, globalRec, pcpus,
                 status>>

\* the loop ends at the first line that does not match; SchedData returned
VcpuEnd ==
  /\ phase = "vcpus" /\ ~NotBlank(cur)
  /\ phase' = "done" /\ status' = "ok"
  /\ UNCHANGED <<shape, lines, pos, cur, pcpuHdr, vcpuHdr, globalRec, pcpus,
                 vcpus, vcpulines>>

Next ==
  \/ ReadGlobal \/ SkipCell \/ PcpuHeader \/ PcpuLine \/ PcpuEnd
  \/ VcpuHeader \/ VcpuLine \/ VcpuEnd

\* load_data runs to completion once called
Spec == Init /\ [][Next]_vars /\ WF_vars(Next)

-----------------------------------------------------------------------------
TypeOK ==
  /\ shape \in Shapes
  /\ pos \in 1..Len(lines) + 2 /\ cur \in 0..Len(lines) + 1
  /\ phase \in Phases
  /\ {pcpuHdr, vcpuHdr, globalRec} \subseteq Nat
  /\ pcpus \in Seq(Nat) /\ vcpus \in Seq(Nat) /\ vcpulines \in Seq(Nat)
  /\ status \in {"parsing", "ok", "raised"}

\* Reference: where each table's data lines sit in the rendered dump.
FirstPcpu == 7 + shape.cells
FirstVcpu == FirstPcpu + Len(shape.pcs) + 2
PcpuLines == [i \in 1..Len(shape.pcs) |-> FirstPcpu + i - 1]
VcpuLines == [i \in 1..Len(shape.vcs) |-> FirstVcpu + i - 1]
GoodVcpuLines ==
  SelectSeq(VcpuLines, LAMBDA i : shape.vcs[i - FirstVcpu + 1] = "good")
\* every line outside the vcpu table is well formed
CleanOutsideVcpus ==
  shape.gq = "good" /\ \A i \in 1..Len(shape.pcs) : shape.pcs[i] = "good"

(***************************************************************************)
(* A dump whose global and pcpu tables are well formed always parses, and  *)
(* a completed parse yields exactly the dump's pcpu lines and exactly its  *)
(* well-formed vcpu lines, in file order: a corrupt vcpu line costs only   *)
(* its own record (N lines, one corrupt -> N-1 records), every vcpu line,  *)
(* corrupt or not, is kept in vcpulines, and the cell-section skip and     *)
(* header reads stay aligned with the table boundaries.                    *)
(***************************************************************************)
ParseMatchesDump ==
  /\ CleanOutsideVcpus => status # "raised"
  /\ status = "ok" =>
       /\ globalRec = 2
       /\ pcpus = PcpuLines
       /\ vcpus = GoodVcpuLines
       /\ vcpulines = VcpuLines

(***************************************************************************)
(* A single corrupt line never aborts the whole parse (the per-line        *)
(* failure policy the spec states for the snapshot parser).                *)
(***************************************************************************)
NoAbortOnCorruptLine == status # "raised"

=============================================================================
