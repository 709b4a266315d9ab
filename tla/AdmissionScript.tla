--------------------------- MODULE AdmissionScript ---------------------------
(***************************************************************************)
(* affinmintests.py, the admission-control probe script, run against the   *)
(* scheduler's admission controller.                                       *)
(*                                                                         *)
(* The script is straight-line: five scenarios, each starting BasicWorlds, *)
(* setting affinities and mins, reading one min back and printing ERROR    *)
(* when the answer is not the one the scenario expects, then calling       *)
(* stop_timer_worlds(). It is modelled as a program (a sequence of         *)
(* instructions, one per call the script makes) run by one action per kind *)
(* of instruction. stop_timer_worlds() writes "stop" to the timer-based    *)
(* node only, so the BasicWorlds of a scenario, and the mins granted to    *)
(* them, stay in the scheduler for the rest of the script.                 *)
(*                                                                         *)
(* The admission controller is the scheduler's (not code of this           *)
(* repository). Its contract, from the spec: a min is granted (read back   *)
(* as requested) exactly when the granted mins of all worlds, with their   *)
(* affinities, still fit on the pcpus, each vcpu of a world taking         *)
(* min / numvcpus of one pcpu and the vcpus of a world on distinct pcpus;  *)
(* rejected (read back as 0) otherwise. With Honest = FALSE the controller *)
(* answers each request either way.                                        *)
(***************************************************************************)
EXTENDS Integers, Sequences, FiniteSets, FiniteSetsExt

CONSTANTS
  NcpusNode, \* the first number of each line of /proc/vmware/sched/ncpus
  Reserved,  \* percent of pcpu 0 held as min by the console world
  Honest     \* the controller follows its contract

ASSUME /\ NcpusNode \in Seq(Nat \ {0}) /\ Len(NcpusNode) \in {1, 2}
       /\ Reserved \in 0..100 /\ Honest \in BOOLEAN

\* get_num_cpus(): <<physical, logical>>; an old-style node has one line,
\* the cpu count, used for both; a new one has the logical count, then
\* the physical count
GetNumCpus(lines) ==
  IF Len(lines) = 1 THEN <<lines[1], lines[1]>> ELSE <<lines[2], lines[1]>>

NCpus   == GetNumCpus(NcpusNode)[2]    \* ncpus = get_num_cpus()[1]
NumPhys == GetNumCpus(NcpusNode)[1]

ASSUME NumPhys \in 1..NCpus

Pcpus == 0..(NCpus - 1)
\* numLogical = get_num_cpus()[1] / get_num_cpus()[0], Python 2 int division
NumLogical == NCpus \div NumPhys

\* the BasicWorld objects of the script: world i of scenario s
W(s, i) == <<s, i>>
WorldIds == {W(1, 1), W(1, 2), W(3, 1), W(3, 2)} \cup {W(2, i) : i \in 1..NCpus}
              \cup {W(s, i) : s \in {4, 5}, i \in 1..3}
Scenario(w) == w[1]
\* numvcpus given to each constructor
Vcpus(w) == IF Scenario(w) \in {3, 4, 5} THEN 2 ELSE 1
\* min given to each constructor (start() writes it when nonzero)
MinAt(w) == IF Scenario(w) = 2 THEN 100 ELSE 0
\* mutant: the affinity strings read as 1-based pcpu numbers
AffAtShifted(w) ==
  CASE w = W(3, 1) -> {2, 3}
    [] w = W(3, 2) -> {3, 4}
    [] Scenario(w) = 4 -> {2, 3, 4}
    [] w = W(5, 1) -> {1, 2}
    [] w = W(5, 2) -> {1, 3}
    [] w = W(5, 3) -> {2, 4}
    [] OTHER -> {c + 1 : c \in Pcpus}

\* affinity given to each constructor, as the pcpu set written by
\* configAffinity ("all:1,2;" etc.); None means every pcpu
AffAt(w) ==
  CASE w = W(3, 1) -> {1, 2}
    [] w = W(3, 2) -> {2, 3}
    [] Scenario(w) = 4 -> {1, 2, 3}
    [] w = W(5, 1) -> {0, 1}
    [] w = W(5, 2) -> {0, 2}
    [] w = W(5, 3) -> {1, 3}
    [] OTHER -> Pcpus

(* instructions *)
Stop            == [op |-> "stop"]
Start(w)        == [op |-> "start", w |-> w]
SetAffinity(w, a) == [op |-> "affinity", w |-> w, aff |-> a]
ConfigMin(w, m) == [op |-> "min", w |-> w, m |-> m]
\* if w.readMin() <cmp> val: print ERROR (then sys.exit(-1) if quit)
Probe(w, cmp, val, quit) ==
  [op |-> "probe", w |-> w, cmp |-> cmp, val |-> val, quit |-> quit]
ExitIf(c)       == [op |-> "exitif", c |-> c]

\* mutant: the first scenario reads back the first world's min
Scenario1ProbeFirst ==
  << Stop, Start(W(1, 1)), Start(W(1, 2)),
     SetAffinity(W(1, 1), {1}), SetAffinity(W(1, 2), {1}),
     ConfigMin(W(1, 1), 75), ConfigMin(W(1, 2), 75),
     Probe(W(1, 1), "!=", 0, FALSE), Stop >>

\* 2x 75% unis on the same cpu [should fail]
Scenario1 ==
  << Stop, Start(W(1, 1)), Start(W(1, 2)),
     SetAffinity(W(1, 1), {1}), SetAffinity(W(1, 2), {1}),
     ConfigMin(W(1, 1), 75), ConfigMin(W(1, 2), 75),
     Probe(W(1, 2), "!=", 0, FALSE), Stop >>

\* simple overcommit, 100% uni per pcpu [should fail]; only the last
\* world's min is read back
Scenario2 ==
  [i \in 1..NCpus |-> Start(W(2, i))]
  \o << Probe(W(2, NCpus), "==", 100, FALSE), Stop, ExitIf(NCpus < 4) >>

\* overlapping 2-ways [should fail]; "tw1.readMin != 0" compares the bound
\* method with 0, which is always true, so only tw2 is read
Scenario3 ==
  << Start(W(3, 1)), Start(W(3, 2)),
     ConfigMin(W(3, 1), 180), ConfigMin(W(3, 2), 100),
     Probe(W(3, 2), "!=", 0, TRUE), Stop >>

\* three duals with 1,2,3 affinity [should succeed]
Scenario4 ==
  << Start(W(4, 1)), Start(W(4, 2)), Start(W(4, 3)),
     ConfigMin(W(4, 1), 100 \div NumLogical),
     ConfigMin(W(4, 2), 100 \div NumLogical),
     ConfigMin(W(4, 3), 100 \div NumLogical),
     Probe(W(4, 3), "!=", 100 \div NumLogical, TRUE), Stop,
     ExitIf(NumLogical > 1) >>

\* more smp affinity [should fail]
Scenario5 ==
  << Start(W(5, 1)), Start(W(5, 2)), Start(W(5, 3)),
     ConfigMin(W(5, 1), 100 \div NumLogical),
     ConfigMin(W(5, 2), 100 \div NumLogical),
     ConfigMin(W(5, 3), 120 \div NumLogical),
     Probe(W(5, 3), "!=", 0, TRUE), Stop >>

Program == Scenario1 \o Scenario2 \o Scenario3 \o Scenario4 \o Scenario5

(***************************************************************************)
(* The admission controller's contract (spec section 4.4).                 *)
(***************************************************************************)
\* a vcpu's part of a min, in half-percent of a pcpu (numvcpus is 1 or 2)
PerVcpu(m, w) == (2 * m) \div Vcpus(w)
Cap(c) == 200 - (IF c = 0 THEN 2 * Reserved ELSE 0)

\* the worlds of S, with mins g and affinities aff, can be placed on the
\* pcpus on top of load
RECURSIVE Pack(_, _, _, _)
Pack(S, g, aff, load) ==
  IF S = {} THEN TRUE
  ELSE LET w == CHOOSE x \in S : TRUE
           d == PerVcpu(g[w], w)
       IN  \E P \in kSubset(Vcpus(w), aff[w]) :
             /\ \A c \in P : load[c] + d <= Cap(c)
             /\ Pack(S \ {w}, g, aff,
                     [c \in Pcpus |-> load[c] + (IF c \in P THEN d ELSE 0)])

Fits(S, g, aff) == Pack({w \in S : g[w] > 0}, g, aff, [c \in Pcpus |-> 0])

\* what the contract answers to min m for w, the worlds of S holding theirs
Contract(S, w, m, g, aff) ==
  IF Fits(S \cup {w}, [g EXCEPT ![w] = m], aff) THEN m ELSE 0

VARIABLES
  pc,       \* index in Program of the next call
  status,   \* "running", "exited" (sys.exit) or "done" (end of script)
  alive,    \* worlds running in the scheduler
  aff,      \* world -> its pcpu affinity set in the scheduler
  granted,  \* world -> its min in the scheduler (what readMin returns)
  printed,  \* scenarios that printed an ERROR line
  breach    \* history: scenarios where the controller answered a min
            \* request against the contract over that scenario's worlds

vars == <<pc, status, alive, aff, granted, printed, breach>>

Instr == Program[pc]

\* the controller's answer to min m for w, and the breach record
Answer(w, m) ==
  \E g \in IF Honest THEN {Contract(alive, w, m, granted, aff)} ELSE {m, 0} :
     /\ granted' = [granted EXCEPT ![w] = g]
     /\ breach' = breach \cup
          (IF g # Contract({x \in alive : Scenario(x) = Scenario(w)}, w, m,
                           granted, aff)
           THEN {Scenario(w)} ELSE {})

Init ==
  /\ pc = 1 /\ status = "running" /\ alive = {}
  /\ aff = [w \in WorldIds |-> Pcpus] /\ granted = [w \in WorldIds |-> 0]
  /\ printed = {} /\ breach = {}

Step == pc' = pc + 1 /\ status' = IF pc = Len(Program) THEN "done" ELSE status

\* stop_timer_worlds(): "stop" to the timer-based node; no BasicWorld stops
StopTimerWorlds ==
  /\ status = "running" /\ Instr.op = "stop"
  /\ Step
  /\ UNCHANGED <<alive, aff, granted, printed, breach>>

\* TestWorld.start(): the world is created (id discovery as in
\* WorldLifecycle, here assumed to succeed), configMin(self.min) when it is
\* nonzero, then configAffinity() when an affinity was given
StartWorld ==
  /\ status = "running" /\ Instr.op = "start"
  /\ LET w == Instr.w IN
     /\ alive' = alive \cup {w}
     /\ IF MinAt(w) # 0
        THEN Answer(w, MinAt(w))
        ELSE UNCHANGED <<granted, breach>>
     /\ aff' = [aff EXCEPT ![w] = AffAt(w)]
  /\ Step
  /\ UNCHANGED printed

\* VM.setAffinity(affinStr)
SetAffin ==
  /\ status = "running" /\ Instr.op = "affinity"
  /\ aff' = [aff EXCEPT ![Instr.w] = Instr.aff]
  /\ Step
  /\ UNCHANGED <<alive, granted, printed, breach>>

\* TestWorld.configMin(min)
SetMin ==
  /\ status = "running" /\ Instr.op = "min"
  /\ Answer(Instr.w, Instr.m)
  /\ Step
  /\ UNCHANGED <<alive, aff, printed>>

\* if w.readMin() <cmp> val: print "ERROR: ..." [; sys.exit(-1)]
ReadBack ==
  /\ status = "running" /\ Instr.op = "probe"
  /\ LET r == granted[Instr.w]
         err == IF Instr.cmp = "==" THEN r = Instr.val ELSE r # Instr.val
     IN  /\ printed' = IF err THEN printed \cup {Scenario(Instr.w)}
                       ELSE printed
         /\ IF err /\ Instr.quit
            THEN status' = "exited" /\ UNCHANGED pc
            ELSE Step
  /\ UNCHANGED <<alive, aff, granted, breach>>

\* if <cond>: sys.exit()
ExitWhen ==
  /\ status = "running" /\ Instr.op = "exitif"
  /\ IF Instr.c THEN status' = "exited" /\ UNCHANGED pc ELSE Step
  /\ UNCHANGED <<alive, aff, granted, printed, breach>>

Next == StopTimerWorlds \/ StartWorld \/ SetAffin \/ SetMin \/ ReadBack
          \/ ExitWhen

\* the script runs to its end or to a sys.exit
Spec == Init /\ [][Next]_vars /\ WF_vars(Next)

-----------------------------------------------------------------------------
TypeOK ==
  /\ pc \in 1..Len(Program) + 1 /\ status \in {"running", "exited", "done"}
  /\ alive \subseteq WorldIds /\ aff \in [WorldIds -> SUBSET Pcpus]
  /\ granted \in [WorldIds -> Nat] /\ printed \subseteq 1..5
  /\ breach \subseteq 1..5

(***************************************************************************)
(* The script prints ERROR for a scenario only when the controller         *)
(* answered some min request of that scenario against its contract         *)
(* (judged over the scenario's own worlds): the script's read-backs and    *)
(* their expected values -- including the overlapping-2-ways check whose   *)
(* second operand is a bound method -- never raise a false alarm against a *)
(* clean scheduler.                                                        *)
(***************************************************************************)
ErrorOnlyOnBreach == printed \subseteq breach

(***************************************************************************)
(* A scheduler whose admission controller keeps its contract draws no      *)
(* ERROR from the script: the worlds the script runs are the only load it  *)
(* asserts about.                                                          *)
(***************************************************************************)
HonestKernelPasses == printed = {}

=============================================================================
