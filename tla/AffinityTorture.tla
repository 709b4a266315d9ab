--------------------------- MODULE AffinityTorture ---------------------------
(***************************************************************************)
(* AffinityTortureTest.run (runschedtests.py) against a scheduler that     *)
(* places and runs vcpus as it likes.                                      *)
(*                                                                         *)
(* Each repetition resets the stats, sleeps, loads one snapshot, and for   *)
(* every world: reads its vcpus (setSchedData), checks them against the    *)
(* affinity configured in the previous repetition (checkAffinity), flags   *)
(* the world as stuck when its summed usedsec is below 0.01, then draws a  *)
(* new random affinity (randAffinity) and writes it (configAffinity).      *)
(*                                                                         *)
(* The scheduler is the system under test: at each snapshot every vcpu     *)
(* sits on any pcpu and has or has not run. A vcpu's usedsec growth is     *)
(* abstracted to "ran" (>= 0.01 s) or not.                                 *)
(***************************************************************************)
EXTENDS Integers, Sequences, FiniteSets, Functions

CONSTANTS
  NumLogical,   \* get_num_cpus()[1], the logical cpu count
  VcpuCounts,   \* numvcpus of each world of the test, in self.vms order
  NumReps,      \* numreps
  InIndexOrder, \* TRUE: the dump lists each world's vcpus by vcpu index
  MayDropLine   \* TRUE: a snapshot may hold one corrupt vcpu line, which
                \* load_data prints and leaves out of vcpu_list

ASSUME /\ NumLogical \in Nat \ {0} /\ NumReps \in Nat \ {0}
       /\ InIndexOrder \in BOOLEAN /\ MayDropLine \in BOOLEAN
       /\ VcpuCounts \in Seq(Nat \ {0}) /\ Len(VcpuCounts) > 0

Worlds  == 1..Len(VcpuCounts)
Cpus    == 0..(NumLogical - 1)
VcpuIds == UNION {{<<w, j>> : j \in 1..VcpuCounts[w]} : w \in Worlds}
NoVcpu  == <<0, 0>>
\* vcpu 1 of a world is its leader (vm == vcpu in the dump)
Leader  == 1
\* why run() stopped early: the leader assertion of setSchedData, an
\* IndexError in checkAffinity, reduce() of an empty list in getVcpuVal,
\* the stuck message, random.choice of an empty range
Crashes == {"leader", "index", "reduce", "stuck", "draw"}
\* vm.affinity: None before the first draw, the string "0,1,..,n-1" for
\* "all cpus", or a list giving one pcpu per vcpu
None    == [tag |-> "none", lst |-> <<>>]
All     == [tag |-> "all", lst |-> <<>>]
AsList(f) == [tag |-> "list", lst |-> f]
\* the values randAffinity produces: a list names distinct pcpus
Affinity(w) == {None, All} \cup {AsList(f) : f \in Injection(1..VcpuCounts[w], Cpus)}
\* the orders in which a snapshot can list world w's vcpus: position i of
\* vm.vcpus (setSchedData appends in dump order) holds vcpu order[i]
VcpuOrders(w) ==
  IF InIndexOrder THEN {[i \in 1..VcpuCounts[w] |-> i]}
  ELSE Bijection(1..VcpuCounts[w], 1..VcpuCounts[w])

VARIABLES
  phase,      \* "sample" (next: reset/sleep/load), "check", "done", "crashed"
  rep,        \* repetition i + 1
  widx,       \* index in self.vms of the world being checked
  affinity,   \* world -> vm.affinity
  placed,     \* vcpu -> pcpu field of its line in the snapshot
  order,      \* world -> the order of its vcpus in the snapshot
  dropped,    \* the vcpu whose line of the snapshot is corrupt, or NoVcpu
  seen,       \* world -> vm.leader is not None (set by an earlier snapshot)
  crash,      \* history: why the loop stopped early, or "none"
  ran,        \* vcpu -> its usedsec grew by at least 0.01 since reset
  affinErrs,  \* <<rep, world, vcpu>> for each affinity error in self.errs
  stuckErrs,  \* <<rep, world>> for each "stuck" error in self.errs
  misplaced,  \* history: <<rep, world, vcpu>> on a pcpu its affinity forbids
  starved     \* history: <<rep, world, vcpu>> that did not run

vars == <<phase, rep, widx, affinity, placed, order, dropped, seen, crash,
          ran, affinErrs, stuckErrs, misplaced, starved>>

\* setSchedData: vm.vcpus, the vcpu indices of world w's parsed lines in
\* dump order; a corrupt line is missing from vcpu_list
Parsed(w) == SelectSeq(order[w], LAMBDA j : <<w, j>> # dropped)

\* setSchedData keeps the last leader it found: "assert self.leader is not
\* None" holds when this snapshot or an earlier one held the leader line
HasLeader(w) == seen[w] \/ <<w, Leader>> # dropped

\* the pcpu p is allowed for vcpu j by affinity a
Allows(a, j, p) == a.tag # "list" \/ a.lst[j] = p

(***************************************************************************)
(* checkAffinity(vm): the vcpus it reports. None returns at once; the      *)
(* "all" string accepts every pcpu of the split list; a list compares     *)
(* the pcpu of vm.vcpus[i] with affinlst[i] for i in range(0, numvcpus),   *)
(* and names i as the vcpu. IndexFails: vm.vcpus is shorter than numvcpus *)
(* and the list branch raises IndexError, losing its local errs.          *)
(***************************************************************************)
\* mutant: the list branch loops over the first vcpu only
CheckAffinityFirstVcpu(w) ==
  IF affinity[w].tag # "list" THEN {}
  ELSE {j \in 1..1 : placed[<<w, Parsed(w)[j]>>] # affinity[w].lst[j]}

CheckAffinity(w) ==
  IF affinity[w].tag # "list" THEN {}
  ELSE {j \in 1..VcpuCounts[w] : placed[<<w, Parsed(w)[j]>>] # affinity[w].lst[j]}

IndexFails(w) == affinity[w].tag = "list" /\ Len(Parsed(w)) < VcpuCounts[w]

(***************************************************************************)
(* randAffinity(numvcpus): with probability 1/4 every cpu, otherwise a     *)
(* distinct random pcpu per vcpu drawn without replacement; the draw       *)
(* raises IndexError when numvcpus > NumLogical.                           *)
(***************************************************************************)
\* mutant: random.choice(r) without r.remove(c), pcpus drawn with replacement
RandAffinityReplace(branch, n) ==
  IF branch = "all" THEN {All} ELSE {AsList(f) : f \in [1..n -> Cpus]}

RandAffinity(branch, n) ==
  IF branch = "all" THEN {All} ELSE {AsList(f) : f \in Injection(1..n, Cpus)}
RandListFails(n) == n > NumLogical

Init ==
  /\ phase = "sample" /\ rep = 1 /\ widx = 1
  /\ affinity = [w \in Worlds |-> None]
  /\ placed = [v \in VcpuIds |-> 0] /\ ran = [v \in VcpuIds |-> TRUE]
  /\ order = [w \in Worlds |-> [i \in 1..VcpuCounts[w] |-> i]]
  /\ dropped = NoVcpu /\ seen = [w \in Worlds |-> FALSE] /\ crash = "none"
  /\ affinErrs = {} /\ stuckErrs = {} /\ misplaced = {} /\ starved = {}

\* the lines of a snapshot load_data may leave out
DropChoices == IF MayDropLine THEN VcpuIds \cup {NoVcpu} ELSE {NoVcpu}

\* parse_sched.reset_stats(); time.sleep(...); data = parse_sched.load_data()
Sample ==
  /\ phase = "sample"
  /\ dropped' \in DropChoices
  /\ \E pl \in [VcpuIds -> Cpus], rn \in [VcpuIds -> BOOLEAN],
        od \in [Worlds -> UNION {VcpuOrders(w) : w \in Worlds}] :
       /\ \A w \in Worlds : od[w] \in VcpuOrders(w)
       /\ placed' = pl /\ ran' = rn /\ order' = od
       /\ misplaced' = misplaced \cup
            {<<rep, v[1], v[2]>> : v \in {u \in VcpuIds :
                                    ~Allows(affinity[u[1]], u[2], pl[u])}}
       /\ starved' = starved \cup
            {<<rep, v[1], v[2]>> : v \in {u \in VcpuIds : ~rn[u]}}
  /\ phase' = "check" /\ widx' = 1
  /\ UNCHANGED <<rep, affinity, seen, crash, affinErrs, stuckErrs>>

\* the first step of the loop body that raises for world w, or "ok"; the
\* stuck test sums usedsec over the parsed vcpus only
Outcome(w) ==
  LET P == Parsed(w) IN
  CASE ~HasLeader(w)                           -> "leader"
    [] IndexFails(w)                           -> "index"
    [] Len(P) = 0                              -> "reduce"
    [] \A i \in 1..Len(P) : ~ran[<<w, P[i]>>]  -> "stuck"
    [] OTHER                                   -> "ok"

\* the body of "for v in self.vms" for v = self.vms[widx]: setSchedData,
\* checkAffinity, the usedsec < 0.01 test -- whose error message reads
\* v.vcpu and v.usedsec, attributes a TestWorld does not have, so building
\* it raises AttributeError -- then randAffinity and configAffinity. Any
\* exception ends run() and the whole program.
CheckWorld ==
  LET w == widx
      n == VcpuCounts[w]
      out == Outcome(w)
      last == w = Len(VcpuCounts)
  IN
  /\ phase = "check"
  /\ seen' = [seen EXCEPT ![w] = HasLeader(w)]
  /\ affinErrs' = IF out \in {"leader", "index"} THEN affinErrs
                  ELSE affinErrs \cup {<<rep, w, j>> : j \in CheckAffinity(w)}
  /\ IF out # "ok"
     THEN /\ phase' = "crashed" /\ crash' = out
          /\ UNCHANGED <<affinity, rep, widx>>
     ELSE \E branch \in {"all", "list"} :
            IF branch = "list" /\ RandListFails(n)
            THEN /\ phase' = "crashed" /\ crash' = "draw"
                 /\ UNCHANGED <<affinity, rep, widx>>
            ELSE \E a \in RandAffinity(branch, n) :
                 /\ affinity' = [affinity EXCEPT ![w] = a]
                 /\ widx' = IF last THEN 1 ELSE w + 1
                 /\ rep' = IF last THEN rep + 1 ELSE rep
                 /\ phase' = IF ~last THEN "check"
                             ELSE IF rep = NumReps THEN "done" ELSE "sample"
                 /\ UNCHANGED crash
  /\ UNCHANGED <<placed, order, dropped, ran, stuckErrs, misplaced, starved>>

Next == Sample \/ CheckWorld

\* the test thread runs to completion once started
Spec == Init /\ [][Next]_vars /\ WF_vars(Next)

-----------------------------------------------------------------------------
TypeOK ==
  /\ phase \in {"sample", "check", "done", "crashed"}
  /\ rep \in 1..NumReps + 1 /\ widx \in Worlds
  /\ \A w \in Worlds : affinity[w] \in Affinity(w)
  /\ placed \in [VcpuIds -> Cpus] /\ ran \in [VcpuIds -> BOOLEAN]
  /\ \A w \in Worlds : order[w] \in VcpuOrders(w)
  /\ dropped \in VcpuIds \cup {NoVcpu} /\ seen \in [Worlds -> BOOLEAN]
  /\ crash \in Crashes \cup {"none"}
  /\ affinErrs \subseteq (1..NumReps) \X Worlds \X Nat
  /\ stuckErrs \subseteq (1..NumReps) \X Worlds

\* world w of repetition r has been fully checked
Checked(r, w) == r < rep \/ (r = rep /\ phase = "check" /\ w < widx)

(***************************************************************************)
(* The affinity errors of a repetition are exactly the vcpus the snapshot  *)
(* shows on a pcpu forbidden by the affinity in force during that sleep    *)
(* -- the one written at the end of the previous repetition, not the one   *)
(* drawn right after the check -- no false alarm and none missed.          *)
(***************************************************************************)
AffinityErrorsExact ==
  \A r \in 1..NumReps, w \in Worlds :
     Checked(r, w) =>
       {j \in 1..VcpuCounts[w] : <<r, w, j>> \in affinErrs}
         = {j \in 1..VcpuCounts[w] : <<r, w, j>> \in misplaced}

(***************************************************************************)
(* Every vcpu that did not run during a sampling window is reported as a   *)
(* stuck-workload error and the test goes on: the spec makes starvation a  *)
(* recoverable finding collected in the error list.                        *)
(***************************************************************************)
StuckVcpuReported ==
  \A s \in starved :
     (Checked(s[1], s[2]) \/ phase = "crashed") => <<s[1], s[2]>> \in stuckErrs

(***************************************************************************)
(* A single corrupt vcpu line is dropped by load_data and the test goes on *)
(* (the spec's per-line policy); only a snapshot without a world's leader *)
(* vcpu may end the run. So an IndexError in checkAffinity only ever      *)
(* comes from a missing leader line.                                       *)
(***************************************************************************)
DroppedLineTolerated == crash = "index" => dropped[2] = Leader

=============================================================================
