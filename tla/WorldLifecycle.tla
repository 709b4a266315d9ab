--------------------------- MODULE WorldLifecycle ---------------------------
(***************************************************************************)
(* The test-world lifecycle of the scheduler regression harness            *)
(* (runschedtests.py) together with the part of the vmkernel it talks to. *)
(*                                                                         *)
(* Harness (one Python thread):                                            *)
(*   run_tests      : for each test, setup; run; results; shutdown         *)
(*   BasicTest.setup: start every world; on any exception stop the timer   *)
(*                    worlds, pause and start them all once more           *)
(*   TestWorld.start: oldmax := get_max_vmid(); write "start ..."; poll    *)
(*                    get_max_vmid() until it differs from oldmax, giving  *)
(*                    up when spincount > 5; then write min/max/affinity   *)
(*                    /hyperthreading into /proc/vmware/vm/<vmid>/cpu/     *)
(*   stop_timer_worlds: write "stop" to the timer-based testworld node and *)
(*                    sleep PAUSE_TIME                                     *)
(*                                                                         *)
(* Kernel (environment, asynchronous): a "start" request becomes a world   *)
(* with the next world id, or is refused; a new world shows up in          *)
(* /proc/vmware/vm and in the cpu-verbose dump independently; "stop"       *)
(* marks every timer world for destruction and each one vanishes later.    *)
(***************************************************************************)
EXTENDS Integers, Sequences, FiniteSets, FiniteSetsExt, TLC

CONSTANTS
  Tests,          \* the test list: each test is a sequence of worlds
                  \* [kind |-> "timer" | "basic", cfg |-> BOOLEAN]; cfg means
                  \* start() writes at least one cpu/* config node
  MaxSpin,        \* the spin bound of TestWorld.start (5 in the code)
  MaxId,          \* largest world id the kernel may hand out (model bound)
  LateCreation,   \* TRUE: a start request may still become a world after
                  \*       the harness has given up polling for it
  PauseSuffices   \* TRUE: stopped worlds are gone before PAUSE_TIME ends

ASSUME /\ Tests \in Seq(Seq([kind : {"timer", "basic"}, cfg : BOOLEAN]))
       /\ \A t \in DOMAIN Tests : Len(Tests[t]) > 0
       /\ MaxSpin \in Nat /\ MaxId \in Nat \ {0}
       /\ LateCreation \in BOOLEAN /\ PauseSuffices \in BOOLEAN

Kinds    == {"console", "timer", "basic"}
Ids      == 1..MaxId
NoId     == 0
Console  == 1                           \* the console world, always present
MaxVms   == Max({Len(Tests[t]) : t \in DOMAIN Tests})
\* who a world was created for: <<test, vm index, setup attempt>>;
\* <<0, 0, 0>> is a world the harness did not ask for (left over by an
\* earlier run, or started by another process)
Owners   == ({0} \X {0} \X {0}) \cup ((1..Len(Tests)) \X (1..MaxVms) \X {1, 2})
PreExisting == <<0, 0, 0>>
Pcs == {"main", "pause", "start", "write", "poll", "config",
        "run", "results", "shutdown", "done", "fatal"}

VARIABLES
  \* kernel
  alive,      \* ids of worlds that exist
  kindOf,     \* world id -> kind (the /proc/vmware/testworlds node used)
  owner,      \* world id -> Owners (history: which start() asked for it)
  inProc,     \* ids with a /proc/vmware/vm/<id> directory
  inSched,    \* ids whose vcpus appear in /proc/vmware/sched/cpu-verbose
  dying,      \* ids stopped but not yet destroyed
  pending,    \* start requests written but not yet acted on by the kernel
  nextId,     \* next world id the kernel hands out
  \* harness
  pc,         \* control point of the harness thread
  resume,     \* where the harness continues after a PAUSE_TIME sleep
  test,       \* index of the running test in Tests
  vmIdx,      \* index of the world being started by setup()
  attempt,    \* 1 = first pass of setup(), 2 = the retry in its except:
  oldmax,     \* TestWorld.start: oldmax
  spincount,  \* TestWorld.start: spincount
  vmid        \* vm index -> self.vmid of that TestWorld object

kernelVars  == <<alive, kindOf, owner, inProc, inSched, dying, pending, nextId>>
harnessVars == <<pc, resume, test, vmIdx, attempt, oldmax, spincount, vmid>>
vars == <<kernelVars, harnessVars>>

Cur(i) == Tests[test][i]
NumVms == Len(Tests[test])

(***************************************************************************)
(* get_max_vmid: the largest id under /proc/vmware/vm, capped by the       *)
(* largest world id of any vcpu in the scheduler dump (the min of both).   *)
(***************************************************************************)
\* mutant: only the glob over /proc/vmware/vm, no cap by the scheduler dump
GetMaxVmidProcOnly == Max(inProc)

GetMaxVmid == Min({Max(inProc), Max(inSched)})

\* mutant: the stop hits every world that is not a basic one
StopTimerWorldsNotBasic ==
  dying' = dying \cup {w \in alive : kindOf[w] # "basic"}

\* writing "stop" to the timer-based node: every timer world starts dying
StopTimerWorlds ==
  dying' = dying \cup {w \in alive : kindOf[w] = "timer"}

\* the kernel has acted on every request and shown every live world
Settled ==
  /\ pending = {}
  /\ \A w \in alive \ dying : w \in inProc \cap inSched

\* an exception out of TestWorld.start inside BasicTest.setup: the first one
\* runs shutdown() (stop timer worlds, pause) and a sleep, then the retry;
\* the second one escapes run_tests and ends the program
StartRaised ==
  IF attempt = 1
  THEN /\ StopTimerWorlds
       /\ pc' = "pause" /\ resume' = "retry"
  ELSE /\ pc' = "fatal" /\ UNCHANGED <<dying, resume>>

-----------------------------------------------------------------------------
Init ==
  /\ \E leftover \in {"none", "timer", "basic"} :
       \* a world a previous harness run may have left behind
       LET ws == IF leftover = "none" THEN {Console} ELSE {Console, 2}
       IN /\ alive = ws /\ inProc = ws /\ inSched = ws
          /\ kindOf = [w \in ws |-> IF w = Console THEN "console" ELSE leftover]
          /\ owner = [w \in ws |-> PreExisting]
          /\ nextId = Max(ws) + 1
  /\ dying = {} /\ pending = {}
  /\ pc = "main" /\ resume = "setup" /\ test = 1 /\ vmIdx = 1 /\ attempt = 1
  /\ oldmax = NoId /\ spincount = 0
  /\ vmid = [i \in 1..MaxVms |-> NoId]

\* __main__: stop_timer_worlds() before anything else
MainStop ==
  /\ pc = "main"
  /\ StopTimerWorlds
  /\ pc' = "pause" /\ resume' = "setup"
  /\ UNCHANGED <<alive, kindOf, owner, inProc, inSched, pending, nextId,
                 test, vmIdx, attempt, oldmax, spincount, vmid>>

\* mutant: stop_timer_worlds(pause=False), no wait for the stop to finish
PauseEndsNoWait ==
  /\ pc = "pause"
  /\ pc' = IF resume = "done" THEN "done" ELSE "start"
  /\ vmIdx' = 1
  /\ attempt' = IF resume = "retry" THEN 2 ELSE 1
  /\ UNCHANGED <<kernelVars, resume, test, oldmax, spincount, vmid>>

\* the end of a time.sleep(PAUSE_TIME) after a stop
PauseEnds ==
  /\ pc = "pause"
  /\ PauseSuffices => dying = {}
  /\ pc' = IF resume = "done" THEN "done" ELSE "start"
  /\ vmIdx' = 1
  /\ attempt' = IF resume = "retry" THEN 2 ELSE 1
  /\ UNCHANGED <<kernelVars, resume, test, oldmax, spincount, vmid>>

\* TestWorld.start: oldmax = get_max_vmid()
StartBegin ==
  /\ pc = "start"
  /\ oldmax' = GetMaxVmid
  /\ pc' = "write"
  /\ UNCHANGED <<kernelVars, resume, test, vmIdx, attempt, spincount, vmid>>

\* TestWorld.start: write "start ..." to the kind's node; the buffered write
\* reaches the kernel at f.close(), after the sleep
StartWrite ==
  /\ pc = "write"
  /\ pending' = pending \cup
       {[kind |-> Cur(vmIdx).kind, for |-> <<test, vmIdx, attempt>>]}
  /\ pc' = "poll" /\ spincount' = 0
  /\ UNCHANGED <<alive, kindOf, owner, inProc, inSched, dying, nextId,
                 resume, test, vmIdx, attempt, oldmax, vmid>>

\* mutant: the spin loop forgets "spincount += 1"
PollNoCount ==
  /\ pc = "poll"
  /\ vmid' = [vmid EXCEPT ![vmIdx] = GetMaxVmid]
  /\ IF spincount > MaxSpin
     THEN StartRaised
     ELSE /\ pc' = IF GetMaxVmid = oldmax THEN "poll" ELSE "config"
          /\ UNCHANGED <<dying, resume>>
  /\ UNCHANGED <<alive, kindOf, owner, inProc, inSched, pending, nextId,
                 test, vmIdx, attempt, oldmax, spincount>>

\* TestWorld.start: self.vmid = get_max_vmid(), the first one and each one
\* of the spin loop; the loop raises once spincount > MaxSpin, whatever the
\* poll just returned
Poll ==
  /\ pc = "poll"
  /\ spincount > MaxSpin /\ ~LateCreation => Settled
  /\ vmid' = [vmid EXCEPT ![vmIdx] = GetMaxVmid]
  /\ IF spincount > MaxSpin
     THEN StartRaised
     ELSE /\ pc' = IF GetMaxVmid = oldmax THEN "poll" ELSE "config"
          /\ UNCHANGED <<dying, resume>>
  /\ spincount' = spincount + 1
  /\ UNCHANGED <<alive, kindOf, owner, inProc, inSched, pending, nextId,
                 test, vmIdx, attempt, oldmax>>

\* TestWorld.start: configMin / configMax / configAffinity / configHTSharing
\* open /proc/vmware/vm/<vmid>/cpu/*; open() raises if that directory is
\* gone. Then setup() goes on with the next world, or the test runs.
Config ==
  /\ pc = "config"
  /\ IF Cur(vmIdx).cfg /\ vmid[vmIdx] \notin inProc
     THEN StartRaised
     ELSE /\ pc' = IF vmIdx = NumVms THEN "run" ELSE "start"
          /\ UNCHANGED <<dying, resume>>
  /\ vmIdx' = IF vmIdx = NumVms THEN vmIdx ELSE vmIdx + 1
  /\ UNCHANGED <<alive, kindOf, owner, inProc, inSched, pending, nextId,
                 test, attempt, oldmax, spincount, vmid>>

\* BasicTest.run: parse_sched.reset_stats(); time.sleep(RUN_TIME)
Run ==
  /\ pc = "run"
  /\ pc' = "results"
  /\ UNCHANGED <<kernelVars, resume, test, vmIdx, attempt, oldmax,
                 spincount, vmid>>

\* results(): VM.setSchedData for every world; "assert self.leader is not
\* None" fails when the world's vcpus are not in the dump
Results ==
  /\ pc = "results"
  /\ pc' = IF \A i \in 1..NumVms : vmid[i] \in inSched
           THEN "shutdown" ELSE "fatal"
  /\ UNCHANGED <<kernelVars, resume, test, vmIdx, attempt, oldmax,
                 spincount, vmid>>

\* mutant: the test loop stops one test early (range(0, len(testList) - 1))
ShutdownLastTestEarly ==
  /\ pc = "shutdown"
  /\ StopTimerWorlds
  /\ pc' = "pause"
  /\ resume' = IF test >= Len(Tests) - 1 THEN "done" ELSE "setup"
  /\ test' = IF test >= Len(Tests) - 1 THEN test ELSE test + 1
  /\ vmid' = [i \in 1..MaxVms |-> NoId]
  /\ UNCHANGED <<alive, kindOf, owner, inProc, inSched, pending, nextId,
                 vmIdx, attempt, oldmax, spincount>>

\* BasicTest.shutdown: stop_timer_worlds(); run_tests goes to the next test
Shutdown ==
  /\ pc = "shutdown"
  /\ StopTimerWorlds
  /\ pc' = "pause"
  /\ resume' = IF test = Len(Tests) THEN "done" ELSE "setup"
  /\ test' = IF test = Len(Tests) THEN test ELSE test + 1
  /\ vmid' = [i \in 1..MaxVms |-> NoId]
  /\ UNCHANGED <<alive, kindOf, owner, inProc, inSched, pending, nextId,
                 vmIdx, attempt, oldmax, spincount>>

-----------------------------------------------------------------------------
(* Kernel actions                                                          *)

\* a start request becomes a world with the next id
Create(r) ==
  /\ r \in pending
  /\ nextId <= MaxId
  /\ alive' = alive \cup {nextId}
  /\ kindOf' = kindOf @@ (nextId :> r.kind)
  /\ owner' = owner @@ (nextId :> r.for)
  /\ pending' = pending \ {r}
  /\ nextId' = nextId + 1
  /\ UNCHANGED <<inProc, inSched, dying, harnessVars>>

\* a start request the kernel does not act on (e.g. out of resources)
Refuse(r) ==
  /\ r \in pending
  /\ pending' = pending \ {r}
  /\ UNCHANGED <<alive, kindOf, owner, inProc, inSched, dying, nextId,
                 harnessVars>>

ShowProc(w) ==
  /\ w \in alive \ inProc
  /\ inProc' = inProc \cup {w}
  /\ UNCHANGED <<alive, kindOf, owner, inSched, dying, pending, nextId,
                 harnessVars>>

ShowSched(w) ==
  /\ w \in alive \ inSched
  /\ inSched' = inSched \cup {w}
  /\ UNCHANGED <<alive, kindOf, owner, inProc, dying, pending, nextId,
                 harnessVars>>

Vanish(w) ==
  /\ w \in dying
  /\ alive' = alive \ {w}
  /\ inProc' = inProc \ {w}
  /\ inSched' = inSched \ {w}
  /\ dying' = dying \ {w}
  /\ UNCHANGED <<kindOf, owner, pending, nextId, harnessVars>>

Harness ==
  \/ MainStop \/ PauseEnds \/ StartBegin \/ StartWrite \/ Poll \/ Config
  \/ Run \/ Results \/ Shutdown

Kernel ==
  \/ \E r \in pending : Create(r)
  \/ \E r \in pending : Refuse(r)
  \/ \E w \in Ids : ShowProc(w)
  \/ \E w \in Ids : ShowSched(w)
  \/ \E w \in Ids : Vanish(w)

Next == Harness \/ Kernel

\* The harness thread never stops while it can move; the kernel eventually
\* answers every request and finishes showing and destroying its worlds.
Fairness ==
  /\ WF_vars(Harness)
  /\ WF_vars(\E r \in pending : Create(r) \/ Refuse(r))
  /\ \A w \in Ids : WF_vars(ShowProc(w)) /\ WF_vars(ShowSched(w))
                    /\ WF_vars(Vanish(w))

Spec == Init /\ [][Next]_vars /\ Fairness

-----------------------------------------------------------------------------
TypeOK ==
  /\ alive \subseteq Ids /\ inProc \subseteq alive /\ inSched \subseteq alive
  /\ dying \subseteq alive /\ Console \in alive \ dying
  /\ kindOf \in [DOMAIN kindOf -> Kinds] /\ alive \subseteq DOMAIN kindOf
  /\ owner \in [DOMAIN kindOf -> Owners]
  /\ pending \subseteq [kind : {"timer", "basic"}, for : Owners]
  /\ nextId \in 1..MaxId + 1
  /\ pc \in Pcs /\ resume \in {"setup", "retry", "done"}
  /\ test \in 1..Len(Tests) /\ vmIdx \in 1..MaxVms /\ attempt \in {1, 2}
  /\ oldmax \in Ids \cup {NoId} /\ spincount \in 0..MaxSpin + 2
  /\ vmid \in [1..MaxVms -> Ids \cup {NoId}]

\* worlds whose self.vmid the harness has settled on in this setup attempt
Started ==
  CASE pc \in {"start", "write", "poll"}      -> 1..(vmIdx - 1)
    [] pc = "config"                          -> 1..vmIdx
    [] pc \in {"run", "results", "shutdown"}  -> 1..NumVms
    [] OTHER                                  -> {}

(***************************************************************************)
(* Id discovery is sound: every TestWorld whose start() has returned (or   *)
(* is writing its config) holds the id of the very world its own "start"   *)
(* write created, in the current setup attempt. This is what makes the     *)
(* min/max/affinity writes of TestWorld.start and every per-world metric   *)
(* of results() refer to the right world; it depends on the new-maximum    *)
(* heuristic, the PAUSE_TIME sleeps after "stop" and the retry of setup.   *)
(***************************************************************************)
IdsAreOwn ==
  \A i \in Started :
     /\ vmid[i] \in DOMAIN owner
     /\ owner[vmid[i]] = <<test, i, attempt>>

(***************************************************************************)
(* Every run of the harness ends: all spin loops are bounded and the       *)
(* setup retry happens once, so run_tests finishes or dies with an         *)
(* exception even when the kernel never creates a requested world.        *)
(***************************************************************************)
Terminates == <>(pc \in {"done", "fatal"})

(***************************************************************************)
(* While a test runs and its results are taken, the vcpus of every world   *)
(* of the test are in the scheduler dump, so VM.setSchedData finds each    *)
(* leader and its "assert self.leader is not None" cannot fail. This is    *)
(* what the min() of get_max_vmid is for: /proc/vmware/vm/<id> can appear  *)
(* before the world's vcpus do.                                            *)
(***************************************************************************)
LeadersInDump ==
  pc \in {"run", "results"} => \A i \in 1..NumVms : vmid[i] \in inSched

(***************************************************************************)
(* TestWorld.start gives up (raises) only when its last poll still saw no  *)
(* new world id -- the loop exists to "spin until the proc nodes for the   *)
(* new world show up".                                                     *)
(***************************************************************************)
GivesUpOnlyWithoutNewId ==
  [][pc = "poll" /\ pc' \in {"pause", "fatal"} => vmid'[vmIdx] = oldmax]_vars

(***************************************************************************)
(* Tests are isolated: when results() reads the dump, every world alive    *)
(* besides the console is one the current setup attempt of the current     *)
(* test created -- shutdown() and the setup retry have removed all others, *)
(* so no leftover world competes for the cpus the test measures.           *)
(***************************************************************************)
TestIsolation ==
  pc = "results" =>
    \A w \in alive : kindOf[w] = "console"
                     \/ \E i \in 1..NumVms : owner[w] = <<test, i, attempt>>

-----------------------------------------------------------------------------
(***************************************************************************)
(* Refinement. How far run_tests has got, in the terms of TestRunner: the *)
(* tests before `test` are finished; the world starts of setup() (both     *)
(* attempts) are the setup phase, and run, results and shutdown the        *)
(* measurement. After the last shutdown, the final pause is already done.  *)
(***************************************************************************)
RunnerFinished ==
  IF pc = "done" \/ (pc = "pause" /\ resume = "done") THEN Len(Tests)
                                                      ELSE test - 1

RunnerPhase ==
  CASE pc \in {"run", "results", "shutdown"}                -> "measure"
    [] pc = "fatal"                                         -> "fatal"
    [] pc = "done" \/ (pc = "pause" /\ resume = "done")     -> "done"
    [] OTHER                                                -> "setup"

Runner == INSTANCE TestRunner
            WITH NumTests <- Len(Tests), finished <- RunnerFinished,
                 phase <- RunnerPhase

(***************************************************************************)
(* The harness implements the test runner: whatever the kernel does        *)
(* (refusals, late worlds, retries), run_tests runs the tests one at a     *)
(* time in list order, never measures a test before all its worlds were    *)
(* started, never skips or repeats one, and ends after the last test or at *)
(* an uncaught exception.                                                  *)
(***************************************************************************)
RunnerSpec == Runner!Spec

=============================================================================
