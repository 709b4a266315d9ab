-------------------------- MODULE ForeignLifecycle --------------------------
(***************************************************************************)
(* WorldLifecycle with one more environment actor: another process that    *)
(* starts a world of its own (a VM, not a testworld) at any moment. The    *)
(* harness does not guard against it; "stop" does not touch that world.   *)
(***************************************************************************)
EXTENDS WorldLifecycle

\* another process starts one world; it takes the next id like any other
ForeignCreate ==
  /\ \A w \in DOMAIN kindOf : kindOf[w] # "other"
  /\ nextId <= MaxId
  /\ alive' = alive \cup {nextId}
  /\ kindOf' = kindOf @@ (nextId :> "other")
  /\ owner' = owner @@ (nextId :> PreExisting)
  /\ nextId' = nextId + 1
  /\ UNCHANGED <<inProc, inSched, dying, pending, harnessVars>>

NextForeign == Next \/ ForeignCreate

SpecForeign == Init /\ [][NextForeign]_vars /\ Fairness

=============================================================================
