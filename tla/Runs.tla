-------------------------------- MODULE Runs --------------------------------
(***************************************************************************)
(* pkg/bass/runs.go: the tracker that collects the stop functions and the  *)
(* errors of goroutines and waits for them.  Its users compose it with     *)
(* their own program counters: StartedThunks (the (start) builtin under    *)
(* cli.Run) and, for one buildkit operation, the services it depends on.   *)
(*                                                                         *)
(* A run is named by the goroutine that Go spawns for it.  The embedded    *)
(* sync.WaitGroup is external code: a counter, the goroutines asleep in    *)
(* Wait and those it has released but that have not resumed yet.           *)
(***************************************************************************)
EXTENDS Naturals, FiniteSets

VARIABLES
  counter,   \* wg: the number of runs added and not done
  asleep,    \* wg: the goroutines blocked in wg.Wait
  released,  \* wg: the goroutines released by the last Done, not resumed yet
  panicked,  \* wg: a reuse of the WaitGroup brought the process down
  stops,     \* the runs whose stop function is in runs.stops
  calling,   \* the stop functions the loop of Stop has yet to call
  stopper,   \* the goroutines inside Stop: they hold stopsL
  stopped,   \* the runs whose stop function has been called
  errs       \* the runs whose error has been recorded

wgVars   == <<counter, asleep, released, panicked>>
stopVars == <<stops, calling, stopper, stopped>>
runsVars == <<wgVars, stopVars, errs>>

RunsInit ==
  /\ counter = 0 /\ asleep = {} /\ released = {} /\ panicked = FALSE
  /\ stops = {} /\ calling = {} /\ stopper = {} /\ stopped = {}
  /\ errs = {}

RunsTypeOK(runs, procs) ==
  /\ counter \in Nat
  /\ asleep \in SUBSET procs
  /\ released \in SUBSET procs
  /\ panicked \in BOOLEAN
  /\ stops \in SUBSET runs
  /\ calling \in SUBSET runs
  /\ stopper \in SUBSET procs
  /\ stopped \in SUBSET procs
  /\ errs \in SUBSET runs

-----------------------------------------------------------------------------
(* sync.WaitGroup *)

WgAdd ==
  /\ counter' = counter + 1
  /\ UNCHANGED <<asleep, released, panicked>>

(* The Done that reaches zero releases every sleeper at once. *)
WgDone ==
  /\ counter' = counter - 1
  /\ IF counter = 1
     THEN released' = released \cup asleep /\ asleep' = {}
     ELSE UNCHANGED <<asleep, released>>
  /\ UNCHANGED panicked

(* Wait returns at once on a zero counter, and blocks otherwise. *)
WgWaitPasses == counter = 0 /\ UNCHANGED wgVars

WgWaitBlocks(p) ==
  /\ counter # 0
  /\ asleep' = asleep \cup {p}
  /\ UNCHANGED <<counter, released, panicked>>

(* A released goroutine that finds the counter raised again panics:       *)
(* "WaitGroup is reused before previous Wait has returned".               *)
WgResume(p) ==
  /\ p \in released
  /\ released' = released \ {p}
  /\ panicked' = (counter # 0)
  /\ UNCHANGED <<counter, asleep>>

-----------------------------------------------------------------------------
(* Runs.Go in two steps: the run is added and its goroutine spawned, and   *)
(* only then is its stop function appended, under stopsL.                  *)

(* Mutant: the run is not added to the WaitGroup. *)
SpawnUncounted == UNCHANGED runsVars

GoSpawn == WgAdd /\ UNCHANGED <<stopVars, errs>>

(* Mutant: the stop function is dropped. *)
AppendNothing(run) == stopper = {} /\ UNCHANGED runsVars

GoAppend(run) ==
  /\ stopper = {}
  /\ stops' = stops \cup {run}
  /\ UNCHANGED <<wgVars, calling, stopper, stopped, errs>>

(* Mutant: nobody waits for the run. *)
GoUncounted(run) ==
  /\ stops' = stops \cup {run}
  /\ UNCHANGED <<wgVars, calling, stopper, stopped, errs>>

(* Mutant: the stop function is dropped. *)
GoUnstopped(run) == WgAdd /\ UNCHANGED <<stopVars, errs>>

(* Both halves at once, for a caller whose Runs nobody else stops.         *)
Go(run) ==
  /\ WgAdd
  /\ stops' = stops \cup {run}
  /\ UNCHANGED <<calling, stopper, stopped, errs>>

(* Runs.Stop: under stopsL, call every stop function appended so far. *)
StopLock(p) ==
  /\ stopper = {}
  /\ stopper' = {p}
  /\ calling' = stops
  /\ UNCHANGED <<wgVars, stops, stopped, errs>>

StopCall(p, run) ==
  /\ p \in stopper
  /\ run \in calling
  /\ calling' = calling \ {run}
  /\ stopped' = stopped \cup {run}
  /\ UNCHANGED <<wgVars, stops, stopper, errs>>

StopUnlock(p) ==
  /\ p \in stopper
  /\ calling = {}
  /\ stopper' = {}
  /\ UNCHANGED <<wgVars, stops, calling, stopped, errs>>

(* Mutant: the first error is overwritten by a later one. *)
RecordLast(run, failed) ==
  /\ errs' = IF failed THEN {run} ELSE errs
  /\ UNCHANGED <<wgVars, stopVars>>

(* Runs.record: a nil error adds nothing. *)
Record(run, failed) ==
  /\ errs' = IF failed THEN errs \cup {run} ELSE errs
  /\ UNCHANGED <<wgVars, stopVars>>

(* The deferred wg.Done of the goroutine that Go spawned. *)
RunDone == WgDone /\ UNCHANGED <<stopVars, errs>>

=============================================================================
