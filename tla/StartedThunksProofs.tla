------------------------ MODULE StartedThunksProofs ------------------------
(***************************************************************************)
(* The safety invariants of StartedThunks hold for every finite set of     *)
(* runs and every set of readers.                                          *)
(***************************************************************************)
EXTENDS StartedThunks, FiniteSetTheorems, TLAPS

(* The inductive invariant: TypeOK and the parts below. *)
Running == {t \in Tasks : Live(t)}

(* The counter is the number of runs added and not done. *)
Counted == counter = Cardinality(Running)

(* Main leaves the script for good, and only main is ever inside Stop. *)
MainPhases ==
  /\ phase = "script" => pc[Main] \in {"code", "go", "join", "wait", "errs",
                                       "failed"}
  /\ phase = "ended" => pc[Main] = "stop"
  /\ phase = "shut" => pc[Main] \in {"drain", "wait", "errs", "done"}
  /\ stopper = IF pc[Main] = "stop" THEN {Main} ELSE {}
  /\ pc[Main] = "stop" => stops \subseteq stopped \cup calling

(* Whoever sleeps in wg.Wait, or has just been released from it, is there: *)
(* a run cannot be released, since its own entry keeps the counter up.     *)
Waiters ==
  /\ \A p \in asleep \cup released : pc[p] = "wait"
  /\ asleep \cap released = {}
  /\ released \cap Tasks = {}

(* A context reaches the goroutine it was made for. *)
Contexts == \A p \in Procs : pc[p] # "idle" => p \in ctx[p]

(* Every rooted run has, in its context, a run whose stop function Stop    *)
(* sees; main may be about to append it.                                   *)
StopsCover ==
  \A t \in Tasks : Live(t) /\ Rooted(t) =>
    \E a \in ctx[t] : a \in stops \/ (pc[Main] = "go" /\ arg[Main] = a)

(* Main is past the last moment at which rooted runs may be going. *)
PastRuns ==
  \/ Main \in released
  \/ phase = "shut" /\ pc[Main] \in {"errs", "done"}

Quiet == PastRuns => \A t \in Tasks : Rooted(t) => ~Live(t)

(* Only runs whose handler has ended are failed; their errors are recorded *)
(* before they leave, and reported once main has returned.                 *)
Failures ==
  /\ \A t \in failed : pc[t] \in {"record", "leave", "done"}
  /\ pc[Main] = "done" => \A t \in failed : Rooted(t) => t \in report

IInv ==
  /\ TypeOK
  /\ Counted
  /\ MainPhases
  /\ Waiters
  /\ Contexts
  /\ StopsCover
  /\ StopReachesRuns
  /\ Quiet
  /\ Failures
  /\ ErrorsKept
  /\ PanicNeedsReader

-----------------------------------------------------------------------------
USE DEF Procs

(* A run that is still going keeps the counter above zero. *)
LEMMA CounterFacts ==
  ASSUME TypeOK, Counted
  PROVE  /\ IsFiniteSet(Running)
         /\ counter = 0 <=> Running = {}
         /\ \A t \in Running : counter = 1 => Running = {t}
         /\ \A t \in Running : Cardinality(Running \ {t}) = counter - 1
<1>1. IsFiniteSet(Running)
  BY ProcsAssumption, FS_Subset DEF Running
<1>2. counter = 0 <=> Running = {}
  BY <1>1, FS_EmptySet DEF Counted
<1>3. \A t \in Running : Cardinality(Running \ {t}) = counter - 1
  BY <1>1, FS_RemoveElement DEF Counted
<1>4. ASSUME NEW t \in Running, counter = 1
      PROVE  Running = {t}
  <2>1. Cardinality(Running \ {t}) = 0 /\ IsFiniteSet(Running \ {t})
    BY <1>1, <1>3, <1>4, FS_RemoveElement
  <2>2. Running \ {t} = {}
    BY <2>1, FS_EmptySet
  <2> QED
    BY <2>2
<1> QED
  BY <1>1, <1>2, <1>3, <1>4

(* Every step keeps the variables in their types. *)
LEMMA TypeStep == TypeOK /\ Counted /\ [Next]_vars => TypeOK'
<1> SUFFICES ASSUME TypeOK, Counted, [Next]_vars
             PROVE  TypeOK'
  OBVIOUS
<1> USE ProcsAssumption DEF TypeOK, RunsTypeOK, PCs
<1>1. ASSUME NEW p \in Procs, NEW t \in Tasks, Start(p, t)
      PROVE  TypeOK'
  BY <1>1 DEF Start, GoSpawn, WgAdd, DerivedCtx, stopVars
<1>2. ASSUME NEW p \in Procs, NEW t \in Tasks, Join(p, t)
      PROVE  TypeOK'
  BY <1>2 DEF Join, runsVars, wgVars, stopVars
<1>3. ASSUME NEW p \in Procs, NEW r \in Readers, Open(p, r)
      PROVE  TypeOK'
  BY <1>3 DEF Open, DerivedCtx, runsVars, wgVars, stopVars
<1>4. ASSUME NEW p \in Procs, Started(p)
      PROVE  TypeOK'
  BY <1>4 DEF Started, GoAppend, wgVars
<1>5. ASSUME NEW p \in Procs, Joined(p)
      PROVE  TypeOK'
  BY <1>5 DEF Joined, Raised, GoesOn, runsVars, wgVars, stopVars
<1>6. ASSUME NEW p \in Procs, Wait(p)
      PROVE  TypeOK'
  BY <1>6 DEF Wait, WgWaitPasses, WgWaitBlocks, wgVars, stopVars
<1>7. ASSUME NEW p \in Procs, Resume(p)
      PROVE  TypeOK'
  BY <1>7 DEF Resume, WgResume, stopVars
<1>8. ASSUME NEW p \in Procs, WaitReturns(p)
      PROVE  TypeOK'
  BY <1>8 DEF WaitReturns, Raised, GoesOn, runsVars, wgVars, stopVars
<1>9. ASSUME NEW p \in Procs, Raises(p)
      PROVE  TypeOK'
  BY <1>9 DEF Raises, Raised, runsVars, wgVars, stopVars
<1>10. ASSUME NEW p \in Procs, Returns(p)
       PROVE  TypeOK'
  BY <1>10 DEF Returns, runsVars, wgVars, stopVars
<1>11. ASSUME NEW t \in Tasks, Handle(t)
       PROVE  TypeOK'
  BY <1>11 DEF Handle, runsVars, wgVars, stopVars
<1>12. ASSUME NEW t \in Tasks, RecordErr(t)
       PROVE  TypeOK'
  BY <1>12 DEF RecordErr, Record, wgVars, stopVars
<1>13. ASSUME NEW t \in Tasks, Leave(t)
       PROVE  TypeOK'
  <2>1. t \in Running
    BY <1>13 DEF Leave, Running, Live
  <2>2. counter - 1 \in Nat
    BY <2>1, CounterFacts
  <2> QED
    BY <1>13, <2>2 DEF Leave, RunDone, WgDone, stopVars
<1>14. CASE EndScript
  BY <1>14 DEF EndScript, StopLock, wgVars
<1>15. CASE Stop
  BY <1>15 DEF Stop, StopCall, StopUnlock, wgVars
<1>16. CASE Interrupt
  BY <1>16 DEF Interrupt, wgVars, procVars
<1>17. CASE UNCHANGED vars
  BY <1>17 DEF vars, runsVars, wgVars, stopVars, procVars
<1> QED
  BY <1>1, <1>2, <1>3, <1>4, <1>5, <1>6, <1>7, <1>8, <1>9, <1>10, <1>11,
     <1>12, <1>13, <1>14, <1>15, <1>16, <1>17 DEF Next

-----------------------------------------------------------------------------
USE DEF Live, Rooted, Cancelled

(* Thunk.Start preserves the inductive invariant. *)
LEMMA StartStep ==
  ASSUME IInv, TypeOK', ~panicked,
         NEW p \in Procs, NEW t \in Tasks, Start(p, t)
  PROVE  IInv'
<1> USE ProcsAssumption
<1> USE DEF IInv, TypeOK, RunsTypeOK, Start, GoSpawn, WgAdd, DerivedCtx,
            stopVars
<1>0. /\ t # p /\ t # Main /\ t \notin Readers
      /\ pc' = [pc EXCEPT ![p] = "go", ![t] = "code"]
      /\ pc'[p] = "go" /\ pc'[t] = "code" /\ pc[p] = "code" /\ pc[t] = "idle"
      /\ \A q \in Procs \ {p, t} : pc'[q] = pc[q]
      /\ ctx'[t] = ctx[p] \cup {t}
      /\ \A q \in Procs \ {t} : ctx'[q] = ctx[q]
      /\ arg'[p] = t /\ \A q \in Procs \ {p} : arg'[q] = arg[q]
  OBVIOUS
<1> HIDE DEF Start
<1>1. Counted'
  <2>1. Running' = Running \cup {t} /\ t \notin Running
    BY <1>0 DEF Running
  <2> QED
    BY <2>1, CounterFacts, FS_AddElement DEF Counted, Start
<1>2. MainPhases'
  BY <1>0 DEF MainPhases, Start
<1>3. Waiters'
  BY <1>0 DEF Waiters, Start
<1>4. Contexts'
  BY <1>0 DEF Contexts
<1>5. StopsCover'
  BY <1>0 DEF StopsCover, Start, Contexts
<1>6. StopReachesRuns'
  BY <1>0 DEF StopReachesRuns, Start, Contexts, MainPhases
<1>7. Quiet'
  BY <1>0 DEF Quiet, PastRuns, Start, Contexts, MainPhases, Waiters
<1>8. Failures' /\ ErrorsKept'
  BY <1>0 DEF Failures, ErrorsKept, Start, Contexts, MainPhases
<1>9. PanicNeedsReader'
  BY <1>0 DEF PanicNeedsReader, Start
<1> QED
  BY <1>1, <1>2, <1>3, <1>4, <1>5, <1>6, <1>7, <1>8, <1>9

(* Calling the combiner preserves the inductive invariant. *)
LEMMA JoinStep ==
  ASSUME IInv, TypeOK', ~panicked, NEW p \in Procs, NEW t \in Tasks, Join(p, t)
  PROVE  IInv'
<1> USE ProcsAssumption
<1> USE DEF IInv, TypeOK, RunsTypeOK, Join, runsVars, wgVars, stopVars
<1>1. Counted'
  <2>1. Running' = Running
    BY DEF Running
  <2> QED
    BY <2>1 DEF Counted
<1>2. MainPhases'
  BY DEF MainPhases
<1>3. Waiters'
  BY CounterFacts DEF Waiters, Running
<1>4. Contexts'
  BY DEF Contexts
<1>5. StopsCover'
  BY DEF StopsCover
<1>6. StopReachesRuns'
  BY DEF StopReachesRuns, StopsCover, MainPhases
<1>7. Quiet'
  BY CounterFacts DEF Quiet, PastRuns, MainPhases, Waiters, Running
<1>8. Failures' /\ ErrorsKept'
  BY DEF Failures, ErrorsKept, MainPhases, Quiet, PastRuns
<1>9. PanicNeedsReader'
  BY CounterFacts DEF PanicNeedsReader, Quiet, PastRuns, Waiters, Running
<1> QED
  BY <1>1, <1>2, <1>3, <1>4, <1>5, <1>6, <1>7, <1>8, <1>9

(* Thunk.Open preserves the inductive invariant. *)
LEMMA OpenStep ==
  ASSUME IInv, TypeOK', ~panicked, NEW p \in Procs, NEW r \in Readers, Open(p, r)
  PROVE  IInv'
<1> USE ProcsAssumption
<1> USE DEF IInv, TypeOK, RunsTypeOK, Open, DerivedCtx, runsVars, wgVars, stopVars
<1>1. Counted'
  <2>1. Running' = Running
    BY DEF Running
  <2> QED
    BY <2>1 DEF Counted
<1>2. MainPhases'
  BY DEF MainPhases
<1>3. Waiters'
  BY CounterFacts DEF Waiters, Running
<1>4. Contexts'
  BY DEF Contexts
<1>5. StopsCover'
  BY DEF StopsCover
<1>6. StopReachesRuns'
  BY DEF StopReachesRuns, StopsCover, MainPhases
<1>7. Quiet'
  BY CounterFacts DEF Quiet, PastRuns, MainPhases, Waiters, Running
<1>8. Failures' /\ ErrorsKept'
  BY DEF Failures, ErrorsKept, MainPhases, Quiet, PastRuns
<1>9. PanicNeedsReader'
  BY CounterFacts DEF PanicNeedsReader, Quiet, PastRuns, Waiters, Running
<1> QED
  BY <1>1, <1>2, <1>3, <1>4, <1>5, <1>6, <1>7, <1>8, <1>9

(* The end of Runs.Go preserves the inductive invariant. *)
LEMMA StartedStep ==
  ASSUME IInv, TypeOK', ~panicked, NEW p \in Procs, Started(p)
  PROVE  IInv'
<1> USE ProcsAssumption
<1> USE DEF IInv, TypeOK, RunsTypeOK, Started, GoAppend, wgVars
<1>1. Counted'
  <2>1. Running' = Running
    BY DEF Running
  <2> QED
    BY <2>1 DEF Counted
<1>2. MainPhases'
  BY DEF MainPhases
<1>3. Waiters'
  BY CounterFacts DEF Waiters, Running
<1>4. Contexts'
  BY DEF Contexts
<1>5. StopsCover'
  BY DEF StopsCover
<1>6. StopReachesRuns'
  BY DEF StopReachesRuns, StopsCover, MainPhases
<1>7. Quiet'
  BY CounterFacts DEF Quiet, PastRuns, MainPhases, Waiters, Running
<1>8. Failures' /\ ErrorsKept'
  BY DEF Failures, ErrorsKept, MainPhases, Quiet, PastRuns
<1>9. PanicNeedsReader'
  BY CounterFacts DEF PanicNeedsReader, Quiet, PastRuns, Waiters, Running
<1> QED
  BY <1>1, <1>2, <1>3, <1>4, <1>5, <1>6, <1>7, <1>8, <1>9

(* The return of the combiner preserves the inductive invariant. *)
LEMMA JoinedStep ==
  ASSUME IInv, TypeOK', ~panicked, NEW p \in Procs, Joined(p)
  PROVE  IInv'
<1> USE ProcsAssumption
<1> USE DEF IInv, TypeOK, RunsTypeOK, Joined, Raised, GoesOn, runsVars, wgVars, stopVars
<1>1. Counted'
  <2>1. Running' = Running
    BY DEF Running
  <2> QED
    BY <2>1 DEF Counted
<1>2. MainPhases'
  BY DEF MainPhases
<1>3. Waiters'
  BY CounterFacts DEF Waiters, Running
<1>4. Contexts'
  BY DEF Contexts
<1>5. StopsCover'
  BY DEF StopsCover
<1>6. StopReachesRuns'
  BY DEF StopReachesRuns, StopsCover, MainPhases
<1>7. Quiet'
  BY CounterFacts DEF Quiet, PastRuns, MainPhases, Waiters, Running
<1>8. Failures' /\ ErrorsKept'
  BY DEF Failures, ErrorsKept, MainPhases, Quiet, PastRuns
<1>9. PanicNeedsReader'
  BY CounterFacts DEF PanicNeedsReader, Quiet, PastRuns, Waiters, Running
<1> QED
  BY <1>1, <1>2, <1>3, <1>4, <1>5, <1>6, <1>7, <1>8, <1>9

(* Runs.Wait preserves the inductive invariant. *)
LEMMA WaitStep ==
  ASSUME IInv, TypeOK', ~panicked, NEW p \in Procs, Wait(p)
  PROVE  IInv'
<1> USE ProcsAssumption
<1> USE DEF IInv, TypeOK, RunsTypeOK, Wait, WgWaitPasses, WgWaitBlocks, wgVars, stopVars
<1>1. Counted'
  <2>1. Running' = Running
    BY DEF Running
  <2> QED
    BY <2>1 DEF Counted
<1>2. MainPhases'
  BY DEF MainPhases
<1>3. Waiters'
  BY CounterFacts DEF Waiters, Running
<1>4. Contexts'
  BY DEF Contexts
<1>5. StopsCover'
  BY DEF StopsCover
<1>6. StopReachesRuns'
  BY DEF StopReachesRuns, StopsCover, MainPhases
<1>7. Quiet'
  BY CounterFacts DEF Quiet, PastRuns, MainPhases, Waiters, Running
<1>8. Failures' /\ ErrorsKept'
  BY DEF Failures, ErrorsKept, MainPhases, Quiet, PastRuns
<1>9. PanicNeedsReader'
  BY CounterFacts DEF PanicNeedsReader, Quiet, PastRuns, Waiters, Running
<1> QED
  BY <1>1, <1>2, <1>3, <1>4, <1>5, <1>6, <1>7, <1>8, <1>9

(* The end of wg.Wait preserves the inductive invariant. *)
LEMMA ResumeStep ==
  ASSUME IInv, TypeOK', ~panicked, NEW p \in Procs, Resume(p)
  PROVE  IInv'
<1> USE ProcsAssumption
<1> USE DEF IInv, TypeOK, RunsTypeOK, Resume, WgResume, stopVars
<1>1. Counted'
  <2>1. Running' = Running
    BY DEF Running
  <2> QED
    BY <2>1 DEF Counted
<1>2. MainPhases'
  BY DEF MainPhases
<1>3. Waiters'
  BY CounterFacts DEF Waiters, Running
<1>4. Contexts'
  BY DEF Contexts
<1>5. StopsCover'
  BY DEF StopsCover
<1>6. StopReachesRuns'
  BY DEF StopReachesRuns, StopsCover, MainPhases
<1>7. Quiet'
  BY CounterFacts DEF Quiet, PastRuns, MainPhases, Waiters, Running
<1>8. Failures' /\ ErrorsKept'
  BY DEF Failures, ErrorsKept, MainPhases, Quiet, PastRuns
<1>9. PanicNeedsReader'
  BY CounterFacts DEF PanicNeedsReader, Quiet, PastRuns, Waiters, Running
<1> QED
  BY <1>1, <1>2, <1>3, <1>4, <1>5, <1>6, <1>7, <1>8, <1>9

(* The return of Runs.Wait preserves the inductive invariant. *)
LEMMA WaitReturnsStep ==
  ASSUME IInv, TypeOK', ~panicked, NEW p \in Procs, WaitReturns(p)
  PROVE  IInv'
<1> USE ProcsAssumption
<1> USE DEF IInv, TypeOK, RunsTypeOK, WaitReturns, Raised, GoesOn, runsVars, wgVars, stopVars
<1>1. Counted'
  <2>1. Running' = Running
    BY DEF Running
  <2> QED
    BY <2>1 DEF Counted
<1>2. MainPhases'
  BY DEF MainPhases
<1>3. Waiters'
  BY CounterFacts DEF Waiters, Running
<1>4. Contexts'
  BY DEF Contexts
<1>5. StopsCover'
  BY DEF StopsCover
<1>6. StopReachesRuns'
  BY DEF StopReachesRuns, StopsCover, MainPhases
<1>7. Quiet'
  BY CounterFacts DEF Quiet, PastRuns, MainPhases, Waiters, Running
<1>8. Failures' /\ ErrorsKept'
  BY DEF Failures, ErrorsKept, MainPhases, Quiet, PastRuns
<1>9. PanicNeedsReader'
  BY CounterFacts DEF PanicNeedsReader, Quiet, PastRuns, Waiters, Running
<1> QED
  BY <1>1, <1>2, <1>3, <1>4, <1>5, <1>6, <1>7, <1>8, <1>9

(* An error of the code preserves the inductive invariant. *)
LEMMA RaisesStep ==
  ASSUME IInv, TypeOK', ~panicked, NEW p \in Procs, Raises(p)
  PROVE  IInv'
<1> USE ProcsAssumption
<1> USE DEF IInv, TypeOK, RunsTypeOK, Raises, Raised, runsVars, wgVars, stopVars
<1>1. Counted'
  <2>1. Running' = Running
    BY DEF Running
  <2> QED
    BY <2>1 DEF Counted
<1>2. MainPhases'
  BY DEF MainPhases
<1>3. Waiters'
  BY CounterFacts DEF Waiters, Running
<1>4. Contexts'
  BY DEF Contexts
<1>5. StopsCover'
  BY DEF StopsCover
<1>6. StopReachesRuns'
  BY DEF StopReachesRuns, StopsCover, MainPhases
<1>7. Quiet'
  BY CounterFacts DEF Quiet, PastRuns, MainPhases, Waiters, Running
<1>8. Failures' /\ ErrorsKept'
  BY DEF Failures, ErrorsKept, MainPhases, Quiet, PastRuns
<1>9. PanicNeedsReader'
  BY CounterFacts DEF PanicNeedsReader, Quiet, PastRuns, Waiters, Running
<1> QED
  BY <1>1, <1>2, <1>3, <1>4, <1>5, <1>6, <1>7, <1>8, <1>9

(* The return of the code preserves the inductive invariant. *)
LEMMA ReturnsStep ==
  ASSUME IInv, TypeOK', ~panicked, NEW p \in Procs, Returns(p)
  PROVE  IInv'
<1> USE ProcsAssumption
<1> USE DEF IInv, TypeOK, RunsTypeOK, Returns, runsVars, wgVars, stopVars
<1>1. Counted'
  <2>1. Running' = Running
    BY DEF Running
  <2> QED
    BY <2>1 DEF Counted
<1>2. MainPhases'
  BY DEF MainPhases
<1>3. Waiters'
  BY CounterFacts DEF Waiters, Running
<1>4. Contexts'
  BY DEF Contexts
<1>5. StopsCover'
  BY DEF StopsCover
<1>6. StopReachesRuns'
  BY DEF StopReachesRuns, StopsCover, MainPhases
<1>7. Quiet'
  BY CounterFacts DEF Quiet, PastRuns, MainPhases, Waiters, Running
<1>8. Failures' /\ ErrorsKept'
  BY DEF Failures, ErrorsKept, MainPhases, Quiet, PastRuns
<1>9. PanicNeedsReader'
  BY CounterFacts DEF PanicNeedsReader, Quiet, PastRuns, Waiters, Running
<1> QED
  BY <1>1, <1>2, <1>3, <1>4, <1>5, <1>6, <1>7, <1>8, <1>9

(* The call of a handler preserves the inductive invariant. *)
LEMMA HandleStep ==
  ASSUME IInv, TypeOK', ~panicked, NEW t \in Tasks, Handle(t)
  PROVE  IInv'
<1> USE ProcsAssumption
<1> USE DEF IInv, TypeOK, RunsTypeOK, Handle, runsVars, wgVars, stopVars
<1>1. Counted'
  <2>1. Running' = Running
    BY DEF Running
  <2> QED
    BY <2>1 DEF Counted
<1>2. MainPhases'
  BY DEF MainPhases
<1>3. Waiters'
  BY CounterFacts DEF Waiters, Running
<1>4. Contexts'
  BY DEF Contexts
<1>5. StopsCover'
  BY DEF StopsCover
<1>6. StopReachesRuns'
  BY DEF StopReachesRuns, StopsCover, MainPhases
<1>7. Quiet'
  BY CounterFacts DEF Quiet, PastRuns, MainPhases, Waiters, Running
<1>8. Failures' /\ ErrorsKept'
  BY DEF Failures, ErrorsKept, MainPhases, Quiet, PastRuns
<1>9. PanicNeedsReader'
  BY CounterFacts DEF PanicNeedsReader, Quiet, PastRuns, Waiters, Running
<1> QED
  BY <1>1, <1>2, <1>3, <1>4, <1>5, <1>6, <1>7, <1>8, <1>9

(* Runs.record preserves the inductive invariant. *)
LEMMA RecordStep ==
  ASSUME IInv, TypeOK', ~panicked, NEW t \in Tasks, RecordErr(t)
  PROVE  IInv'
<1> USE ProcsAssumption
<1> USE DEF IInv, TypeOK, RunsTypeOK, RecordErr, Record, wgVars, stopVars
<1>1. Counted'
  <2>1. Running' = Running
    BY DEF Running
  <2> QED
    BY <2>1 DEF Counted
<1>2. MainPhases'
  BY DEF MainPhases
<1>3. Waiters'
  BY CounterFacts DEF Waiters, Running
<1>4. Contexts'
  BY DEF Contexts
<1>5. StopsCover'
  BY DEF StopsCover
<1>6. StopReachesRuns'
  BY DEF StopReachesRuns, StopsCover, MainPhases
<1>7. Quiet'
  BY CounterFacts DEF Quiet, PastRuns, MainPhases, Waiters, Running
<1>8. Failures' /\ ErrorsKept'
  BY DEF Failures, ErrorsKept, MainPhases, Quiet, PastRuns
<1>9. PanicNeedsReader'
  BY CounterFacts DEF PanicNeedsReader, Quiet, PastRuns, Waiters, Running
<1> QED
  BY <1>1, <1>2, <1>3, <1>4, <1>5, <1>6, <1>7, <1>8, <1>9

(* The deferred wg.Done preserves the inductive invariant. *)
LEMMA LeaveStep ==
  ASSUME IInv, TypeOK', ~panicked, NEW t \in Tasks, Leave(t)
  PROVE  IInv'
<1> USE ProcsAssumption
<1> USE DEF IInv, TypeOK, RunsTypeOK, Leave, RunDone, WgDone, stopVars
<1>1. Counted'
  <2>1. t \in Running /\ Running' = Running \ {t}
    BY DEF Running
  <2> QED
    BY <2>1, CounterFacts DEF Counted
<1>2. MainPhases'
  BY DEF MainPhases
<1>3. Waiters'
  BY CounterFacts DEF Waiters, Running
<1>4. Contexts'
  BY DEF Contexts
<1>5. StopsCover'
  BY DEF StopsCover
<1>6. StopReachesRuns'
  BY DEF StopReachesRuns, StopsCover, MainPhases
<1>7. Quiet'
  BY CounterFacts DEF Quiet, PastRuns, MainPhases, Waiters, Running
<1>8. Failures' /\ ErrorsKept'
  BY DEF Failures, ErrorsKept, MainPhases, Quiet, PastRuns
<1>9. PanicNeedsReader'
  BY CounterFacts DEF PanicNeedsReader, Quiet, PastRuns, Waiters, Running
<1> QED
  BY <1>1, <1>2, <1>3, <1>4, <1>5, <1>6, <1>7, <1>8, <1>9

(* The end of the script preserves the inductive invariant. *)
LEMMA EndScriptStep ==
  ASSUME IInv, TypeOK', ~panicked, EndScript
  PROVE  IInv'
<1> USE ProcsAssumption
<1> USE DEF IInv, TypeOK, RunsTypeOK, EndScript, StopLock, wgVars
<1>1. Counted'
  <2>1. Running' = Running
    BY DEF Running
  <2> QED
    BY <2>1 DEF Counted
<1>2. MainPhases'
  BY DEF MainPhases
<1>3. Waiters'
  BY CounterFacts DEF Waiters, Running
<1>4. Contexts'
  BY DEF Contexts
<1>5. StopsCover'
  BY DEF StopsCover
<1>6. StopReachesRuns'
  BY DEF StopReachesRuns, StopsCover, MainPhases
<1>7. Quiet'
  BY CounterFacts DEF Quiet, PastRuns, MainPhases, Waiters, Running
<1>8. Failures' /\ ErrorsKept'
  BY DEF Failures, ErrorsKept, MainPhases, Quiet, PastRuns
<1>9. PanicNeedsReader'
  BY CounterFacts DEF PanicNeedsReader, Quiet, PastRuns, Waiters, Running
<1> QED
  BY <1>1, <1>2, <1>3, <1>4, <1>5, <1>6, <1>7, <1>8, <1>9

(* Runs.Stop preserves the inductive invariant. *)
LEMMA StopStep ==
  ASSUME IInv, TypeOK', ~panicked, Stop
  PROVE  IInv'
<1> USE ProcsAssumption
<1> USE DEF IInv, TypeOK, RunsTypeOK, Stop, StopCall, StopUnlock, wgVars
<1>1. Counted'
  <2>1. Running' = Running
    BY DEF Running
  <2> QED
    BY <2>1 DEF Counted
<1>2. MainPhases'
  BY DEF MainPhases
<1>3. Waiters'
  BY CounterFacts DEF Waiters, Running
<1>4. Contexts'
  BY DEF Contexts
<1>5. StopsCover'
  BY DEF StopsCover
<1>6. StopReachesRuns'
  BY DEF StopReachesRuns, StopsCover, MainPhases
<1>7. Quiet'
  BY CounterFacts DEF Quiet, PastRuns, MainPhases, Waiters, Running
<1>8. Failures' /\ ErrorsKept'
  BY DEF Failures, ErrorsKept, MainPhases, Quiet, PastRuns
<1>9. PanicNeedsReader'
  BY CounterFacts DEF PanicNeedsReader, Quiet, PastRuns, Waiters, Running
<1> QED
  BY <1>1, <1>2, <1>3, <1>4, <1>5, <1>6, <1>7, <1>8, <1>9

(* A signal preserves the inductive invariant. *)
LEMMA InterruptStep ==
  ASSUME IInv, TypeOK', ~panicked, Interrupt
  PROVE  IInv'
<1> USE ProcsAssumption
<1> USE DEF IInv, TypeOK, RunsTypeOK, Interrupt, wgVars, procVars
<1>1. Counted'
  <2>1. Running' = Running
    BY DEF Running
  <2> QED
    BY <2>1 DEF Counted
<1>2. MainPhases'
  BY DEF MainPhases
<1>3. Waiters'
  BY CounterFacts DEF Waiters, Running
<1>4. Contexts'
  BY DEF Contexts
<1>5. StopsCover'
  BY DEF StopsCover
<1>6. StopReachesRuns'
  BY DEF StopReachesRuns, StopsCover, MainPhases
<1>7. Quiet'
  BY CounterFacts DEF Quiet, PastRuns, MainPhases, Waiters, Running
<1>8. Failures' /\ ErrorsKept'
  BY DEF Failures, ErrorsKept, MainPhases, Quiet, PastRuns
<1>9. PanicNeedsReader'
  BY CounterFacts DEF PanicNeedsReader, Quiet, PastRuns, Waiters, Running
<1> QED
  BY <1>1, <1>2, <1>3, <1>4, <1>5, <1>6, <1>7, <1>8, <1>9

-----------------------------------------------------------------------------
(* Before the script starts nothing is running. *)
LEMMA InitIInv == Init => IInv
<1> SUFFICES ASSUME Init PROVE IInv
  OBVIOUS
<1> USE ProcsAssumption DEF Init, RunsInit
<1>1. TypeOK
  BY DEF TypeOK, RunsTypeOK, PCs
<1>2. Counted
  <2>1. Running = {}
    BY DEF Running
  <2> QED
    BY <2>1, FS_EmptySet DEF Counted
<1>3. MainPhases /\ Waiters /\ Contexts /\ StopsCover
  BY DEF MainPhases, Waiters, Contexts, StopsCover
<1>4. Quiet /\ Failures
  BY DEF Quiet, PastRuns, Failures
<1>5. StopReachesRuns /\ ErrorsKept /\ PanicNeedsReader
  BY DEF StopReachesRuns, ErrorsKept, PanicNeedsReader
<1> QED
  BY <1>1, <1>2, <1>3, <1>4, <1>5 DEF IInv

(* Every step preserves the inductive invariant. *)
LEMMA NextIInv == IInv /\ [Next]_vars => IInv'
<1> SUFFICES ASSUME IInv, [Next]_vars
             PROVE  IInv'
  OBVIOUS
<1>1. TypeOK'
  BY TypeStep DEF IInv
<1>2. CASE UNCHANGED vars
  <2>1. Running' = Running
    BY <1>2 DEF Running, vars, procVars
  <2> QED
    BY <1>1, <1>2, <2>1
    DEF IInv, vars, procVars, runsVars, wgVars, stopVars, Counted, MainPhases,
        Waiters, Contexts, StopsCover, StopReachesRuns, Quiet, PastRuns,
        Failures, ErrorsKept, PanicNeedsReader
<1>3. CASE Next
  BY <1>1, <1>3, StartStep, JoinStep, OpenStep, StartedStep, JoinedStep,
     WaitStep, ResumeStep, WaitReturnsStep, RaisesStep, ReturnsStep,
     HandleStep, RecordStep, LeaveStep, EndScriptStep, StopStep, InterruptStep
  DEF Next
<1> QED
  BY <1>2, <1>3

(* A combiner returns once the handler has ended, with its outcome, which  *)
(* no step changes after that.                                             *)
LEMMA JoinsSee == IInv /\ [Next]_vars => [JoinsSeeTheEnd]_vars
<1> SUFFICES ASSUME IInv, Next
             PROVE  JoinsSeeTheEnd
  OBVIOUS
<1> USE ProcsAssumption DEF IInv, TypeOK, Ended, GoesOn, Raised
<1>1. ASSUME NEW p \in Procs, pc[p] = "join", pc'[p] # "join"
      PROVE  Ended(arg[p]) /\ (pc'[p] # "code" => arg[p] \in failed)
  <2>1. Joined(p)
    BY <1>1 DEF Next, Start, Join, Open, Started, Joined, Wait, Resume,
       WaitReturns, Raises, Returns, Handle, RecordErr, Leave, EndScript,
       Stop, Interrupt, procVars, MainPhases
  <2> QED
    BY <1>1, <2>1 DEF Joined
<1>2. ASSUME NEW t \in Tasks, Ended(t)
      PROVE  t \in failed' <=> t \in failed
  BY <1>2 DEF Next, Start, Join, Open, Started, Joined, Wait, Resume,
     WaitReturns, Raises, Returns, Handle, RecordErr, Leave, EndScript,
     Stop, Interrupt, procVars
<1> QED
  BY <1>1, <1>2 DEF JoinsSeeTheEnd

(* How the WaitGroup, the stop functions and the contexts of runs.go agree *)
(* with the goroutines that are going, at every step of a program.         *)
THEOREM InductiveInvariant == Spec => []IInv
<1> QED
  BY InitIInv, NextIInv, PTL DEF Spec

(* The variables of the program and of the tracker keep their types; the   *)
(* WaitGroup counter never goes below zero.                                *)
THEOREM TypeCorrect == Spec => []TypeOK
<1>1. IInv => TypeOK
  BY DEF IInv
<1> QED
  BY <1>1, InductiveInvariant, PTL

(* Stop reaches every run that main started, directly or through other     *)
(* runs, in whatever order runs are started and stop functions appended.   *)
THEOREM StopReachesEveryRun == Spec => []StopReachesRuns
<1>1. IInv => StopReachesRuns
  BY DEF IInv
<1> QED
  BY <1>1, InductiveInvariant, PTL

(* After the last Wait no such run is going and every error is reported.   *)
THEOREM WaitCompletes == Spec => []WaitIsComplete
<1>1. IInv => WaitIsComplete
  BY ProcsAssumption
  DEF IInv, TypeOK, MainPhases, Quiet, PastRuns, Failures, WaitIsComplete
<1> QED
  BY <1>1, InductiveInvariant, PTL

(* No error of a handler is lost on its way to Wait, and a combiner that   *)
(* returns has seen the outcome that Wait reports.                         *)
THEOREM ErrorsAreAccounted == Spec => ErrorsAccounted
<1>1. IInv => ErrorsKept
  BY DEF IInv
<1>2. IInv /\ [Next]_vars => [JoinsSeeTheEnd]_vars
  BY JoinsSee
<1> QED
  BY <1>1, <1>2, InductiveInvariant, PTL DEF Spec, ErrorsAccounted

(* The WaitGroup is never reused too early without an untracked goroutine. *)
THEOREM PanicOnlyWithReader == Spec => []PanicNeedsReader
<1>1. IInv => PanicNeedsReader
  BY DEF IInv
<1> QED
  BY <1>1, InductiveInvariant, PTL
=============================================================================
