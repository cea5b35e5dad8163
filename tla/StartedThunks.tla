--------------------------- MODULE StartedThunks ---------------------------
(***************************************************************************)
(* A bass program under cli.Run: the main goroutine evaluates a script,    *)
(* thunks are started asynchronously with (start) and tracked by one Runs, *)
(* bass thunks that were started start others in turn, (read) and (export) *)
(* spawn goroutines that nobody tracks, and the end of the script stops    *)
(* and awaits every run.                                                   *)
(*                                                                         *)
(* A context is the set of goroutines whose cancellation reaches it:       *)
(* cancelling a run's context cancels every context derived from it.       *)
(***************************************************************************)
EXTENDS Runs

CONSTANTS
  Tasks,    \* goroutines of Thunk.Start: each starts at most once
  Readers,  \* goroutines of Thunk.Open and of (export): not tracked
  Main,     \* the goroutine of cli.Run; also names the root context
  NoTask    \* no task

Procs == Tasks \cup Readers \cup {Main}

ASSUME ProcsAssumption ==
  /\ IsFiniteSet(Tasks)
  /\ Main \notin Tasks \cup Readers
  /\ Tasks \cap Readers = {}
  /\ NoTask \notin Tasks

VARIABLES
  pc,        \* what each goroutine is doing
  arg,       \* the task a goroutine is starting or joining
  ctx,       \* the goroutines whose cancellation reaches this one
  handling,  \* the tasks that are inside their handler
  failed,    \* the tasks whose handler ended with an error (waitErr)
  report,    \* the errors that cli.Run returned from Wait
  phase      \* "script", then "ended" without error, then "shut": Stop returned

procVars == <<pc, arg, ctx, handling, failed, report, phase>>
vars     == <<runsVars, procVars>>

(* "idle": not spawned.  "code": evaluating Bass code (a script, a module, *)
(* a handler) or running a container.  "go": inside Runs.Go, the child is  *)
(* spawned and its stop function not appended.  "join": in the combiner    *)
(* that Start returned.  "wait": in Runs.Wait, inside wg.Wait.  "errs":    *)
(* wg.Wait has returned, runs.errs is read next.  "handle": Thunk.Run has  *)
(* returned, the handler is called next.  "record", "leave": the tail of   *)
(* the goroutine of Runs.Go.  "stop": inside Stop.  "drain": main is about *)
(* to call the last Wait.  "failed": main returned the script's error.     *)
(* "done": returned.                                                       *)
PCs == {"idle", "code", "go", "join", "wait", "errs", "handle", "record",
        "leave", "stop", "drain", "failed", "done"}

TypeOK ==
  /\ RunsTypeOK(Tasks, Procs)
  /\ pc \in [Procs -> PCs]
  /\ arg \in [Procs -> Tasks \cup {NoTask}]
  /\ \A p \in Procs : pc[p] \in {"go", "join"} => arg[p] \in Tasks
  /\ ctx \in [Procs -> SUBSET Procs]
  /\ handling \in SUBSET Tasks
  /\ failed \in SUBSET Tasks
  /\ report \in SUBSET Tasks
  /\ phase \in {"script", "ended", "shut"}

Init ==
  /\ RunsInit
  /\ pc = [p \in Procs |-> IF p = Main THEN "code" ELSE "idle"]
  /\ arg = [p \in Procs |-> NoTask]
  /\ ctx = [p \in Procs |-> IF p = Main THEN {Main} ELSE {}]
  /\ handling = {} /\ failed = {} /\ report = {} /\ phase = "script"

Cancelled(p) == ctx[p] \cap stopped # {}
Live(t) == pc[t] \notin {"idle", "done"}

(* Mutant: a run detached from the context of the code that started it.    *)
DetachedCtx(p, child) == {Main, child}

(* context.WithCancel(ctx) of Start, and the plain ctx of Open: the child  *)
(* is reached by every cancellation that reaches the goroutine that        *)
(* creates it.                                                             *)
DerivedCtx(p, child) == ctx[p] \cup {child}

-----------------------------------------------------------------------------
(* Operations of Bass code running in goroutine p *)

(* Thunk.Start, up to the spawn in Runs.Go. *)
Start(p, t) ==
  /\ pc[p] = "code"
  /\ pc[t] = "idle"
  /\ GoSpawn
  /\ pc' = [pc EXCEPT ![p] = "go", ![t] = "code"]
  /\ arg' = [arg EXCEPT ![p] = t]
  /\ ctx' = [ctx EXCEPT ![t] = DerivedCtx(p, t)]
  /\ UNCHANGED <<handling, failed, report, phase>>

(* The end of Runs.Go and the return of Start. *)
Started(p) ==
  /\ pc[p] = "go"
  /\ GoAppend(arg[p])
  /\ pc' = [pc EXCEPT ![p] = "code"]
  /\ arg' = [arg EXCEPT ![p] = NoTask]
  /\ UNCHANGED <<ctx, handling, failed, report, phase>>

(* (read thunk protocol) or (export thunk): a goroutine writes to a pipe. *)
Open(p, r) ==
  /\ pc[p] = "code"
  /\ pc[r] = "idle"
  /\ pc' = [pc EXCEPT ![r] = "code"]
  /\ ctx' = [ctx EXCEPT ![r] = DerivedCtx(p, r)]
  /\ UNCHANGED <<runsVars, arg, handling, failed, report, phase>>

(* An error that p's code does not catch.  A started thunk hands it to its *)
(* handler, a handler's error is the run's error, a reader passes it to    *)
(* its pipe, and cli.Run returns it at once, without Stop and without Wait.*)
Raised(p) ==
  /\ pc' = [pc EXCEPT ![p] = CASE p = Main     -> "failed"
                               [] p \in Readers  -> "done"
                               [] p \in handling -> "record"
                               [] OTHER          -> "handle"]
  /\ failed' = IF p \in handling THEN failed \cup {p} ELSE failed
  /\ handling' = handling \ {p}

(* A call in p's code has returned, without an error or with one that a    *)
(* (bind) around it, in a default of its formals, swallows.                *)
GoesOn(p) == pc' = [pc EXCEPT ![p] = "code"] /\ UNCHANGED <<failed, handling>>

(* The combiner that Start returned is a value like any other: once Start  *)
(* has returned, whoever gets hold of it calls it, the thunk's own handler *)
(* and the thunks that t itself joins included.                            *)
Join(p, t) ==
  /\ pc[p] = "code"
  /\ pc[t] # "idle"
  /\ \A q \in Procs : pc[q] = "go" => arg[q] # t
  /\ pc' = [pc EXCEPT ![p] = "join"]
  /\ arg' = [arg EXCEPT ![p] = t]
  /\ UNCHANGED <<runsVars, ctx, handling, failed, report, phase>>

(* Mutant: the inner WaitGroup is released when the thunk returns, before  *)
(* its handler is called.                                                  *)
JoinedEarly(p) ==
  /\ pc[p] = "join"
  /\ pc[arg[p]] \in {"handle", "record", "leave", "done"}
  /\ \/ arg[p] \in failed /\ Raised(p)
     \/ GoesOn(p)
  /\ arg' = [arg EXCEPT ![p] = NoTask]
  /\ UNCHANGED <<runsVars, ctx, report, phase>>

(* The combiner returns: its wg.Wait, which looks at no context, waits for *)
(* the inner WaitGroup, which t's deferred Done releases before the outer  *)
(* bookkeeping; then it returns the handler's result or error.             *)
Joined(p) ==
  /\ pc[p] = "join"
  /\ pc[arg[p]] \in {"record", "leave", "done"}
  /\ \/ arg[p] \in failed /\ Raised(p)
     \/ GoesOn(p)
  /\ arg' = [arg EXCEPT ![p] = NoTask]
  /\ UNCHANGED <<runsVars, ctx, report, phase>>

(* Runs.Wait of the Runs in p's context, the same for everyone: (wait),    *)
(* and the last Wait of cli.Run.                                           *)
Wait(p) ==
  /\ pc[p] \in {"code", "drain"}
  /\ \/ WgWaitPasses    /\ pc' = [pc EXCEPT ![p] = "errs"]
     \/ WgWaitBlocks(p) /\ pc' = [pc EXCEPT ![p] = "wait"]
  /\ UNCHANGED <<stopVars, errs, arg, ctx, handling, failed, report,
                 phase>>

Resume(p) ==
  /\ pc[p] = "wait"
  /\ WgResume(p)
  /\ pc' = [pc EXCEPT ![p] = "errs"]
  /\ UNCHANGED <<stopVars, errs, arg, ctx, handling, failed, report,
                 phase>>

(* "return runs.errs", read without errsL.  An error makes (wait) raise;   *)
(* the last Wait of main returns it.                                       *)
WaitReturns(p) ==
  /\ pc[p] = "errs"
  /\ IF phase # "script" /\ p = Main
     THEN /\ report' = errs
          /\ pc' = [pc EXCEPT ![p] = "done"]
          /\ UNCHANGED <<failed, handling>>
     ELSE /\ \/ errs # {} /\ Raised(p)
             \/ GoesOn(p)
          /\ UNCHANGED report
  /\ UNCHANGED <<runsVars, arg, ctx, phase>>

-----------------------------------------------------------------------------
(* The ends of a goroutine's code *)

Raises(p) ==
  /\ pc[p] = "code"
  /\ Raised(p)
  /\ UNCHANGED <<runsVars, arg, ctx, report, phase>>

(* A started thunk's Thunk.Run, its handler, or a reader returns nil. *)
Returns(p) ==
  /\ p # Main
  /\ pc[p] = "code"
  /\ pc' = [pc EXCEPT ![p] = CASE p \in Readers  -> "done"
                               [] p \in handling -> "record"
                               [] OTHER          -> "handle"]
  /\ handling' = handling \ {p}
  /\ UNCHANGED <<runsVars, arg, ctx, failed, report, phase>>

(* Mutant: the run leaves the WaitGroup when its thunk returns, before its *)
(* handler is called.                                                      *)
HandleAfterDone(t) ==
  /\ pc[t] = "handle"
  /\ RunDone
  /\ handling' = handling \cup {t}
  /\ pc' = [pc EXCEPT ![t] = "code"]
  /\ UNCHANGED <<arg, ctx, failed, report, phase>>

(* The handler is called under Trampoline, which returns ErrInterrupted    *)
(* without a single step when the context is already cancelled.            *)
Handle(t) ==
  /\ pc[t] = "handle"
  /\ IF Cancelled(t)
     THEN /\ pc' = [pc EXCEPT ![t] = "record"]
          /\ failed' = failed \cup {t}
          /\ UNCHANGED handling
     ELSE /\ pc' = [pc EXCEPT ![t] = "code"]
          /\ handling' = handling \cup {t}
          /\ UNCHANGED failed
  /\ UNCHANGED <<runsVars, arg, ctx, report, phase>>

(* runs.record(f()), then the deferred wg.Done. *)
RecordErr(t) ==
  /\ pc[t] = "record"
  /\ Record(t, t \in failed)
  /\ pc' = [pc EXCEPT ![t] = "leave"]
  /\ UNCHANGED <<arg, ctx, handling, failed, report, phase>>

Leave(t) ==
  /\ pc[t] = "leave"
  /\ RunDone
  /\ pc' = [pc EXCEPT ![t] = "done"]
  /\ UNCHANGED <<arg, ctx, handling, failed, report, phase>>

(* The script returned nil: cli.Run calls StopAndWait. *)
EndScript ==
  /\ pc[Main] = "code"
  /\ StopLock(Main)
  /\ pc' = [pc EXCEPT ![Main] = "stop"]
  /\ phase' = "ended"
  /\ UNCHANGED <<arg, ctx, handling, failed, report>>

Stop ==
  /\ pc[Main] = "stop"
  /\ \/ /\ \E t \in Tasks : StopCall(Main, t)
        /\ UNCHANGED <<pc, phase>>
     \/ /\ StopUnlock(Main)
        /\ pc' = [pc EXCEPT ![Main] = "drain"]
        /\ phase' = "shut"
  /\ UNCHANGED <<arg, ctx, handling, failed, report>>

(* appcontext cancels the root context on a signal (external). *)
Interrupt ==
  /\ stopped' = stopped \cup {Main}
  /\ UNCHANGED <<wgVars, stops, calling, stopper, errs, procVars>>

-----------------------------------------------------------------------------
CodeEnds(p) == Raises(p) \/ Returns(p)

(* Steps that only the Go scheduler delays. *)
Scheduled(p) ==
  \/ Started(p) \/ Joined(p) \/ Resume(p) \/ WaitReturns(p)
  \/ Handle(p) \/ RecordErr(p) \/ Leave(p)
  \/ p = Main /\ (Stop \/ (pc[p] = "drain" /\ Wait(p)))

Next ==
  /\ ~panicked
  /\ \/ \E p \in Procs : \/ \E t \in Tasks : Start(p, t) \/ Join(p, t)
                         \/ \E r \in Readers : Open(p, r)
                         \/ Started(p) \/ Joined(p)
                         \/ Wait(p) \/ Resume(p) \/ WaitReturns(p)
                         \/ Raises(p) \/ Returns(p)
     \/ \E t \in Tasks : Handle(t) \/ RecordErr(t) \/ Leave(t)
     \/ EndScript \/ Stop
     \/ Interrupt

Spec == Init /\ [][Next]_vars

(* Main and the runs are scheduled; a run whose context is cancelled ends  *)
(* the code that it is in, since Trampoline looks at the context before    *)
(* each of its steps and a runtime aborts its solve.  Nothing else is      *)
(* fair: a thunk may run forever.                                          *)
Fairness ==
  /\ \A p \in Tasks \cup {Main} : WF_vars(~panicked /\ Scheduled(p))
  /\ \A t \in Tasks : SF_vars(~panicked /\ Cancelled(t) /\ CodeEnds(t))

FairSpec == Spec /\ Fairness

-----------------------------------------------------------------------------
(* Started by main or, transitively, by the runs main started: no untracked *)
(* reader in between.                                                       *)
Rooted(t) == ctx[t] \cap Readers = {}

(* Once Stop has returned, every run that is still going has been told to  *)
(* stop, the ones whose stop function was appended too late for Stop to    *)
(* see it included; only what a reader goroutine started can escape.       *)
StopReachesRuns ==
  phase = "shut" => \A t \in Tasks : Live(t) /\ Rooted(t) => Cancelled(t)

(* When the last Wait has returned, no run is going any more and every     *)
(* error is in the report; only what a reader started afterwards escapes.  *)
WaitIsComplete ==
  pc[Main] = "done" =>
    \A t \in Tasks : Rooted(t) => ~Live(t) /\ (t \in failed => t \in report)

(* The handler of t has ended: waitErr is set, and t is in failed if it is *)
(* an error.                                                               *)
Ended(t) == pc[t] \in {"record", "leave", "done"}

ErrorsKept ==
  /\ errs \subseteq failed
  /\ \A t \in failed : pc[t] \in {"leave", "done"} => t \in errs

JoinsSeeTheEnd ==
  /\ \A p \in Procs : pc[p] = "join" /\ pc'[p] # "join" =>
       Ended(arg[p]) /\ (pc'[p] # "code" => arg[p] \in failed)
  /\ \A t \in Tasks : Ended(t) => (t \in failed' <=> t \in failed)

(* The errors that Wait reports are those of handlers that ended, and none *)
(* of those is dropped.  A combiner returns only after the end of the      *)
(* handler, raises only the handler's error, and the outcome that it saw   *)
(* is final: Wait reports an error of the run exactly if it saw one.       *)
ErrorsAccounted == []ErrorsKept /\ [][JoinsSeeTheEnd]_vars

(* Reusing the WaitGroup while a Wait is returning takes the process down. *)
(* It takes a goroutine that Runs does not track: a reader that starts a   *)
(* run while a Wait returns, or one whose own (wait) is overtaken.         *)
PanicNeedsReader ==
  panicked => \/ \E t \in Tasks : ~Rooted(t)
              \/ \E r \in Readers : pc[r] = "errs"

(* What holds StopAndWait up: a run whose thunk calls (wait) waits for     *)
(* itself, a run that escaped Stop goes on, and runs that join each other, *)
(* or one that joins itself, wait in combiners that look at no context.    *)
Hung ==
  \/ \E t \in Tasks : pc[t] = "wait"
  \/ \E t \in Tasks : Live(t) /\ ~Rooted(t)
  \/ \E ring \in SUBSET Tasks \ {{}} :
       \A t \in ring : pc[t] = "join" /\ arg[t] \in ring

(* StopAndWait returns unless one of these never ends: whatever runs are   *)
(* doing when they are stopped, starting others and joining them included. *)
StopAndWaitReturns ==
  []<>~Hung => (pc[Main] = "stop" ~> (pc[Main] = "done" \/ panicked))

(* "waits for all started thunks to finish": when every other run has      *)
(* finished, a call of (wait) returns.  It does not inside a started run,  *)
(* whose own entry in the WaitGroup it waits for.                          *)
OthersDone(p) == \A t \in Tasks \ {p} : ~Live(t)

WaitCallReturns ==
  \A p \in Tasks : (pc[p] = "wait" /\ OthersDone(p)) ~>
                     (pc[p] # "wait" \/ ~OthersDone(p) \/ panicked)
=============================================================================
