------------------------------ MODULE Services ------------------------------
(***************************************************************************)
(* pkg/runtimes/buildkit.go: one operation of the buildkit runtime (Run,   *)
(* Read, Export, Publish, ExportPath or Resolve) with the services that    *)
(* its command depends on.  The operation makes a Runs of its own          *)
(* (TrackRuns), builds its command, which starts a service for each        *)
(* address in it, executes it, and stops and awaits all of its runs in the *)
(* deferred StopAndWait.  A service is a thunk like any other: building it *)
(* may start more services first.                                          *)
(*                                                                         *)
(* A start has two goroutines in Runs: one that checks the service's ports *)
(* from a container next to it, and one that solves, i.e. runs, it.  Both  *)
(* are registered with the same stop function.  The operation itself, with *)
(* every Start nested in it, is one goroutine.                             *)
(***************************************************************************)
EXTENDS Runs, Sequences

CONSTANTS
  Starts,  \* the starts of services; a thunk that is used twice starts twice
  Op,      \* the goroutine of the operation
  Parent   \* whose command needs the service: another start, or Op

Users    == Starts \cup {Op}
SvcRuns  == {"check", "solve"} \X Starts   \* one goroutine each
Needs(x) == {s \in Starts : Parent[s] = x}

ASSUME StartsAssumption ==
  /\ IsFiniteSet(Starts)
  /\ Op \notin Starts
  /\ Op \notin SvcRuns
  /\ Parent \in [Starts -> Users]

VARIABLES
  calls,      \* the starts in progress on the operation's goroutine
  at,         \* where the code of a start, or of the operation, is
  run,        \* where each goroutine is
  container,  \* the container of a health check
  verdict,    \* what Check is about to return
  checked,    \* the channel of that name, buffered
  exited,     \* the channel of that name, buffered
  halted,     \* the starts whose stop was called by Start itself
  cancelled,  \* the context of the operation's caller is done
  outcome     \* what the operation returns

svcVars == <<calls, at, run, container, verdict, checked, exited, halted,
             cancelled, outcome>>
chans   == <<container, verdict, checked, exited>>
vars    == <<runsVars, svcVars>>

(* "idle": not called.  "build": in buildkitBuilder.Build.  "checking":    *)
(* the check is spawned, the solve is not.  "select": both are.  "up",     *)
(* "failed": Start returned.  Of Op: "exec": its own solve.  "stop",       *)
(* "drain", "wait": inside StopAndWait.  "done": returned.                 *)
StartPCs == {"idle", "build", "checking", "select", "up", "failed"}
OpPCs == {"build", "exec", "return", "stop", "drain", "wait", "done"}

(* Of a check: "setup", "probe": its container runs; "kill": it has been   *)
(* signalled; "release", "send".  Of a solve: "serve", "record".  Of both: *)
(* "leave", the deferred wg.Done of the goroutine of Runs.Go.              *)
RunPCs == {"idle", "setup", "probe", "kill", "release", "send", "serve",
           "record", "leave", "done"}
Channel == {"empty", "nil", "error"}

TypeOK ==
  /\ RunsTypeOK(SvcRuns, SvcRuns \cup {Op})
  /\ calls \in Seq(Starts)
  /\ at \in [Users -> StartPCs \cup OpPCs]
  /\ at[Op] \in OpPCs
  /\ \A s \in Starts : at[s] \in StartPCs
  /\ run \in [SvcRuns -> RunPCs]
  /\ container \in [Starts -> {"none", "open", "released"}]
  /\ verdict \in [Starts -> {"nil", "error"}]
  /\ checked \in [Starts -> Channel]
  /\ exited \in [Starts -> Channel]
  /\ halted \in SUBSET Starts
  /\ cancelled \in BOOLEAN
  /\ outcome \in {"nil", "error"}

(* ctx, svcs := TrackRuns(ctx), then runtime.build. *)
Init ==
  /\ RunsInit
  /\ calls = <<>>
  /\ at = [x \in Users |-> IF x = Op THEN "build" ELSE "idle"]
  /\ run = [r \in SvcRuns |-> "idle"]
  /\ container = [s \in Starts |-> "none"]
  /\ verdict = [s \in Starts |-> "error"]
  /\ checked = [s \in Starts |-> "empty"]
  /\ exited = [s \in Starts |-> "empty"]
  /\ halted = {} /\ cancelled = FALSE /\ outcome = "error"

(* The context of a start is derived from the operation's, not from that   *)
(* of the start it is nested in: Start calls Build before WithCancel.      *)
Cancelled(s) ==
  \/ cancelled
  \/ s \in halted
  \/ {<<"check", s>>, <<"solve", s>>} \cap stopped # {}

Going(r) == run[r] \notin {"idle", "done"}

-----------------------------------------------------------------------------
(* The goroutine of the operation *)

Top    == IF calls = <<>> THEN Op ELSE calls[Len(calls)]
Return == SubSeq(calls, 1, Len(calls) - 1)

(* NewCommand resolves the addresses of a command one by one, by Start,    *)
(* and returns at the first one that fails, with its error.                *)
Start(s) ==
  /\ Parent[s] = Top
  /\ at[Top] = "build"
  /\ at[s] = "idle"
  /\ \A sibling \in Needs(Top) : at[sibling] # "failed"
  /\ calls' = Append(calls, s)
  /\ at' = [at EXCEPT ![s] = "build"]
  /\ UNCHANGED <<runsVars, run, chans, halted, cancelled, outcome>>

(* Mutant: the error of a Start is dropped. *)
AnyReturned(x) == \A s \in Needs(x) : at[s] \in {"up", "failed"}

AllUp(x) == \A s \in Needs(x) : at[s] = "up"

(* Build returned: Start makes its context and spawns the health check.    *)
Built(s) ==
  /\ s = Top
  /\ at[s] = "build"
  /\ AllUp(s)
  /\ Go(<<"check", s>>)
  /\ run' = [run EXCEPT ![<<"check", s>>] = "setup"]
  /\ at' = [at EXCEPT ![s] = "checking"]
  /\ UNCHANGED <<calls, chans, halted, cancelled, outcome>>

Solve(s) ==
  /\ at[s] = "checking"
  /\ Go(<<"solve", s>>)
  /\ run' = [run EXCEPT ![<<"solve", s>>] = "serve"]
  /\ at' = [at EXCEPT ![s] = "select"]
  /\ UNCHANGED <<calls, chans, halted, cancelled, outcome>>

(* case err := <-checked: an error is returned without calling stop.  The  *)
(* select takes either channel when both are ready, so a service that has  *)
(* passed its check and exited since may still be returned as started.     *)
ReceiveChecked(s) ==
  /\ at[s] = "select"
  /\ checked[s] # "empty"
  /\ at' = [at EXCEPT ![s] = IF checked[s] = "nil" THEN "up" ELSE "failed"]
  /\ calls' = Return
  /\ UNCHANGED <<runsVars, run, chans, halted, cancelled, outcome>>

(* Mutant: a service that exits without an error counts as started.        *)
ReceiveExitedAsUp(s) ==
  /\ at[s] = "select"
  /\ exited[s] # "empty"
  /\ at' = [at EXCEPT ![s] = IF exited[s] = "nil" THEN "up" ELSE "failed"]
  /\ halted' = halted \cup {s}
  /\ calls' = Return
  /\ UNCHANGED <<runsVars, run, chans, cancelled, outcome>>

(* case err := <-exited: stop() interrupts the check; nil is an error too. *)
ReceiveExited(s) ==
  /\ at[s] = "select"
  /\ exited[s] # "empty"
  /\ at' = [at EXCEPT ![s] = "failed"]
  /\ halted' = halted \cup {s}
  /\ calls' = Return
  /\ UNCHANGED <<runsVars, run, chans, cancelled, outcome>>

(* A step of Build fails: the image, the hash, a mount, a nested Start; or *)
(* Marshal does, before a start has made its context.                      *)
BuildFails(x) ==
  /\ x = Top
  /\ at[x] = "build"
  /\ IF x = Op
     THEN at' = [at EXCEPT ![Op] = "return"] /\ UNCHANGED calls
     ELSE at' = [at EXCEPT ![x] = "failed"] /\ calls' = Return
  /\ UNCHANGED <<runsVars, run, chans, halted, cancelled, outcome>>

(* The second half of runtime.build: the command's own solve. *)
Execute ==
  /\ Top = Op
  /\ at[Op] = "build"
  /\ AllUp(Op)
  /\ at' = [at EXCEPT ![Op] = "exec"]
  /\ UNCHANGED <<runsVars, calls, run, chans, halted, cancelled, outcome>>

Executed(err) ==
  /\ at[Op] = "exec"
  /\ outcome' = err
  /\ at' = [at EXCEPT ![Op] = "return"]
  /\ UNCHANGED <<runsVars, calls, run, chans, halted, cancelled>>

(* defer svcs.StopAndWait() *)
Stop ==
  /\ \/ /\ at[Op] = "return"
        /\ StopLock(Op)
        /\ at' = [at EXCEPT ![Op] = "stop"]
     \/ /\ at[Op] = "stop"
        /\ \E r \in SvcRuns : StopCall(Op, r)
        /\ UNCHANGED at
     \/ /\ at[Op] = "stop"
        /\ StopUnlock(Op)
        /\ at' = [at EXCEPT ![Op] = "drain"]
  /\ UNCHANGED <<calls, run, chans, halted, cancelled, outcome>>

(* The errors in Runs are dropped by the defer. *)
Wait ==
  /\ \/ /\ at[Op] = "drain"
        /\ \/ WgWaitPasses     /\ at' = [at EXCEPT ![Op] = "done"]
           \/ WgWaitBlocks(Op) /\ at' = [at EXCEPT ![Op] = "wait"]
     \/ /\ at[Op] = "wait"
        /\ WgResume(Op)
        /\ at' = [at EXCEPT ![Op] = "done"]
  /\ UNCHANGED <<stopVars, errs, calls, run, chans, halted, cancelled,
                 outcome>>

-----------------------------------------------------------------------------
(* The goroutine of a health check *)

Check(s, from, to, err) ==
  /\ run[<<"check", s>>] = from
  /\ run' = [run EXCEPT ![<<"check", s>>] = to]
  /\ verdict' = [verdict EXCEPT ![s] = err]
  /\ UNCHANGED <<runsVars, calls, at, checked, exited, halted, cancelled,
                 outcome>>

(* The solves before NewContainer, or it, fail; or there is a container,   *)
(* in which the process does not start, or does.                           *)
SetUp(s) ==
  \/ Check(s, "setup", "send", "error") /\ UNCHANGED container
  \/ /\ \E to \in {"release", "probe"} : Check(s, "setup", to, "error")
     /\ container' = [container EXCEPT ![s] = "open"]

(* The process exits: all ports answered, or not. *)
Probed(s) ==
  /\ \E err \in {"nil", "error"} : Check(s, "probe", "release", err)
  /\ UNCHANGED container

(* ctx.Done: the process is killed and awaited, unless Signal fails. *)
Interrupted(s) ==
  /\ Cancelled(s)
  /\ \E to \in {"release", "kill"} : Check(s, "probe", to, "error")
  /\ UNCHANGED container

Killed(s) == Check(s, "kill", "release", "error") /\ UNCHANGED container

(* Mutant: the container is not released. *)
ReleaseNothing(s) ==
  Check(s, "release", "send", verdict[s]) /\ UNCHANGED container

(* defer container.Release(cleanupCtx) *)
Release(s) ==
  /\ Check(s, "release", "send", verdict[s])
  /\ container' = [container EXCEPT ![s] = "released"]

(* checked <- res; return nil, of which Runs records nothing. *)
SendChecked(s) ==
  /\ run[<<"check", s>>] = "send"
  /\ checked' = [checked EXCEPT ![s] = verdict[s]]
  /\ run' = [run EXCEPT ![<<"check", s>>] = "leave"]
  /\ UNCHANGED <<runsVars, calls, at, container, verdict, exited, halted,
                 cancelled, outcome>>

(* The goroutine of a solve: the service exits, or its solve is aborted.   *)
Serves(s, err) ==
  /\ run[<<"solve", s>>] = "serve"
  /\ exited' = [exited EXCEPT ![s] = err]
  /\ run' = [run EXCEPT ![<<"solve", s>>] = "record"]
  /\ UNCHANGED <<runsVars, calls, at, container, verdict, checked, halted,
                 cancelled, outcome>>

(* runs.record(err) *)
RecordErr(s) ==
  /\ run[<<"solve", s>>] = "record"
  /\ Record(<<"solve", s>>, exited[s] = "error")
  /\ run' = [run EXCEPT ![<<"solve", s>>] = "leave"]
  /\ UNCHANGED <<calls, at, chans, halted, cancelled, outcome>>

Leave(r) ==
  /\ run[r] = "leave"
  /\ RunDone
  /\ run' = [run EXCEPT ![r] = "done"]
  /\ UNCHANGED <<calls, at, chans, halted, cancelled, outcome>>

Cancel ==
  /\ ~cancelled
  /\ cancelled' = TRUE
  /\ UNCHANGED <<runsVars, calls, at, run, chans, halted, outcome>>

-----------------------------------------------------------------------------
Starting(s) ==
  Built(s) \/ Solve(s) \/ ReceiveChecked(s) \/ ReceiveExited(s)

Next ==
  \/ \E s \in Starts :
       \/ Start(s) \/ Starting(s)
       \/ SetUp(s) \/ Probed(s) \/ Interrupted(s) \/ Killed(s)
       \/ Release(s) \/ SendChecked(s)
       \/ \E err \in {"nil", "error"} : Serves(s, err)
       \/ RecordErr(s)
  \/ \E x \in Users : BuildFails(x)
  \/ Execute \/ \E err \in {"nil", "error"} : Executed(err)
  \/ Stop \/ Wait
  \/ \E r \in SvcRuns : Leave(r)
  \/ Cancel

Spec == Init /\ [][Next]_vars

(* The steps of each goroutine that cannot be put off for ever.  A build   *)
(* and a solve whose context is cancelled end, a build also after a Start  *)
(* in it failed; calls of the gateway return and a killed process exits.   *)
(* Nothing makes a service exit, its ports answer, or the command end.     *)
OpStep ==
  \/ \E s \in Starts : Starting(s)
  \/ \E x \in Users : /\ cancelled \/ \E s \in Needs(x) : at[s] = "failed"
                      /\ BuildFails(x)
  \/ cancelled /\ Executed("error")
  \/ Stop \/ Wait

CheckStep(s) ==
  \/ SetUp(s) \/ Interrupted(s) \/ Killed(s) \/ Release(s) \/ SendChecked(s)
  \/ Leave(<<"check", s>>)

SolveStep(s) ==
  (Cancelled(s) /\ Serves(s, "error")) \/ RecordErr(s) \/ Leave(<<"solve", s>>)

Fairness ==
  /\ WF_vars(OpStep)
  /\ \A s \in Starts : WF_vars(CheckStep(s)) /\ WF_vars(SolveStep(s))

FairSpec == Spec /\ Fairness

-----------------------------------------------------------------------------
(* A service is run, and the operation's command executed, only after the  *)
(* health check of every service it needs has passed, whichever of the     *)
(* services, checks and builds fails, and when: none whose check failed,   *)
(* was interrupted or is not over is used.  That it still runs is not      *)
(* claimed: it may exit at any time, also before the check is received.    *)
Past(x) == IF x = Op THEN at[Op] = "exec" \/ outcome = "nil"
                     ELSE at[x] \in {"checking", "select", "up"}

CheckedBeforeUse ==
  \A s \in Starts : Past(Parent[s]) => at[s] = "up" /\ checked[s] = "nil"

(* Once the operation has returned, in whatever way, no goroutine that it  *)
(* started is going and no container of a health check is left open (the   *)
(* deferred StopAndWait and the deferred Release), and waiting for them    *)
(* never reused the WaitGroup.                                             *)
NothingLeftGoing ==
  /\ ~panicked
  /\ at[Op] = "done" =>
       /\ \A r \in SvcRuns : ~Going(r)
       /\ \A s \in Starts : container[s] # "open"

(* When Stop has returned, every goroutine that is still going has been    *)
(* told to, and so has what a failed check left running.                   *)
StopReachesAll ==
  at[Op] \in {"drain", "wait"} =>
    \A s \in Starts :
      Going(<<"check", s>>) \/ Going(<<"solve", s>>) => Cancelled(s)

(* An operation that is over, or whose caller gave up, returns.            *)
OperationReturns == (cancelled \/ at[Op] = "return") ~> at[Op] = "done"

(* A start that failed leaves its goroutines to the operation, which fails *)
(* in turn and takes them down: a failed check does not keep its service   *)
(* up for good.                                                            *)
FailedStartsEnd ==
  \A s \in Starts :
    at[s] = "failed" ~> ~Going(<<"check", s>>) /\ ~Going(<<"solve", s>>)
=============================================================================
