--------------------------- MODULE ServicesProofs ---------------------------
(***************************************************************************)
(* The safety invariants of Services hold for every finite set of starts,  *)
(* however they are nested.                                                *)
(***************************************************************************)
EXTENDS Services, FiniteSetTheorems, SequenceTheorems,
        TLAPS

(* The inductive invariant: TypeOK and the parts below. *)
Running == {r \in SvcRuns : Going(r)}

(* The counter is the number of goroutines that are going. *)
Counted == counter = Cardinality(Running)

InProgress(s) == at[s] \in {"build", "checking", "select"}

(* The starts in progress are the call stack: each waits, in its build,    *)
(* for the one above, and the bottom one is waited for by the operation.   *)
Stacked ==
  /\ \A i, j \in 1..Len(calls) : calls[i] = calls[j] => i = j
  /\ \A s \in Starts : InProgress(s) <=> \E i \in 1..Len(calls) : calls[i] = s
  /\ \A i \in 1..Len(calls) : i < Len(calls) => at[calls[i]] = "build"
  /\ calls # <<>> => at[Op] = "build"

(* The goroutines of a start begin when its code says so. *)
Spawned ==
  \A s \in Starts :
    /\ at[s] \in {"idle", "build"} => run[<<"check", s>>] = "idle"
    /\ at[s] \in {"idle", "build", "checking"} => run[<<"solve", s>>] = "idle"

(* Each goroutine has its stop function in Runs; Stop calls them all. *)
Registered ==
  /\ \A r \in SvcRuns : run[r] # "idle" => r \in stops
  /\ stopper = IF at[Op] = "stop" THEN {Op} ELSE {}
  /\ at[Op] = "stop" => stops \subseteq stopped \cup calling
  /\ at[Op] \in {"drain", "wait", "done"} => stops \subseteq stopped

(* Only the operation waits, and what it is released by is the last Done. *)
Waiting ==
  /\ asleep \cup released \subseteq {Op}
  /\ asleep \cap released = {}
  /\ Op \in asleep \cup released => at[Op] = "wait"
  /\ Op \in released \/ at[Op] = "done" => counter = 0
  /\ ~panicked

(* A check has its container while it needs it, and has answered once it   *)
(* has sent its verdict; a start is up only after that.                    *)
Checking ==
  \A s \in Starts :
    /\ container[s] = "open" <=>
         run[<<"check", s>>] \in {"probe", "kill", "release"}
    /\ checked[s] # "empty" => run[<<"check", s>>] \in {"leave", "done"}
    /\ at[s] = "up" => checked[s] = "nil"

IInv ==
  /\ TypeOK
  /\ Counted
  /\ Stacked
  /\ Spawned
  /\ Registered
  /\ Waiting
  /\ Checking
  /\ CheckedBeforeUse

-----------------------------------------------------------------------------
LEMMA RunNames ==
  ASSUME NEW s \in Starts
  PROVE  /\ <<"check", s>> \in SvcRuns
         /\ <<"solve", s>> \in SvcRuns
         /\ <<"check", s>> # <<"solve", s>>
         /\ \A u \in Starts : /\ <<"check", s>> # <<"solve", u>>
                             /\ s # u => /\ <<"check", s>> # <<"check", u>>
                                         /\ <<"solve", s>> # <<"solve", u>>
BY DEF SvcRuns

LEMMA RunNameOf ==
  ASSUME NEW r \in SvcRuns
  PROVE  \E s \in Starts : r = <<"check", s>> \/ r = <<"solve", s>>
BY DEF SvcRuns

(* A goroutine that is going keeps the counter above zero. *)
LEMMA CounterFacts ==
  ASSUME TypeOK, Counted
  PROVE  /\ IsFiniteSet(Running)
         /\ counter = 0 <=> Running = {}
         /\ \A r \in Running : Cardinality(Running \ {r}) = counter - 1
<1>1. IsFiniteSet({"check", "solve"})
  <2>1. IsFiniteSet({}) /\ IsFiniteSet({} \cup {"check"})
    BY FS_EmptySet, FS_AddElement
  <2>2. IsFiniteSet(({} \cup {"check"}) \cup {"solve"})
    BY <2>1, FS_AddElement
  <2>3. ({} \cup {"check"}) \cup {"solve"} = {"check", "solve"}
    OBVIOUS
  <2> QED
    BY <2>2, <2>3
<1>2. IsFiniteSet(SvcRuns)
  BY <1>1, StartsAssumption, FS_Product DEF SvcRuns
<1>3. IsFiniteSet(Running)
  BY <1>2, FS_Subset DEF Running
<1>4. counter = 0 <=> Running = {}
  BY <1>3, FS_EmptySet DEF Counted
<1>5. \A r \in Running : Cardinality(Running \ {r}) = counter - 1
  BY <1>3, FS_RemoveElement DEF Counted
<1> QED
  BY <1>3, <1>4, <1>5

LEMMA TopFacts ==
  ASSUME TypeOK
  PROVE  /\ Top \in Users
         /\ calls # <<>> => /\ Len(calls) \in 1..Len(calls)
                            /\ Top = calls[Len(calls)]
                            /\ Top \in Starts
         /\ calls # <<>> =>
              /\ Return \in Seq(Starts)
              /\ Len(Return) = Len(calls) - 1
              /\ \A i \in 1..Len(Return) : Return[i] = calls[i]
<1> USE DEF TypeOK
<1>1. CASE calls = <<>>
  BY <1>1 DEF Top, Users
<1>2. CASE calls # <<>>
  <2>1. Len(calls) \in Nat /\ Len(calls) \in 1..Len(calls)
    BY <1>2, EmptySeq
  <2>2. \A i \in 1..Len(calls) - 1 : calls[i] \in Starts
    BY <2>1
  <2>3. /\ Return \in Seq(Starts)
        /\ Len(Return) = Len(calls) - 1
        /\ \A i \in 1..Len(Return) : Return[i] = calls[i]
    <3> DEFINE n == Len(calls) - 1
    <3>1. n \in Nat /\ 1 \in Int /\ n \in Int
      BY <2>1
    <3>2. /\ SubSeq(calls, 1, n) \in Seq(Starts)
          /\ Len(SubSeq(calls, 1, n)) = IF 1 <= n THEN n - 1 + 1 ELSE 0
          /\ \A i \in 1..n - 1 + 1 : SubSeq(calls, 1, n)[i] = calls[1 + i - 1]
      <4> HIDE DEF n
      <4> QED
        BY <2>2, <3>1, SubSeqProperties DEF n
    <3>3. Len(SubSeq(calls, 1, n)) = n
      <4> HIDE DEF n
      <4> QED
        BY <3>1, <3>2
    <3>4. \A i \in 1..n : 1 + i - 1 = i /\ i \in 1..n - 1 + 1
      BY <3>1
    <3> QED
      BY <3>2, <3>3, <3>4 DEF Return
  <2> QED
    BY <1>2, <2>1, <2>3 DEF Top, Users
<1> QED
  BY <1>1, <1>2

(* The steps of a health check before it sends its verdict. *)
CheckMoves(s) ==
  SetUp(s) \/ Probed(s) \/ Interrupted(s) \/ Killed(s) \/ Release(s)

HoldsContainer == {"probe", "kill", "release"}

LEMMA CheckFacts ==
  ASSUME TypeOK, Checking, NEW s \in Starts, CheckMoves(s)
  PROVE  \E from, to \in {"setup", "probe", "kill", "release", "send"},
            err \in {"nil", "error"} :
           /\ Check(s, from, to, err)
           /\ container' \in [Starts -> {"none", "open", "released"}]
           /\ container'[s] = "open" <=> to \in HoldsContainer
           /\ \A u \in Starts \ {s} : container'[u] = container[u]
<1> USE DEF TypeOK, HoldsContainer, Checking, Check
<1>1. CASE SetUp(s)
  BY <1>1 DEF SetUp
<1>2. CASE Probed(s)
  BY <1>2 DEF Probed
<1>3. CASE Interrupted(s)
  BY <1>3 DEF Interrupted
<1>4. CASE Killed(s)
  BY <1>4 DEF Killed
<1>5. CASE Release(s)
  BY <1>5 DEF Release
<1> QED
  BY <1>1, <1>2, <1>3, <1>4, <1>5 DEF CheckMoves

-----------------------------------------------------------------------------
(* Every step keeps the variables in their types. *)
LEMMA TypeStep == IInv /\ [Next]_vars => TypeOK'
<1> SUFFICES ASSUME IInv, [Next]_vars
             PROVE  TypeOK'
  OBVIOUS
<1> USE StartsAssumption, RunNames
    DEF TypeOK, RunsTypeOK, StartPCs, OpPCs, RunPCs, Channel, Users, chans
<1>0. TypeOK /\ Checking /\ Op \in Users /\ Starts \subseteq Users
  BY DEF IInv
<1>1. ASSUME NEW s \in Starts, Start(s)
      PROVE  TypeOK'
  BY <1>0, <1>1 DEF Start, runsVars, wgVars, stopVars
<1>2. ASSUME NEW s \in Starts, Built(s) \/ Solve(s)
      PROVE  TypeOK'
  <2>1. <<"check", s>> \in SvcRuns /\ <<"solve", s>> \in SvcRuns
    BY RunNames
  <2>2. CASE Built(s)
    BY <1>0, <2>1, <2>2 DEF Built, Go, WgAdd
  <2>3. CASE Solve(s)
    BY <1>0, <2>1, <2>3 DEF Solve, Go, WgAdd
  <2> QED
    BY <1>2, <2>2, <2>3
<1>3. ASSUME NEW s \in Starts, ReceiveChecked(s) \/ ReceiveExited(s)
      PROVE  TypeOK'
  <2>1. calls # <<>>
    BY <1>0, <1>3, EmptySeq
       DEF IInv, Stacked, InProgress, ReceiveChecked, ReceiveExited
  <2>2. calls' \in Seq(Starts)
    BY <1>0, <1>3, <2>1, TopFacts DEF ReceiveChecked, ReceiveExited
  <2>3. CASE ReceiveChecked(s)
    BY <1>0, <2>2, <2>3 DEF ReceiveChecked, runsVars, wgVars, stopVars
  <2>4. CASE ReceiveExited(s)
    BY <1>0, <2>2, <2>4 DEF ReceiveExited, runsVars, wgVars, stopVars
  <2> QED
    BY <1>3, <2>3, <2>4
<1>4. ASSUME NEW s \in Starts, CheckMoves(s)
      PROVE  TypeOK'
  <2>1. PICK from \in RunPCs, to \in RunPCs, err \in {"nil", "error"} :
          Check(s, from, to, err)
    BY <1>0, <1>4, CheckFacts
  <2>2. container' \in [Starts -> {"none", "open", "released"}]
    BY <1>0, <1>4, CheckFacts
  <2> QED
    BY <1>0, <2>1, <2>2 DEF Check, runsVars, wgVars, stopVars
<1>6. ASSUME NEW s \in Starts, SendChecked(s)
      PROVE  TypeOK'
  BY <1>0, <1>6 DEF SendChecked, runsVars, wgVars, stopVars
<1>7. ASSUME NEW s \in Starts, NEW err \in {"nil", "error"}, Serves(s, err)
      PROVE  TypeOK'
  BY <1>0, <1>7 DEF Serves, runsVars, wgVars, stopVars
<1>8. ASSUME NEW s \in Starts, RecordErr(s)
      PROVE  TypeOK'
  <2>1. errs' \in SUBSET SvcRuns
    <3>1. <<"solve", s>> \in SvcRuns
      BY RunNames
    <3>2. errs' = errs \/ errs' = errs \cup {<<"solve", s>>}
      BY <1>8 DEF RecordErr, Record
    <3> QED
      BY <1>0, <3>1, <3>2
  <2> QED
    BY <1>0, <1>8, <2>1 DEF RecordErr, Record, wgVars, stopVars
<1>9. ASSUME NEW x \in Users, BuildFails(x)
      PROVE  TypeOK'
  <2>1. calls' \in Seq(Starts)
    BY <1>0, <1>9, TopFacts DEF BuildFails, Top
  <2>2. /\ at' \in [Users -> StartPCs \cup OpPCs]
        /\ at'[Op] \in OpPCs
        /\ \A s \in Starts : at'[s] \in StartPCs
    <3>1. CASE x = Op
      <4>1. at' = [at EXCEPT ![Op] = "return"]
        BY <1>9, <3>1 DEF BuildFails
      <4> QED
        BY <1>0, <4>1
    <3>2. CASE x # Op
      <4>1. at' = [at EXCEPT ![x] = "failed"]
        BY <1>9, <3>2 DEF BuildFails
      <4> QED
        BY <1>0, <1>9, <3>2, <4>1
    <3> QED
      BY <3>1, <3>2
  <2>3. UNCHANGED <<runsVars, run, chans, halted, cancelled, outcome>>
    BY <1>9 DEF BuildFails
  <2> QED
    BY <1>0, <2>1, <2>2, <2>3 DEF runsVars, wgVars, stopVars
<1>10. CASE Execute \/ \E err \in {"nil", "error"} : Executed(err)
  BY <1>0, <1>10 DEF Execute, Executed, runsVars, wgVars, stopVars
<1>11. CASE Stop
  BY <1>0, <1>11 DEF Stop, StopLock, StopCall, StopUnlock, wgVars
<1>12. CASE Wait
  <2>1. panicked' \in BOOLEAN
    BY <1>0, <1>12 DEF Wait, WgWaitPasses, WgWaitBlocks, WgResume, wgVars
  <2> QED
    BY <1>0, <1>12, <2>1
       DEF Wait, WgWaitPasses, WgWaitBlocks, WgResume, wgVars, stopVars
<1>13. ASSUME NEW r \in SvcRuns, Leave(r)
       PROVE  TypeOK'
  <2>1. counter - 1 \in Nat
    BY <1>13, CounterFacts DEF IInv, Leave, Running, Going
  <2> QED
    BY <1>0, <1>13, <2>1 DEF Leave, RunDone, WgDone, stopVars
<1>14. CASE Cancel
  BY <1>0, <1>14 DEF Cancel, runsVars, wgVars, stopVars
<1>15. CASE UNCHANGED vars
  BY <1>0, <1>15 DEF vars, svcVars, runsVars, wgVars, stopVars
<1> QED
  BY <1>1, <1>2, <1>3, <1>4, <1>6, <1>7, <1>8, <1>9, <1>10, <1>11, <1>12,
     <1>13, <1>14, <1>15 DEF Next, Starting, CheckMoves

-----------------------------------------------------------------------------
(* What a step does to the goroutines that are going. *)
LEMMA RunningStep ==
  ASSUME IInv, [Next]_vars
  PROVE  \/ Running' = Running /\ counter' = counter
         \/ \E r \in SvcRuns \ Running :
              /\ at[Op] = "build"
              /\ Running' = Running \cup {r} /\ counter' = counter + 1
         \/ \E r \in Running : Running' = Running \ {r} /\ counter' = counter - 1
<1> USE DEF TypeOK, Running, Going
<1>0. TypeOK /\ Checking
  BY DEF IInv
<1>1. ASSUME NEW s \in Starts, Start(s)
      PROVE  Running' = Running /\ counter' = counter
  BY <1>1 DEF Start, runsVars, wgVars
<1>2. ASSUME NEW s \in Starts, InProgress(s)
      PROVE  at[Op] = "build"
  BY <1>2, EmptySeq DEF IInv, Stacked
<1>3. ASSUME NEW s \in Starts, Built(s)
      PROVE  /\ <<"check", s>> \in SvcRuns \ Running
             /\ at[Op] = "build"
             /\ Running' = Running \cup {<<"check", s>>}
             /\ counter' = counter + 1
  <2>1. <<"check", s>> \in SvcRuns /\ run[<<"check", s>>] = "idle"
    BY <1>3, RunNames DEF IInv, Spawned, Built
  <2>2. run' = [run EXCEPT ![<<"check", s>>] = "setup"]
    BY <1>3 DEF Built
  <2>3. Running' = Running \cup {<<"check", s>>}
    BY <1>0, <2>1, <2>2
  <2> QED
    BY <1>2, <1>3, <2>1, <2>3 DEF Built, Go, WgAdd, InProgress
<1>4. ASSUME NEW s \in Starts, Solve(s)
      PROVE  /\ <<"solve", s>> \in SvcRuns \ Running
             /\ at[Op] = "build"
             /\ Running' = Running \cup {<<"solve", s>>}
             /\ counter' = counter + 1
  <2>1. <<"solve", s>> \in SvcRuns /\ run[<<"solve", s>>] = "idle"
    BY <1>4, RunNames DEF IInv, Spawned, Solve
  <2>2. run' = [run EXCEPT ![<<"solve", s>>] = "serve"]
    BY <1>4 DEF Solve
  <2>3. Running' = Running \cup {<<"solve", s>>}
    BY <1>0, <2>1, <2>2
  <2> QED
    BY <1>2, <1>4, <2>1, <2>3 DEF Solve, Go, WgAdd, InProgress
<1>5. ASSUME NEW s \in Starts, ReceiveChecked(s) \/ ReceiveExited(s)
      PROVE  Running' = Running /\ counter' = counter
  BY <1>5 DEF ReceiveChecked, ReceiveExited, runsVars, wgVars
<1>6. ASSUME NEW s \in Starts, CheckMoves(s)
      PROVE  Running' = Running /\ counter' = counter
  <2>1. PICK from, to \in {"setup", "probe", "kill", "release", "send"},
             err \in {"nil", "error"} : Check(s, from, to, err)
    BY <1>0, <1>6, CheckFacts
  <2>2. <<"check", s>> \in SvcRuns
    BY RunNames
  <2>3. /\ run[<<"check", s>>] = from
        /\ run' = [run EXCEPT ![<<"check", s>>] = to]
        /\ counter' = counter
    BY <2>1 DEF Check, runsVars, wgVars
  <2>4. from \notin {"idle", "done"} /\ to \notin {"idle", "done"}
    OBVIOUS
  <2> QED
    BY <1>0, <2>2, <2>3, <2>4
<1>7. ASSUME NEW s \in Starts, SendChecked(s)
      PROVE  Running' = Running /\ counter' = counter
  BY <1>0, <1>7 DEF SendChecked, runsVars, wgVars
<1>8. ASSUME NEW s \in Starts, NEW err \in {"nil", "error"}, Serves(s, err)
      PROVE  Running' = Running /\ counter' = counter
  BY <1>0, <1>8 DEF Serves, runsVars, wgVars
<1>9. ASSUME NEW s \in Starts, RecordErr(s)
      PROVE  Running' = Running /\ counter' = counter
  BY <1>0, <1>9 DEF RecordErr, Record, wgVars
<1>10. ASSUME NEW x \in Users, BuildFails(x)
       PROVE  Running' = Running /\ counter' = counter
  BY <1>10 DEF BuildFails, runsVars, wgVars
<1>11. CASE Execute \/ \E err \in {"nil", "error"} : Executed(err)
  BY <1>11 DEF Execute, Executed, runsVars, wgVars
<1>12. CASE Stop
  BY <1>12 DEF Stop, StopLock, StopCall, StopUnlock, wgVars
<1>13. CASE Wait
  BY <1>13 DEF Wait, WgWaitPasses, WgWaitBlocks, WgResume, wgVars
<1>14. ASSUME NEW r \in SvcRuns, Leave(r)
       PROVE  r \in Running /\ Running' = Running \ {r} /\ counter' = counter - 1
  BY <1>0, <1>14 DEF Leave, RunDone, WgDone
<1>15. CASE Cancel \/ UNCHANGED vars
  BY <1>15 DEF Cancel, vars, svcVars, runsVars, wgVars
<1> QED
  BY <1>1, <1>3, <1>4, <1>5, <1>6, <1>7, <1>8, <1>9, <1>10, <1>11, <1>12,
     <1>13, <1>14, <1>15 DEF Next, Starting, CheckMoves

LEMMA CountedStep == IInv /\ [Next]_vars => Counted'
<1> SUFFICES ASSUME IInv, [Next]_vars
             PROVE  counter' = Cardinality(Running')
  BY DEF Counted
<1>1. TypeOK /\ Counted /\ IsFiniteSet(Running)
  BY CounterFacts DEF IInv
<1>2. CASE Running' = Running /\ counter' = counter
  BY <1>1, <1>2 DEF Counted
<1>3. ASSUME NEW r \in SvcRuns \ Running,
             Running' = Running \cup {r}, counter' = counter + 1
      PROVE  counter' = Cardinality(Running')
  BY <1>1, <1>3, FS_AddElement DEF Counted
<1>4. ASSUME NEW r \in Running,
             Running' = Running \ {r}, counter' = counter - 1
      PROVE  counter' = Cardinality(Running')
  BY <1>1, <1>4, CounterFacts
<1> QED
  BY <1>2, <1>3, <1>4, RunningStep

(* The goroutines of Runs, and the caller's context, leave the operation's *)
(* own goroutine where it is.                                              *)
GoroutineMoves ==
  \/ \E s \in Starts : \/ CheckMoves(s) \/ SendChecked(s) \/ RecordErr(s)
                       \/ \E err \in {"nil", "error"} : Serves(s, err)
  \/ \E r \in SvcRuns : Leave(r)
  \/ Cancel

LEMMA FrameFacts ==
  ASSUME GoroutineMoves \/ UNCHANGED vars
  PROVE  UNCHANGED <<calls, at, outcome, stopVars, panicked>>
<1>1. CASE \E s \in Starts : CheckMoves(s)
  BY <1>1 DEF CheckMoves, SetUp, Probed, Interrupted, Killed, Release, Check,
              runsVars, wgVars
<1>2. CASE \E s \in Starts : \/ SendChecked(s)
                            \/ \E err \in {"nil", "error"} : Serves(s, err)
  BY <1>2 DEF SendChecked, Serves, runsVars, wgVars
<1>3. CASE \E s \in Starts : RecordErr(s)
  BY <1>3 DEF RecordErr, Record, wgVars
<1>4. CASE Cancel \/ UNCHANGED vars
  BY <1>4 DEF Cancel, vars, svcVars, runsVars, wgVars
<1>5. CASE \E r \in SvcRuns : Leave(r)
  BY <1>5 DEF Leave, RunDone, WgDone
<1> QED
  BY <1>1, <1>2, <1>3, <1>4, <1>5 DEF GoroutineMoves

LEMMA StackedStep == IInv /\ [Next]_vars => Stacked'
<1> SUFFICES ASSUME IInv, [Next]_vars
             PROVE  Stacked'
  OBVIOUS
<1>0. TypeOK /\ Stacked /\ Len(calls) \in Nat /\ Op \notin Starts
      /\ \A i \in 1..Len(calls) : calls[i] \in Starts
  BY StartsAssumption DEF IInv, TypeOK
<1>1. ASSUME NEW s \in Starts, Start(s)
      PROVE  Stacked'
  <2>1. /\ calls' = Append(calls, s)
        /\ Len(calls') = Len(calls) + 1
        /\ calls'[Len(calls) + 1] = s
        /\ \A i \in 1..Len(calls) : calls'[i] = calls[i]
    BY <1>0, <1>1 DEF Start, TypeOK
  <2>2. /\ at' = [at EXCEPT ![s] = "build"]
        /\ at[s] = "idle" /\ at[Top] = "build"
    BY <1>1 DEF Start
  <2>3. \A i \in 1..Len(calls) : calls[i] # s
    BY <1>0, <2>2 DEF Stacked, InProgress
  <2>4. \A i \in 1..Len(calls) : at[calls[i]] = "build"
    BY <1>0, <2>2, EmptySeq DEF Stacked, Top, TypeOK
  <2>5. at[Op] = "build" /\ at'[Op] = "build"
    BY <1>0, <2>2, StartsAssumption DEF Stacked, Top, TypeOK, Users
  <2>6. \A u \in Starts : InProgress(u)' <=> InProgress(u) \/ u = s
    BY <1>0, <2>2 DEF InProgress, TypeOK, Users
  <2>7. \A i \in 1..Len(calls') : i = Len(calls) + 1 \/ i \in 1..Len(calls)
    BY <1>0, <2>1
  <2>8. \A i, j \in 1..Len(calls') : calls'[i] = calls'[j] => i = j
    BY <1>0, <2>1, <2>3, <2>7 DEF Stacked
  <2>9. \A u \in Starts : InProgress(u)' <=> \E i \in 1..Len(calls') : calls'[i] = u
    <3>1. \A i \in 1..Len(calls) : i \in 1..Len(calls')
      BY <1>0, <2>1
    <3>2. Len(calls) + 1 \in 1..Len(calls')
      BY <1>0, <2>1
    <3> QED
      BY <1>0, <2>1, <2>6, <2>7, <3>1, <3>2 DEF Stacked
  <2>10. \A i \in 1..Len(calls') : i < Len(calls') => at'[calls'[i]] = "build"
    BY <1>0, <2>1, <2>2, <2>4, <2>7 DEF TypeOK, Users
  <2> QED
    BY <2>5, <2>8, <2>9, <2>10 DEF Stacked
<1>2. ASSUME NEW s \in Starts, Built(s) \/ Solve(s)
      PROVE  Stacked'
  <2>1. InProgress(s) /\ calls' = calls /\ (at[s] = "build" => s = Top)
    BY <1>2 DEF Built, Solve, InProgress
  <2>2. at' = [at EXCEPT ![s] = at'[s]] /\ at'[s] \in {"checking", "select"}
    BY <1>0, <1>2 DEF Built, Solve, TypeOK, Users
  <2>3. \A i \in 1..Len(calls) : i < Len(calls) => calls[i] # s
    BY <1>0, <1>2, <2>1 DEF Stacked, Top, Built, Solve
  <2>4. \A u \in Starts : InProgress(u)' <=> InProgress(u)
    BY <1>0, <2>1, <2>2 DEF InProgress, TypeOK, Users
  <2> QED
    BY <1>0, <2>1, <2>2, <2>3, <2>4 DEF Stacked, TypeOK, Users
<1>3. ASSUME NEW s \in Starts, InProgress(s), calls' = Return,
             s = Top \/ at[s] # "build",
             at' = [at EXCEPT ![s] = at'[s]], at'[s] \in {"up", "failed"}
      PROVE  Stacked'
  <2>1. PICK k \in 1..Len(calls) : calls[k] = s
    BY <1>0, <1>3 DEF Stacked
  <2>2. calls # <<>> /\ Len(calls) \in 1..Len(calls)
    BY <2>1, <1>0, EmptySeq
  <2>3. calls[Len(calls)] = s
    BY <1>0, <1>3, <2>1, <2>2, TopFacts DEF Stacked
  <2>4. /\ Len(calls') = Len(calls) - 1
        /\ \A i \in 1..Len(calls') : calls'[i] = calls[i]
    BY <1>0, <1>3, <2>2, TopFacts
  <2>5. \A i \in 1..Len(calls') : i \in 1..Len(calls) /\ i < Len(calls) /\ calls[i] # s
    BY <1>0, <2>2, <2>3, <2>4 DEF Stacked
  <2>6. \A i \in 1..Len(calls) : calls[i] # s => i \in 1..Len(calls')
    BY <1>0, <2>2, <2>3, <2>4
  <2>7. \A u \in Starts : InProgress(u)' <=> InProgress(u) /\ u # s
    BY <1>0, <1>3 DEF InProgress, TypeOK, Users
  <2>8. at'[Op] = at[Op] /\ at[Op] = "build"
    BY <1>0, <1>3, <2>2 DEF Stacked, TypeOK, Users
  <2>9. \A i, j \in 1..Len(calls') : calls'[i] = calls'[j] => i = j
    BY <1>0, <2>4, <2>5 DEF Stacked
  <2>10. \A u \in Starts : InProgress(u)' <=> \E i \in 1..Len(calls') : calls'[i] = u
    BY <1>0, <2>4, <2>5, <2>6, <2>7 DEF Stacked
  <2>11. \A i \in 1..Len(calls') : i < Len(calls') => at'[calls'[i]] = "build"
    BY <1>0, <1>3, <2>4, <2>5 DEF Stacked, TypeOK, Users
  <2> QED
    BY <2>8, <2>9, <2>10, <2>11 DEF Stacked
<1>4. ASSUME NEW s \in Starts, ReceiveChecked(s) \/ ReceiveExited(s)
      PROVE  Stacked'
  BY <1>0, <1>3, <1>4
     DEF ReceiveChecked, ReceiveExited, InProgress, TypeOK, Users
<1>5. ASSUME calls = <<>>, calls' = calls, at' = [at EXCEPT ![Op] = at'[Op]]
      PROVE  Stacked'
  BY <1>0, <1>5 DEF Stacked, InProgress, TypeOK, Users
<1>6. ASSUME NEW x \in Users, BuildFails(x)
      PROVE  Stacked'
  <2>1. CASE x = Op
    BY <1>0, <1>5, <1>6, <2>1, TopFacts DEF BuildFails, TypeOK, Users
  <2>2. CASE x # Op
    BY <1>0, <1>3, <1>6, <2>2 DEF BuildFails, InProgress, TypeOK, Users
  <2> QED
    BY <2>1, <2>2
<1>7. CASE Execute \/ \E err \in {"nil", "error"} : Executed(err)
  <2>1. calls = <<>>
    BY <1>0, <1>7, TopFacts DEF Execute, Executed, Stacked
  <2> QED
    BY <1>0, <1>5, <1>7, <2>1 DEF Execute, Executed, TypeOK, Users
<1>8. CASE Stop \/ Wait
  <2>1. calls = <<>> /\ calls' = calls
    BY <1>0, <1>8 DEF Stop, Wait, Stacked
  <2>2. at' = [at EXCEPT ![Op] = at'[Op]]
    BY <1>0, <1>8 DEF Stop, Wait, TypeOK, Users
  <2> QED
    BY <1>5, <2>1, <2>2
<1>9. CASE GoroutineMoves \/ UNCHANGED vars
  BY <1>0, <1>9, FrameFacts DEF Stacked, InProgress
<1> QED
  BY <1>1, <1>2, <1>4, <1>6, <1>7, <1>8, <1>9
     DEF Next, Starting, CheckMoves, GoroutineMoves

(* A goroutine moves on from where it is; it is not spawned again. *)
LEMMA RunMoves ==
  ASSUME IInv, GoroutineMoves \/ UNCHANGED vars
  PROVE  /\ \A r \in SvcRuns : run'[r] = "idle" <=> run[r] = "idle"
         /\ \A r \in SvcRuns : run[r] \in {"leave", "done"} =>
                                  run'[r] \in {"leave", "done"}
<1> USE DEF TypeOK
<1>0. TypeOK /\ Checking /\ \A s \in Starts : /\ <<"check", s>> \in SvcRuns
                                            /\ <<"solve", s>> \in SvcRuns
  BY RunNames DEF IInv
<1>1. ASSUME NEW s \in Starts, CheckMoves(s)
      PROVE  /\ \A r \in SvcRuns : run'[r] = "idle" <=> run[r] = "idle"
             /\ \A r \in SvcRuns : run[r] \in {"leave", "done"} =>
                                      run'[r] \in {"leave", "done"}
  <2>1. PICK from, to \in {"setup", "probe", "kill", "release", "send"},
             err \in {"nil", "error"} : Check(s, from, to, err)
    BY <1>0, <1>1, CheckFacts
  <2> QED
    BY <1>0, <2>1 DEF Check
<1>2. CASE \E s \in Starts : \/ SendChecked(s) \/ RecordErr(s)
                            \/ \E err \in {"nil", "error"} : Serves(s, err)
  BY <1>0, <1>2 DEF SendChecked, RecordErr, Serves
<1>3. CASE \E r \in SvcRuns : Leave(r)
  BY <1>0, <1>3 DEF Leave
<1>4. CASE Cancel \/ UNCHANGED vars
  BY <1>0, <1>4 DEF Cancel, vars, svcVars
<1> QED
  BY <1>1, <1>2, <1>3, <1>4 DEF GoroutineMoves

(* The steps of the operation's goroutine that spawn nothing. *)
Quiet ==
  \/ \E s \in Starts : Start(s) \/ ReceiveChecked(s) \/ ReceiveExited(s)
  \/ \E x \in Users : BuildFails(x)
  \/ Execute \/ \E err \in {"nil", "error"} : Executed(err)
  \/ Stop \/ Wait

LEMMA StepCases ==
  ASSUME [Next]_vars
  PROVE  \/ \E s \in Starts : Built(s) \/ Solve(s)
         \/ Quiet
         \/ GoroutineMoves \/ UNCHANGED vars
BY DEF Next, Starting, CheckMoves, GoroutineMoves, Quiet

LEMMA QuietFacts ==
  ASSUME TypeOK, Quiet
  PROVE  /\ run' = run /\ container' = container /\ checked' = checked
         /\ stops' = stops
         /\ \A s \in Starts : \/ at'[s] = at[s]
                             \/ (at[s] = "idle" /\ at'[s] = "build")
                             \/ (at[s] = "build" /\ at'[s] = "failed")
                             \/ (at[s] = "select" /\ at'[s] = "failed")
                             \/ (at[s] = "select" /\ at'[s] = "up" /\ checked[s] = "nil")
<1>1. /\ run' = run /\ container' = container /\ checked' = checked
      /\ stops' = stops
  BY DEF Quiet, Start, ReceiveChecked, ReceiveExited, BuildFails, Execute,
         Executed, Stop, StopLock, StopCall, StopUnlock, Wait, chans, runsVars,
         stopVars
<1>2. ASSUME NEW s \in Starts
      PROVE  \/ at'[s] = at[s]
             \/ (at[s] = "idle" /\ at'[s] = "build")
             \/ (at[s] = "build" /\ at'[s] = "failed")
             \/ (at[s] = "select" /\ at'[s] = "failed")
             \/ (at[s] = "select" /\ at'[s] = "up" /\ checked[s] = "nil")
  <2> USE StartsAssumption DEF TypeOK, Users
  <2>1. ASSUME NEW u \in Starts, Start(u)
        PROVE  at'[s] = at[s] \/ (at[s] = "idle" /\ at'[s] = "build")
    <3>1. at[u] = "idle" /\ at' = [at EXCEPT ![u] = "build"]
      BY <2>1 DEF Start
    <3> QED
      BY <3>1
  <2>2. ASSUME NEW u \in Starts, ReceiveChecked(u)
        PROVE  \/ at'[s] = at[s]
               \/ (at[s] = "select" /\ at'[s] = "failed")
               \/ (at[s] = "select" /\ at'[s] = "up" /\ checked[s] = "nil")
    <3>1. at[u] = "select" /\ at' = [at EXCEPT ![u] = IF checked[u] = "nil"
                                                     THEN "up" ELSE "failed"]
      BY <2>2 DEF ReceiveChecked
    <3> QED
      BY <3>1
  <2>3. ASSUME NEW u \in Starts, ReceiveExited(u)
        PROVE  at'[s] = at[s] \/ (at[s] = "select" /\ at'[s] = "failed")
    <3>1. at[u] = "select" /\ at' = [at EXCEPT ![u] = "failed"]
      BY <2>3 DEF ReceiveExited
    <3> QED
      BY <3>1
  <2>4. ASSUME NEW x \in Users, BuildFails(x)
        PROVE  at'[s] = at[s] \/ (at[s] = "build" /\ at'[s] = "failed")
    <3>1. /\ at[x] = "build"
          /\ \/ (x = Op /\ at' = [at EXCEPT ![Op] = "return"])
             \/ (x # Op /\ at' = [at EXCEPT ![x] = "failed"])
      BY <2>4 DEF BuildFails
    <3> QED
      BY <3>1
  <2>5. CASE Execute \/ \E err \in {"nil", "error"} : Executed(err)
    BY <2>5 DEF Execute, Executed
  <2>6. CASE Stop \/ Wait
    BY <2>6 DEF Stop, Wait
  <2> QED
    BY <2>1, <2>2, <2>3, <2>4, <2>5, <2>6 DEF Quiet
<1> QED
  BY <1>1, <1>2

LEMMA SpawnedStep == IInv /\ [Next]_vars => Spawned'
<1> SUFFICES ASSUME IInv, [Next]_vars
             PROVE  Spawned'
  OBVIOUS
<1>0. TypeOK /\ Spawned /\ \A s \in Starts : /\ <<"check", s>> \in SvcRuns
                                           /\ <<"solve", s>> \in SvcRuns
  BY RunNames DEF IInv
<1>1. ASSUME NEW s \in Starts, Built(s)
      PROVE  Spawned'
  <2>1. /\ at' = [at EXCEPT ![s] = "checking"] /\ at[s] = "build"
        /\ run' = [run EXCEPT ![<<"check", s>>] = "setup"]
    BY <1>1 DEF Built
  <2> QED
    BY <1>0, <2>1, RunNames DEF Spawned, TypeOK, Users
<1>2. ASSUME NEW s \in Starts, Solve(s)
      PROVE  Spawned'
  <2>1. /\ at' = [at EXCEPT ![s] = "select"]
        /\ run' = [run EXCEPT ![<<"solve", s>>] = "serve"]
    BY <1>2 DEF Solve
  <2> QED
    BY <1>0, <2>1, RunNames DEF Spawned, TypeOK, Users
<1>3. CASE Quiet
  BY <1>0, <1>3, QuietFacts DEF Spawned
<1>4. CASE GoroutineMoves \/ UNCHANGED vars
  BY <1>0, <1>4, FrameFacts, RunMoves DEF Spawned
<1> QED
  BY <1>1, <1>2, <1>3, <1>4, StepCases

LEMMA RegisteredStep == IInv /\ [Next]_vars => Registered'
<1> SUFFICES ASSUME IInv, [Next]_vars
             PROVE  Registered'
  OBVIOUS
<1>0. TypeOK /\ Stacked /\ Registered /\ Op \notin Starts
      /\ \A s \in Starts : /\ <<"check", s>> \in SvcRuns
                          /\ <<"solve", s>> \in SvcRuns
  BY StartsAssumption, RunNames DEF IInv
<1>1. ASSUME NEW s \in Starts, Built(s)
      PROVE  Registered'
  <2>1. at[Op] = "build" /\ at'[Op] = "build"
    BY <1>0, <1>1, EmptySeq DEF Built, Stacked, InProgress, TypeOK, Users
  <2>2. stops' = stops \cup {<<"check", s>>} /\ stopper' = stopper
    BY <1>1 DEF Built, Go
  <2>3. \A r \in SvcRuns : r # <<"check", s>> => run'[r] = run[r]
    BY <1>0, <1>1 DEF Built, TypeOK
  <2> QED
    BY <1>0, <2>1, <2>2, <2>3 DEF Registered
<1>2. ASSUME NEW s \in Starts, Solve(s)
      PROVE  Registered'
  <2>1. at[Op] = "build" /\ at'[Op] = "build"
    BY <1>0, <1>2, EmptySeq DEF Solve, Stacked, InProgress, TypeOK, Users
  <2>2. stops' = stops \cup {<<"solve", s>>} /\ stopper' = stopper
    BY <1>2 DEF Solve, Go
  <2>3. \A r \in SvcRuns : r # <<"solve", s>> => run'[r] = run[r]
    BY <1>0, <1>2 DEF Solve, TypeOK
  <2> QED
    BY <1>0, <2>1, <2>2, <2>3 DEF Registered
<1>3. CASE \E s \in Starts : Start(s) \/ ReceiveChecked(s) \/ ReceiveExited(s)
  <2>1. run' = run /\ at'[Op] = at[Op] /\ UNCHANGED stopVars
    BY <1>0, <1>3
       DEF Start, ReceiveChecked, ReceiveExited, runsVars, TypeOK, Users
  <2> QED
    BY <1>0, <2>1 DEF Registered, stopVars
<1>4. CASE (\E x \in Users : BuildFails(x)) \/ Execute
           \/ \E err \in {"nil", "error"} : Executed(err)
  <2>1. run' = run /\ UNCHANGED stopVars
    BY <1>4 DEF BuildFails, Execute, Executed, runsVars
  <2>2. /\ at'[Op] # at[Op] => at[Op] \in {"build", "exec"}
        /\ at'[Op] # at[Op] => at'[Op] \in {"exec", "return"}
    BY <1>0, <1>4 DEF BuildFails, Execute, Executed, TypeOK, Users
  <2> QED
    BY <1>0, <2>1, <2>2 DEF Registered, stopVars
<1>5. CASE Stop
  <2> USE <1>0 DEF Registered, TypeOK, RunsTypeOK, Users
  <2>1. CASE at[Op] = "return" /\ StopLock(Op) /\ at' = [at EXCEPT ![Op] = "stop"]
    BY <1>5, <2>1 DEF Stop, StopLock
  <2>2. CASE at[Op] = "stop" /\ UNCHANGED at /\ \E r \in SvcRuns : StopCall(Op, r)
    BY <1>5, <2>2 DEF Stop, StopCall
  <2>3. CASE at[Op] = "stop" /\ StopUnlock(Op) /\ at' = [at EXCEPT ![Op] = "drain"]
    BY <1>5, <2>3 DEF Stop, StopUnlock
  <2> QED
    BY <1>5, <2>1, <2>2, <2>3 DEF Stop
<1>6. CASE Wait
  <2>1. /\ run' = run /\ UNCHANGED stopVars
        /\ at[Op] \in {"drain", "wait"} /\ at'[Op] \in {"wait", "done"}
    BY <1>0, <1>6 DEF Wait, TypeOK, Users
  <2> QED
    BY <1>0, <2>1 DEF Registered, stopVars
<1>7. CASE GoroutineMoves \/ UNCHANGED vars
  BY <1>0, <1>7, FrameFacts, RunMoves DEF Registered, stopVars
<1> QED
  BY <1>1, <1>2, <1>3, <1>4, <1>5, <1>6, <1>7, StepCases DEF Quiet

LEMMA WaitingStep == IInv /\ [Next]_vars => Waiting'
<1> SUFFICES ASSUME IInv, [Next]_vars
             PROVE  Waiting'
  OBVIOUS
<1>0. TypeOK /\ Stacked /\ Waiting /\ Counted /\ Op \notin Starts
  BY StartsAssumption DEF IInv
<1>1. CASE \E s \in Starts : Built(s) \/ Solve(s)
  <2>1. at[Op] = "build" /\ at'[Op] = "build"
    BY <1>0, <1>1, EmptySeq DEF Built, Solve, Stacked, InProgress, TypeOK, Users
  <2>2. asleep' = asleep /\ released' = released /\ panicked' = panicked
    BY <1>1 DEF Built, Solve, Go, WgAdd
  <2> QED
    BY <1>0, <2>1, <2>2 DEF Waiting
<1>2. CASE Quiet /\ ~Wait
  <2>1. UNCHANGED wgVars
    BY <1>2 DEF Quiet, Start, ReceiveChecked, ReceiveExited, BuildFails, Execute,
                Executed, Stop, StopLock, StopCall, StopUnlock, runsVars
  <2>2. \/ at'[Op] = at[Op]
        \/ (at[Op] \notin {"wait", "done"} /\ at'[Op] # "done")
    BY <1>0, <1>2 DEF Quiet, Start, ReceiveChecked, ReceiveExited, BuildFails,
                      Execute, Executed, Stop, TypeOK, Users
  <2> QED
    BY <1>0, <2>1, <2>2 DEF Waiting, wgVars
<1>3. CASE Wait
  <2> USE <1>0 DEF Waiting, TypeOK, RunsTypeOK, Users, wgVars
  <2>1. CASE at[Op] = "drain" /\ WgWaitPasses /\ at' = [at EXCEPT ![Op] = "done"]
    BY <2>1 DEF WgWaitPasses
  <2>2. CASE at[Op] = "drain" /\ WgWaitBlocks(Op) /\ at' = [at EXCEPT ![Op] = "wait"]
    BY <2>2 DEF WgWaitBlocks
  <2>3. CASE at[Op] = "wait" /\ WgResume(Op) /\ at' = [at EXCEPT ![Op] = "done"]
    <3>1. counter = 0 /\ released' = released \ {Op} /\ asleep' = asleep
          /\ counter' = counter /\ panicked' = (counter # 0)
      BY <2>3 DEF WgResume
    <3>2. ~panicked'
      BY <3>1
    <3>3. asleep' = {}
      BY <2>3, <3>1 DEF WgResume
    <3>4. released' = {}
      BY <2>3, <3>1
    <3>5. at'[Op] = "done" /\ counter' = 0
      BY <2>3, <3>1
    <3> QED
      BY <3>2, <3>3, <3>4, <3>5
  <2> QED
    BY <1>3, <2>1, <2>2, <2>3 DEF Wait
<1>4. ASSUME NEW r \in SvcRuns, Leave(r)
      PROVE  Waiting'
  <2>1. r \in Running /\ counter # 0 /\ counter \in Nat
    BY <1>0, <1>4, CounterFacts DEF Leave, Running, Going, TypeOK, RunsTypeOK
  <2>2. at' = at /\ panicked' = panicked
    BY <1>4 DEF Leave, RunDone, WgDone
  <2>3. CASE counter = 1
    BY <1>0, <1>4, <2>1, <2>2, <2>3 DEF Leave, RunDone, WgDone, Waiting
  <2>4. CASE counter # 1
    BY <1>0, <1>4, <2>1, <2>2, <2>4 DEF Leave, RunDone, WgDone, Waiting
  <2> QED
    BY <2>3, <2>4
<1>5. CASE (GoroutineMoves /\ ~\E r \in SvcRuns : Leave(r)) \/ UNCHANGED vars
  <2>1. UNCHANGED <<at, wgVars>>
    BY <1>5 DEF GoroutineMoves, CheckMoves, SetUp, Probed, Interrupted, Killed,
                Release, Check, SendChecked, RecordErr, Record, Serves, Cancel,
                vars, svcVars, runsVars
  <2> QED
    BY <1>0, <2>1 DEF Waiting, wgVars
<1> QED
  BY <1>1, <1>2, <1>3, <1>4, <1>5, StepCases

LEMMA CheckingStep == IInv /\ [Next]_vars => Checking'
<1> SUFFICES ASSUME IInv, [Next]_vars
             PROVE  Checking'
  OBVIOUS
<1>0. TypeOK /\ Checking /\ Spawned /\ \A s \in Starts :
        <<"check", s>> \in SvcRuns /\ <<"solve", s>> \in SvcRuns
  BY RunNames DEF IInv
<1>1. ASSUME NEW s \in Starts, Built(s)
      PROVE  Checking'
  <2>1. /\ at' = [at EXCEPT ![s] = "checking"] /\ at[s] = "build"
        /\ run' = [run EXCEPT ![<<"check", s>>] = "setup"]
        /\ UNCHANGED <<container, checked>>
    BY <1>1 DEF Built, chans
  <2>2. run[<<"check", s>>] = "idle"
    BY <1>0, <2>1 DEF Spawned
  <2> QED
    BY <1>0, <2>1, <2>2, RunNames DEF Checking, TypeOK, Users
<1>2. ASSUME NEW s \in Starts, Solve(s)
      PROVE  Checking'
  <2>1. /\ at' = [at EXCEPT ![s] = "select"]
        /\ run' = [run EXCEPT ![<<"solve", s>>] = "serve"]
        /\ UNCHANGED <<container, checked>>
    BY <1>2 DEF Solve, chans
  <2> QED
    BY <1>0, <2>1, RunNames DEF Checking, TypeOK, Users
<1>3. CASE Quiet
  BY <1>0, <1>3, QuietFacts DEF Checking
<1>4. ASSUME NEW s \in Starts, CheckMoves(s)
      PROVE  Checking'
  <2>1. PICK from, to \in {"setup", "probe", "kill", "release", "send"},
             err \in {"nil", "error"} :
          /\ Check(s, from, to, err)
          /\ container'[s] = "open" <=> to \in HoldsContainer
          /\ \A u \in Starts \ {s} : container'[u] = container[u]
    BY <1>0, <1>4, CheckFacts
  <2>2. /\ run' = [run EXCEPT ![<<"check", s>>] = to]
        /\ run[<<"check", s>>] = from
        /\ at' = at /\ checked' = checked
    BY <2>1 DEF Check
  <2> QED
    BY <1>0, <2>1, <2>2, RunNames DEF Checking, TypeOK, HoldsContainer
<1>5. ASSUME NEW s \in Starts, SendChecked(s)
      PROVE  Checking'
  <2>1. /\ run[<<"check", s>>] = "send"
        /\ run' = [run EXCEPT ![<<"check", s>>] = "leave"]
        /\ checked' = [checked EXCEPT ![s] = verdict[s]]
        /\ at' = at /\ container' = container
    BY <1>5 DEF SendChecked
  <2>2. at[s] # "up"
    BY <1>0, <2>1 DEF Checking
  <2> QED
    BY <1>0, <2>1, <2>2, RunNames DEF Checking, TypeOK
<1>6. ASSUME NEW s \in Starts, RecordErr(s) \/ \E err \in {"nil", "error"} : Serves(s, err)
      PROVE  Checking'
  <2>1. /\ \A u \in Starts : run'[<<"check", u>>] = run[<<"check", u>>]
        /\ UNCHANGED <<at, checked, container>>
    BY <1>0, <1>6, RunNames DEF RecordErr, Serves, chans, TypeOK
  <2> QED
    BY <1>0, <2>1 DEF Checking
<1>7. ASSUME NEW r \in SvcRuns, Leave(r)
      PROVE  Checking'
  <2>1. /\ run[r] = "leave" /\ run' = [run EXCEPT ![r] = "done"]
        /\ UNCHANGED <<at, checked, container>>
    BY <1>7 DEF Leave, chans
  <2> QED
    BY <1>0, <2>1 DEF Checking, TypeOK
<1>8. CASE Cancel \/ UNCHANGED vars
  BY <1>0, <1>8 DEF Checking, Cancel, vars, svcVars, chans
<1> QED
  BY <1>1, <1>2, <1>3, <1>4, <1>5, <1>6, <1>7, <1>8, StepCases
     DEF GoroutineMoves

LEMMA CheckedStep == IInv /\ [Next]_vars => CheckedBeforeUse'
<1> SUFFICES ASSUME IInv, [Next]_vars, NEW s \in Starts, Past(Parent[s])'
             PROVE  at'[s] = "up" /\ checked'[s] = "nil"
  BY DEF CheckedBeforeUse
<1>0. /\ TypeOK /\ Checking /\ CheckedBeforeUse /\ Checking'
      /\ Parent[s] \in Users /\ Op \notin Starts
  BY CheckingStep, StartsAssumption DEF IInv
<1> SUFFICES at'[s] = "up"
  BY <1>0 DEF Checking
<1>1. ASSUME Past(Parent[s])
      PROVE  at'[s] = "up"
  <2>1. at[s] = "up"
    BY <1>0, <1>1 DEF CheckedBeforeUse
  <2>2. CASE Quiet
    BY <1>0, <2>1, <2>2, QuietFacts
  <2>3. CASE \E u \in Starts : Built(u) \/ Solve(u)
    <3>1. PICK u \in Starts : Built(u) \/ Solve(u)
      BY <2>3
    <3>2. /\ at[u] # "up"
          /\ \/ at' = [at EXCEPT ![u] = "checking"]
             \/ at' = [at EXCEPT ![u] = "select"]
      BY <3>1 DEF Built, Solve
    <3> QED
      BY <1>0, <2>1, <3>2 DEF TypeOK, Users
  <2>4. CASE GoroutineMoves \/ UNCHANGED vars
    BY <2>1, <2>4, FrameFacts
  <2> QED
    BY <2>2, <2>3, <2>4, StepCases
<1>2. ASSUME ~Past(Parent[s])
      PROVE  at'[s] = "up"
  <2>1. CASE \E u \in Starts : Built(u)
    <3>1. PICK u \in Starts : Built(u)
      BY <2>1
    <3>2. /\ at' = [at EXCEPT ![u] = "checking"] /\ at[u] = "build"
          /\ outcome' = outcome /\ AllUp(u)
      BY <3>1 DEF Built
    <3>3. Parent[s] = u
      BY <1>0, <1>2, <3>2 DEF Past, TypeOK, Users
    <3> QED
      BY <1>0, <3>2, <3>3 DEF AllUp, Needs, TypeOK, Users
  <2>2. CASE Execute
    <3>1. at' = [at EXCEPT ![Op] = "exec"] /\ outcome' = outcome /\ AllUp(Op)
      BY <2>2 DEF Execute
    <3>2. Parent[s] = Op
      BY <1>0, <1>2, <3>1 DEF Past, TypeOK, Users
    <3> QED
      BY <1>0, <3>1, <3>2 DEF AllUp, Needs, TypeOK, Users
  <2>3. CASE ~(\E u \in Starts : Built(u)) /\ ~Execute
    <3> DEFINE p == Parent[s]
    <3>1. CASE p \in Starts
      <4>1. at[p] \notin {"checking", "select", "up"}
        BY <1>0, <1>2, <3>1 DEF Past
      <4>2. CASE Quiet
        BY <1>0, <3>1, <4>1, <4>2, QuietFacts DEF Past
      <4>3. CASE \E u \in Starts : Solve(u)
        <5>1. PICK u \in Starts : Solve(u)
          BY <4>3
        <5>2. at[u] = "checking" /\ at' = [at EXCEPT ![u] = "select"]
          BY <5>1 DEF Solve
        <5> QED
          BY <1>0, <3>1, <4>1, <5>2 DEF Past, TypeOK, Users
      <4>4. CASE GoroutineMoves \/ UNCHANGED vars
        BY <1>0, <3>1, <4>1, <4>4, FrameFacts DEF Past
      <4> QED
        BY <2>3, <4>2, <4>3, <4>4, StepCases
    <3>2. CASE p = Op
      <4>1. at[Op] # "exec" /\ outcome # "nil"
        BY <1>2, <3>2 DEF Past
      <4>2. at'[Op] # "exec" /\ outcome' # "nil"
        <5>1. CASE Quiet
          BY <1>0, <2>3, <4>1, <5>1
             DEF Quiet, Start, ReceiveChecked, ReceiveExited, BuildFails, Executed,
                 Stop, Wait, TypeOK, Users
        <5>2. CASE \E u \in Starts : Solve(u)
          BY <1>0, <4>1, <5>2 DEF Solve, TypeOK, Users
        <5>3. CASE GoroutineMoves \/ UNCHANGED vars
          BY <4>1, <5>3, FrameFacts
        <5> QED
          BY <2>3, <5>1, <5>2, <5>3, StepCases
      <4> QED
        BY <3>2, <4>2 DEF Past
    <3> QED
      BY <1>0, <3>1, <3>2 DEF Users
  <2> QED
    BY <2>1, <2>2, <2>3
<1> QED
  BY <1>1, <1>2

LEMMA InvInit == Init => IInv
<1> SUFFICES ASSUME Init
             PROVE  IInv
  OBVIOUS
<1> USE StartsAssumption DEF Init, RunsInit, Users
<1>1. TypeOK
  <2>1. RunsTypeOK(SvcRuns, SvcRuns \cup {Op})
    BY DEF RunsTypeOK
  <2>2. /\ at \in [Users -> StartPCs \cup OpPCs]
        /\ at[Op] \in OpPCs
        /\ \A s \in Starts : at[s] \in StartPCs
    BY DEF StartPCs, OpPCs
  <2>3. calls \in Seq(Starts) /\ run \in [SvcRuns -> RunPCs]
    BY EmptySeq DEF RunPCs
  <2> QED
    BY <2>1, <2>2, <2>3 DEF TypeOK, Channel
<1>2. Running = {}
  BY DEF Running, Going
<1>3. Counted
  BY <1>2, FS_EmptySet DEF Counted
<1>4. Stacked
  BY EmptySeq DEF Stacked, InProgress
<1>5. Spawned /\ Registered /\ Waiting /\ Checking
  BY RunNames DEF Spawned, Registered, Waiting, Checking
<1>6. CheckedBeforeUse
  BY DEF CheckedBeforeUse, Past
<1> QED
  BY <1>1, <1>3, <1>4, <1>5, <1>6 DEF IInv

(* IInv holds in every state of the operation: what the code of a start,   *)
(* its goroutines, the WaitGroup and the stop functions know of each other.*)
THEOREM InductiveInvariant == Spec => []IInv
<1>1. IInv /\ [Next]_vars => IInv'
  BY TypeStep, CountedStep, StackedStep, SpawnedStep, RegisteredStep,
     WaitingStep, CheckingStep, CheckedStep DEF IInv
<1> QED
  BY <1>1, InvInit, PTL DEF Spec

(* The variables keep their types; the counter never goes below zero. *)
THEOREM TypeCorrect == Spec => []TypeOK
<1>1. IInv => TypeOK
  BY DEF IInv
<1> QED
  BY <1>1, InductiveInvariant, PTL

(* No command runs before the services it needs have passed their checks. *)
THEOREM NeedsAreChecked == Spec => []CheckedBeforeUse
<1>1. IInv => CheckedBeforeUse
  BY DEF IInv
<1> QED
  BY <1>1, InductiveInvariant, PTL

(* An operation that has returned leaves no goroutine and no container. *)
THEOREM LeavesNothing == Spec => []NothingLeftGoing
<1>1. IInv => NothingLeftGoing
  <2> SUFFICES ASSUME IInv
               PROVE  NothingLeftGoing
    OBVIOUS
  <2>1. ~panicked
    BY DEF IInv, Waiting
  <2>2. ASSUME at[Op] = "done"
        PROVE  \A r \in SvcRuns : ~Going(r)
    BY <2>2, CounterFacts DEF IInv, Waiting, Running
  <2>3. ASSUME at[Op] = "done", NEW s \in Starts
        PROVE  container[s] # "open"
    BY <2>2, <2>3, RunNames DEF IInv, Checking, Going
  <2> QED
    BY <2>1, <2>2, <2>3 DEF NothingLeftGoing
<1> QED
  BY <1>1, InductiveInvariant, PTL

(* Stop tells every goroutine that is still going. *)
THEOREM StopReaches == Spec => []StopReachesAll
<1>1. IInv => StopReachesAll
  BY RunNames DEF IInv, Registered, StopReachesAll, Cancelled, Going
<1> QED
  BY <1>1, InductiveInvariant, PTL

=============================================================================
