---------------------------- MODULE LockfileMemo ----------------------------
(***************************************************************************)
(* pkg/bass/memo.go, with (memo) of std/root.bass and cmd/bass/bump.go:    *)
(* goroutines of several bass processes share one bass.lock file.  An      *)
(* operation takes the flock of the file, then the globalLock of its       *)
(* process, loads the whole file, edits it in memory and writes it back    *)
(* with os.WriteFile, which truncates first.  A write may fail half way,   *)
(* a process may die half way, and bump takes no lock at all.              *)
(*                                                                         *)
(* External: the file, flock(2) under gofrs/flock, sync.RWMutex.           *)
(***************************************************************************)
EXTENDS MemoContent

CONSTANTS
  Procs,       \* the bass processes
  Threads,     \* their goroutines
  ProcOf,      \* the process of each goroutine
  Handles,     \* the Lockfile values, each with a flock.Flock of its own
  HandleOf,    \* the Lockfile each goroutine uses
  NoThread,    \* nobody
  NoReq,       \* no operation is under way
  Failed,      \* the outcome of an operation that returns an error unsaved
  Falsy,       \* the outputs that (or) takes for false
  MaxOps,      \* bound on the operations and memoized calls of a goroutine
  MaxFaults    \* bound on the faults that begin: failed writes, deaths during
               \* a write, and bumps

MemoReqs == [kind : {"recall", "remove"}, key : Keys]
              \cup [kind : {"store"}, key : Keys, output : Outputs]

ASSUME LockfileAssumption ==
  /\ ProcOf \in [Threads -> Procs]
  /\ HandleOf \in [Threads -> Handles]
  /\ \A t, u \in Threads : HandleOf[t] = HandleOf[u] => ProcOf[t] = ProcOf[u]
  /\ NoThread \notin Threads
  /\ NoReq \notin MemoReqs
  /\ Falsy \subseteq Outputs
  /\ Failed \notin Outputs \cup {NoOutput}
  /\ MaxOps \in Nat /\ MaxFaults \in Nat

VARIABLES
  file,     \* [memos, torn]: what is on disk; torn: followed by a partial memo
  flock,    \* [l, r, mode] of each handle: Flock.l, Flock.r, the kernel's lock
  writer,   \* globalLock of each process: the goroutine that holds Lock
  readers,  \* globalLock of each process: the goroutines that hold RLock
  pc,       \* the step each goroutine is at
  req,      \* its operation
  memoized, \* the goroutines whose recall is that of a (memo) call
  local,    \* the content it will write
  out,      \* what its recall found, or Failed
  ops,      \* the operations it has begun
  bump,     \* [pc, memos]: the bump command and the content it has read
  computed, \* history: the outputs ever computed for each key
  overtaken, \* history: bump wrote since these goroutines read the file
  faults     \* history: the failed writes, the deaths during a write, the
             \* writes of bump and the writes it overtook

lockVars == <<flock, writer, readers>>
histVars == <<ops, computed>>
faultVars == <<overtaken, faults>>
vars == <<file, lockVars, pc, req, memoized, local, out, bump, histVars, faultVars>>

Free == [l |-> FALSE, r |-> FALSE, mode |-> "none"]

(* In the order of an operation: "flock" and "global" acquire the locks,   *)
(* "load" reads and edits, "truncate" and "write" are os.WriteFile, and    *)
(* "unglobal" and "unflock" are the deferred unlocks.  "compute" is the    *)
(* call of the memoized function, outside of any lock.                     *)
PCs == {"idle", "flock", "global", "load", "truncate", "write", "unglobal",
        "unflock", "compute", "dead"}

TypeOK ==
  /\ file.torn \in BOOLEAN
  /\ flock \in [Handles -> [l : BOOLEAN, r : BOOLEAN, mode : {"none", "sh", "ex"}]]
  /\ writer \in [Procs -> Threads \cup {NoThread}]
  /\ readers \in [Procs -> SUBSET Threads]
  /\ pc \in [Threads -> PCs]
  /\ req \in [Threads -> MemoReqs \cup {NoReq}]
  /\ \A t \in Threads : pc[t] \notin {"idle", "dead"} => req[t] # NoReq
  /\ memoized \in SUBSET Threads
  /\ out \in [Threads -> Outputs \cup {NoOutput, Failed}]
  /\ ops \in [Threads -> 0..MaxOps]
  /\ bump.pc \in {"idle", "call", "truncate", "write", "done"}
  /\ computed \in [Keys -> SUBSET Outputs]
  /\ overtaken \in SUBSET Threads
  /\ faults \in Nat

Init ==
  /\ \E memos \in Contents :
       /\ file = [memos |-> memos, torn |-> FALSE]
       /\ computed = [key \in Keys |-> Known(memos, key)]
  /\ flock = [h \in Handles |-> Free]
  /\ writer = [p \in Procs |-> NoThread]
  /\ readers = [p \in Procs |-> {}]
  /\ pc = [t \in Threads |-> "idle"]
  /\ req = [t \in Threads |-> NoReq]
  /\ memoized = {}
  /\ local = [t \in Threads |-> <<>>]
  /\ out = [t \in Threads |-> NoOutput]
  /\ ops = [t \in Threads |-> 0]
  /\ bump = [pc |-> "idle", memos |-> <<>>]
  /\ overtaken = {} /\ faults = 0

Goto(t, step) == pc' = [pc EXCEPT ![t] = step]
Reads(t) == req[t].kind = "recall"

-----------------------------------------------------------------------------
(* The locks *)

(* gofrs/flock: a Lock through a handle that already has it returns at     *)
(* once, whoever took it; RLock through a handle that has the exclusive    *)
(* lock turns it into a shared one; Unlock gives up whatever is held.      *)
FlockEx(h) ==
  IF flock[h].l THEN UNCHANGED flock
  ELSE /\ \A g \in Handles \ {h} : flock[g].mode = "none"
       /\ flock' = [flock EXCEPT ![h] = [l |-> TRUE, r |-> @.r, mode |-> "ex"]]

FlockSh(h) ==
  IF flock[h].r THEN UNCHANGED flock
  ELSE /\ \A g \in Handles \ {h} : flock[g].mode # "ex"
       /\ flock' = [flock EXCEPT ![h] = [l |-> @.l, r |-> TRUE, mode |-> "sh"]]

FlockUnlock(h) == flock' = [flock EXCEPT ![h] = Free]

(* Mutant: writers take the shared lock too. *)
FlockAlwaysShared(t) == FlockSh(HandleOf[t])

TakeFlock(t) == IF Reads(t) THEN FlockSh(HandleOf[t]) ELSE FlockEx(HandleOf[t])

(* Mutant: the in-process lock is left out. *)
TakeNoGlobal(t) == UNCHANGED <<writer, readers>>

TakeGlobal(t) ==
  LET p == ProcOf[t]
  IN /\ writer[p] = NoThread
     /\ IF Reads(t)
        THEN readers' = [readers EXCEPT ![p] = @ \cup {t}] /\ UNCHANGED writer
        ELSE /\ readers[p] = {}
             /\ writer' = [writer EXCEPT ![p] = t]
             /\ UNCHANGED readers

(* Mutant: a goroutine that only reads keeps the in-process lock. *)
KeepReadLock(t) ==
  IF Reads(t) THEN UNCHANGED <<writer, readers>>
  ELSE writer' = [writer EXCEPT ![ProcOf[t]] = NoThread] /\ UNCHANGED readers

ReleaseGlobal(t) ==
  LET p == ProcOf[t]
  IN IF Reads(t)
     THEN readers' = [readers EXCEPT ![p] = @ \ {t}] /\ UNCHANGED writer
     ELSE writer' = [writer EXCEPT ![p] = NoThread] /\ UNCHANGED readers

-----------------------------------------------------------------------------
(* The file *)

Empty == [memos |-> <<>>, torn |-> FALSE]
Whole(content) == [memos |-> content, torn |-> FALSE]

(* What a write of content that is cut short puts on disk. *)
CutShort(content) ==
  {Whole(<<>>)} \cup {[memos |-> SubSeq(content, 1, n), torn |-> torn] :
                        n \in 0..(Len(content) - 1), torn \in BOOLEAN}

Before(part, n, torn) ==
  [memos |-> part.memos \o SubSeq(file.memos, n, Len(file.memos)), torn |-> torn]

(* Writing does not truncate: what somebody wrote since the truncation     *)
(* stays behind the part that is written over, and parses from some memo   *)
(* on or not at all.                                                       *)
Overlaid(part) ==
  IF file = Empty \/ part.torn THEN {part}
  ELSE {Before(part, n, torn) : n \in 2..(Len(file.memos) + 1), torn \in BOOLEAN}

(* A write that a bump overtook is a fault of its own. *)
CatchUp(t) ==
  /\ overtaken' = overtaken \ {t}
  /\ faults' = IF t \in overtaken THEN faults + 1 ELSE faults

-----------------------------------------------------------------------------
(* One operation of goroutine t *)

(* store-memo stores a result that the script computed. *)
Begin(t) ==
  /\ pc[t] = "idle"
  /\ ops[t] < MaxOps
  /\ ops' = [ops EXCEPT ![t] = @ + 1]
  /\ \E r \in MemoReqs, asMemo \in BOOLEAN :
       /\ req' = [req EXCEPT ![t] = r]
       /\ asMemo => r.kind = "recall"
       /\ memoized' = IF asMemo THEN memoized \cup {t} ELSE memoized \ {t}
       /\ computed' = IF r.kind = "store"
                      THEN [computed EXCEPT ![r.key] = @ \cup {r.output}]
                      ELSE computed
  /\ out' = [out EXCEPT ![t] = NoOutput]
  /\ Goto(t, "flock")
  /\ UNCHANGED <<file, lockVars, local, bump, faultVars>>

Lock(t) ==
  /\ pc[t] = "flock"
  /\ TakeFlock(t)
  /\ Goto(t, "global")
  /\ UNCHANGED <<file, writer, readers, req, memoized, local, out, bump, histVars,
                 faultVars>>

(* The lock file cannot be opened: the operation fails at once.            *)
LockFails(t) ==
  /\ pc[t] = "flock"
  /\ out' = [out EXCEPT ![t] = Failed]
  /\ memoized' = memoized \ {t}
  /\ Goto(t, "idle")
  /\ UNCHANGED <<file, lockVars, req, local, bump, histVars, faultVars>>

GlobalLock(t) ==
  /\ pc[t] = "global"
  /\ TakeGlobal(t)
  /\ Goto(t, "load")
  /\ UNCHANGED <<file, flock, req, memoized, local, out, bump, histVars, faultVars>>

(* load: a parse error is swallowed, and what was parsed before it is all  *)
(* the content there is.                                                   *)
Edited(t) ==
  IF req[t].kind = "store" THEN StoredIn(file.memos, req[t].key, req[t].output)
                           ELSE RemovedFrom(file.memos, req[t].key)

Load(t) ==
  /\ pc[t] = "load"
  /\ IF Reads(t)
     THEN /\ out' = [out EXCEPT ![t] = Retrieved(file.memos, req[t].key)]
          /\ Goto(t, "unglobal")
          /\ UNCHANGED local
     ELSE /\ local' = [local EXCEPT ![t] = Edited(t)]
          /\ Goto(t, "truncate")
          /\ UNCHANGED out
  /\ UNCHANGED <<file, lockVars, req, memoized, bump, histVars, faultVars>>

(* The file is not read, the thunk or the input has no message, or what is *)
(* stored no value: the operation fails before it saves anything.          *)
LoadFails(t) ==
  /\ pc[t] = "load"
  /\ out' = [out EXCEPT ![t] = Failed]
  /\ Goto(t, "unglobal")
  /\ UNCHANGED <<file, lockVars, req, memoized, local, bump, histVars, faultVars>>

Truncate(t) ==
  /\ pc[t] = "truncate"
  /\ file' = Empty
  /\ Goto(t, "write")
  /\ CatchUp(t)
  /\ UNCHANGED <<lockVars, req, memoized, local, out, bump, histVars>>

Write(t) ==
  /\ pc[t] = "write"
  /\ file' \in Overlaid(Whole(local[t]))
  /\ Goto(t, "unglobal")
  /\ local' = [local EXCEPT ![t] = <<>>]
  /\ CatchUp(t)
  /\ UNCHANGED <<lockVars, req, memoized, out, bump, histVars>>

(* WriteFile returns an error, say of a full disk; so does the operation. *)
WriteFails(t) ==
  /\ pc[t] = "write"
  /\ faults < MaxFaults
  /\ faults' = faults + 1
  /\ overtaken' = overtaken \ {t}
  /\ \E part \in CutShort(local[t]) : file' \in Overlaid(part)
  /\ Goto(t, "unglobal")
  /\ local' = [local EXCEPT ![t] = <<>>]
  /\ UNCHANGED <<lockVars, req, memoized, out, bump, histVars>>

GlobalUnlock(t) ==
  /\ pc[t] = "unglobal"
  /\ ReleaseGlobal(t)
  /\ Goto(t, "unflock")
  /\ UNCHANGED <<file, flock, req, memoized, local, out, bump, histVars, faultVars>>

(* Mutant: the operation is forgotten although a memoized call goes on. *)
UnlockAndForget(t) ==
  /\ pc[t] = "unflock"
  /\ FlockUnlock(HandleOf[t])
  /\ Goto(t, IF t \in memoized /\ out[t] \in Falsy \cup {NoOutput}
             THEN "compute" ELSE "idle")
  /\ req' = [req EXCEPT ![t] = NoReq]
  /\ memoized' = memoized \ {t}
  /\ UNCHANGED <<file, writer, readers, local, out, bump, histVars, faultVars>>

(* (or (recall-memo ...) ...): null, false and nothing found are the same. *)
Unlock(t) ==
  /\ pc[t] = "unflock"
  /\ FlockUnlock(HandleOf[t])
  /\ Goto(t, IF t \in memoized /\ out[t] \in Falsy \cup {NoOutput}
             THEN "compute" ELSE "idle")
  /\ memoized' = memoized \ {t}
  /\ UNCHANGED <<file, writer, readers, req, local, out, bump, histVars, faultVars>>

(* The function that is memoized is called; its result is returned as it   *)
(* is, whatever store-memo meets in the file.                              *)
Compute(t) ==
  /\ pc[t] = "compute"
  /\ \E v \in Outputs :
       /\ req' = [req EXCEPT ![t] = [kind |-> "store", key |-> @.key, output |-> v]]
       /\ computed' = [computed EXCEPT ![req[t].key] = @ \cup {v}]
  /\ out' = [out EXCEPT ![t] = NoOutput]
  /\ Goto(t, "flock")
  /\ UNCHANGED <<file, lockVars, memoized, local, bump, ops, faultVars>>

-----------------------------------------------------------------------------
(* A process dies: the kernel drops its flocks, and a file it was writing  *)
(* stays as it is.                                                         *)
Crash(p) ==
  LET mine == {t \in Threads : ProcOf[t] = p}
      writing == {t \in mine : pc[t] = "write"}
  IN /\ \E t \in mine : pc[t] # "dead"
     /\ IF writing = {}
        THEN UNCHANGED <<file, faults>>
        ELSE /\ faults < MaxFaults
             /\ faults' = faults + 1
             /\ \E t \in writing : \E part \in CutShort(local[t]) : file' \in Overlaid(part)
     /\ overtaken' = overtaken \ mine
     /\ pc' = [t \in Threads |-> IF t \in mine THEN "dead" ELSE pc[t]]
     /\ flock' = [h \in Handles |->
                    IF \E t \in mine : HandleOf[t] = h THEN Free ELSE flock[h]]
     /\ writer' = [writer EXCEPT ![p] = NoThread]
     /\ readers' = [readers EXCEPT ![p] = {}]
     /\ req' = [t \in Threads |-> IF t \in mine THEN NoReq ELSE req[t]]
     /\ local' = [t \in Threads |-> IF t \in mine THEN <<>> ELSE local[t]]
     /\ memoized' = memoized \ mine
     /\ UNCHANGED <<out, bump, histVars>>

(* bumpLockfile, without the locks.  A file that does not parse, or whose  *)
(* functions fail, ends it.                                                *)
BumpRead ==
  /\ bump.pc = "idle"
  /\ \/ file.torn /\ bump' = [bump EXCEPT !.pc = "done"]
     \/ /\ ~file.torn /\ faults < MaxFaults
        /\ bump' = [pc |-> "call", memos |-> file.memos]
  /\ UNCHANGED <<file, lockVars, pc, req, memoized, local, out, histVars, faultVars>>

BumpCall ==
  /\ bump.pc = "call"
  /\ \E recomputed \in [Keys -> Outputs] :
       /\ bump' = [pc |-> "truncate", memos |-> Bumped(bump.memos, recomputed)]
       /\ computed' = [key \in Keys |-> IF Known(bump.memos, key) = {} THEN computed[key]
                                        ELSE computed[key] \cup {recomputed[key]}]
  /\ UNCHANGED <<file, lockVars, pc, req, memoized, local, out, ops, faultVars>>

(* A goroutine that is about to write does so all the same. *)
Overtake ==
  /\ faults' = faults + 1
  /\ overtaken' = overtaken \cup {t \in Threads : pc[t] \in {"truncate", "write"}}

BumpTruncate ==
  /\ bump.pc = "truncate"
  /\ faults < MaxFaults
  /\ file' = Empty
  /\ bump' = [bump EXCEPT !.pc = "write"]
  /\ Overtake
  /\ UNCHANGED <<lockVars, pc, req, memoized, local, out, histVars>>

(* Only part of the file may have been written when others look. *)
BumpWrite ==
  /\ bump.pc = "write"
  /\ \/ /\ file' \in Overlaid(Whole(bump.memos))
        /\ bump' = [pc |-> "done", memos |-> <<>>]
     \/ /\ faults < MaxFaults
        /\ file' \in CutShort(bump.memos)
        /\ file # file'
        /\ UNCHANGED bump
  /\ Overtake
  /\ UNCHANGED <<lockVars, pc, req, memoized, local, out, histVars>>

-----------------------------------------------------------------------------
Step(t) ==
  \/ Lock(t) \/ GlobalLock(t) \/ Load(t) \/ Truncate(t) \/ Write(t)
  \/ GlobalUnlock(t) \/ Unlock(t)

Next ==
  \/ \E t \in Threads : \/ Begin(t) \/ Step(t) \/ Compute(t)
                        \/ LockFails(t) \/ LoadFails(t) \/ WriteFails(t)
  \/ \E p \in Procs : Crash(p)
  \/ BumpRead \/ BumpCall \/ BumpTruncate \/ BumpWrite

Spec == Init /\ [][Next]_vars

(* Goroutines are scheduled.  With the operations bounded, a lock that is  *)
(* released again and again is eventually free for good, so that weak      *)
(* fairness is enough to get it.                                           *)
FairSpec == Spec /\ \A t \in Threads : WF_vars(Step(t) \/ WriteFails(t))

-----------------------------------------------------------------------------
Editing(t) == pc[t] \in {"load", "truncate", "write", "unglobal"}

(* Who edits the file is alone with it: no other operation, of this        *)
(* process or another, is between its locks and its unlocks meanwhile.     *)
WriterExclusive ==
  \A t, u \in Threads :
    t # u /\ Editing(t) /\ Editing(u) => Reads(t) /\ Reads(u)

(* Every output in the file was computed for the key it is stored under,   *)
(* by somebody at some time, whatever was cut short or overwritten.        *)
NothingInvented ==
  \A key \in Keys : Known(file.memos, key) \subseteq computed[key]

(* The lock file is the table of MemoTable.  A store or a removal takes    *)
(* effect when it truncates the file: from then on the table is what it is *)
(* going to write.                                                         *)
TableNow ==
  IF \E t \in Threads : pc[t] = "write"
  THEN AsTable(local[CHOOSE t \in Threads : pc[t] = "write"])
  ELSE AsTable(file.memos)

(* An operation that fails before it saves has returned as soon as that is *)
(* clear; what is left of it is to give up the locks.                      *)
Over(t) ==
  \/ pc[t] \in {"idle", "compute", "dead"}
  \/ pc[t] \in {"unglobal", "unflock"} /\ out[t] = Failed

Table == INSTANCE MemoTable WITH
  Clients <- Threads,
  table   <- TableNow,
  req     <- [t \in Threads |-> IF Over(t) THEN NoReq ELSE req[t]],
  effect  <- {t \in Threads : pc[t] \in {"write", "unglobal", "unflock"} /\ ~Over(t)},
  dead    <- {t \in Threads : pc[t] = "dead"}

(* Every operation of every goroutine takes effect once, at an instant     *)
(* between its call and its return, and in between faults nothing that was *)
(* stored is lost.                                                         *)
Linearizable == Table!Spec

(* The nesting of the two locks keeps no operation from ending: goroutines *)
(* that share a Lockfile get its flock together and wait for globalLock    *)
(* inside, while each that returns gives the flock up for all of them.     *)
Resting(t) == pc[t] \in {"idle", "compute", "dead"}

OperationsEnd == \A t \in Threads : ~Resting(t) ~> Resting(t)

(* "the cached response value is returned instead of making the call       *)
(* again": it is not when the cached value is null or false.               *)
HitsAreNotComputed ==
  [][\A t \in Threads : pc[t] = "unflock" /\ pc'[t] = "compute" => out[t] = NoOutput]_vars
=============================================================================
