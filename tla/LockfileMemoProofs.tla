------------------------- MODULE LockfileMemoProofs -------------------------
(***************************************************************************)
(* Mutual exclusion of the operations on a lock file, for any number of    *)
(* processes, goroutines and memos.  Within one process globalLock         *)
(* provides it, whoever shares a Lockfile; across processes the flock      *)
(* does, as long as every goroutine has a Lockfile of its own, which is    *)
(* how OpenMemos hands them out.                                           *)
(***************************************************************************)
EXTENDS LockfileMemo, MemoEditsProofs

OwnLockfiles == \A t, u \in Threads : HandleOf[t] = HandleOf[u] => t = u
OneProcess == \A t, u \in Threads : ProcOf[t] = ProcOf[u]

Locked == {"global", "load", "truncate", "write", "unglobal", "unflock"}

LockTypes ==
  /\ flock \in [Handles -> [l : BOOLEAN, r : BOOLEAN, mode : {"none", "sh", "ex"}]]
  /\ writer \in [Procs -> Threads \cup {NoThread}]
  /\ readers \in [Procs -> SUBSET Threads]
  /\ pc \in [Threads -> PCs]
  /\ req \in [Threads -> MemoReqs \cup {NoReq}]
  /\ \A t \in Threads : pc[t] \notin {"idle", "dead"} => req[t] \in MemoReqs

(* A goroutine between GlobalLock and GlobalUnlock holds the globalLock of *)
(* its process, in the mode of its operation.                              *)
GlobalHeld ==
  \A t \in Threads :
    Editing(t) => IF Reads(t)
                  THEN t \in readers[ProcOf[t]] /\ writer[ProcOf[t]] = NoThread
                  ELSE writer[ProcOf[t]] = t /\ readers[ProcOf[t]] = {}

(* A goroutine between Lock and Unlock holds the flock through its own     *)
(* handle, in the mode of its operation; outside of them the handle is     *)
(* free.                                                                   *)
FlockHeld ==
  \A t \in Threads :
    IF pc[t] \in Locked
    THEN flock[HandleOf[t]].mode = (IF Reads(t) THEN "sh" ELSE "ex")
    ELSE flock[HandleOf[t]] = Free

FlockExclusive ==
  \A g, h \in Handles : g # h /\ flock[g].mode = "ex" => flock[h].mode = "none"

WriterExclusiveInProcess ==
  \A t, u \in Threads :
    t # u /\ ProcOf[t] = ProcOf[u] /\ Editing(t) /\ Editing(u) => Reads(t) /\ Reads(u)

GInv == LockTypes /\ GlobalHeld
FInv == LockTypes /\ FlockHeld /\ FlockExclusive

USE LockfileAssumption

(* Nobody holds a globalLock at the start. *)
LEMMA InitG == Init => GInv
  BY DEF Init, GInv, LockTypes, GlobalHeld, Editing, PCs, Free

(* Nobody holds a flock at the start. *)
LEMMA InitF == Init => FInv
  BY DEF Init, FInv, LockTypes, FlockHeld, FlockExclusive, Locked, PCs, Free

-----------------------------------------------------------------------------
(* The start of an operation takes no lock. *)
LEMMA BeginLocks ==
  ASSUME NEW t \in Threads, LockTypes, Begin(t)
  PROVE  /\ LockTypes'
         /\ UNCHANGED lockVars
         /\ pc[t] = "idle" /\ pc' = [pc EXCEPT ![t] = "flock"]
         /\ \A u \in Threads \ {t} : req'[u] = req[u]
  <1>1. PICK r \in MemoReqs : req' = [req EXCEPT ![t] = r]
    BY DEF Begin
  <1>2. pc' \in [Threads -> PCs] /\ pc[t] = "idle" /\ pc' = [pc EXCEPT ![t] = "flock"]
    BY DEF Begin, Goto, LockTypes, PCs
  <1> QED
    BY <1>1, <1>2 DEF Begin, LockTypes, lockVars

(* The call of a memoized function takes no lock. *)
LEMMA ComputeLocks ==
  ASSUME NEW t \in Threads, LockTypes, Compute(t)
  PROVE  /\ LockTypes'
         /\ UNCHANGED lockVars
         /\ pc[t] = "compute" /\ pc' = [pc EXCEPT ![t] = "flock"]
         /\ \A u \in Threads \ {t} : req'[u] = req[u]
  <1>1. PICK v \in Outputs :
          req' = [req EXCEPT ![t] = [kind |-> "store", key |-> req[t].key, output |-> v]]
    BY DEF Compute
  <1>2. pc' \in [Threads -> PCs] /\ pc[t] = "compute" /\ pc' = [pc EXCEPT ![t] = "flock"]
    BY DEF Compute, Goto, LockTypes, PCs
  <1>3. req[t].key \in Keys
    BY <1>2 DEF LockTypes, MemoReqs
  <1>4. [kind |-> "store", key |-> req[t].key, output |-> v] \in MemoReqs
    BY <1>3 DEF MemoReqs
  <1> QED
    BY <1>1, <1>2, <1>4 DEF Compute, LockTypes, lockVars

(* The steps between the locks move the program counter and nothing else   *)
(* that the locks depend on.                                               *)
Inner(t) == Load(t) \/ LoadFails(t) \/ Truncate(t) \/ Write(t) \/ WriteFails(t)

(* Between the two locks and the two unlocks no lock changes hands. *)
LEMMA InnerLocks ==
  ASSUME NEW t \in Threads, LockTypes, Inner(t)
  PROVE  /\ LockTypes'
         /\ UNCHANGED <<lockVars, req>>
         /\ pc[t] \in {"load", "truncate", "write"}
         /\ \E s \in {"truncate", "write", "unglobal"} : pc' = [pc EXCEPT ![t] = s]
  <1>1. UNCHANGED <<lockVars, req>>
    BY DEF Inner, Load, LoadFails, Truncate, Write, WriteFails
  <1>2. /\ pc[t] \in {"load", "truncate", "write"}
        /\ \E s \in {"truncate", "write", "unglobal"} : pc' = [pc EXCEPT ![t] = s]
    BY DEF Inner, Load, LoadFails, Truncate, Write, WriteFails, Goto
  <1>3. pc' \in [Threads -> PCs]
    BY <1>2 DEF LockTypes, PCs
  <1> QED
    BY <1>1, <1>2, <1>3 DEF LockTypes, lockVars

(* An operation that does not get the flock leaves the locks alone. *)
LEMMA LockFailsLocks ==
  ASSUME NEW t \in Threads, LockTypes, LockFails(t)
  PROVE  /\ LockTypes'
         /\ UNCHANGED <<lockVars, req>>
         /\ pc[t] = "flock" /\ pc' = [pc EXCEPT ![t] = "idle"]
  BY DEF LockFails, Goto, LockTypes, PCs, lockVars

(* bump takes no lock. *)
Bumps == BumpRead \/ BumpCall \/ BumpTruncate \/ BumpWrite

(* Neither does any step of bump change a lock. *)
LEMMA BumpLocks ==
  ASSUME Bumps
  PROVE  UNCHANGED <<lockVars, pc, req>>
  BY DEF Bumps, BumpRead, BumpCall, BumpTruncate, BumpWrite

(* The actions, grouped by what they do to the locks. *)
LEMMA NextCases ==
  ASSUME Next
  PROVE  \/ \E t \in Threads : \/ Begin(t) \/ Compute(t) \/ Inner(t)
                               \/ Lock(t) \/ LockFails(t) \/ GlobalLock(t)
                               \/ GlobalUnlock(t) \/ Unlock(t)
         \/ \E p \in Procs : Crash(p)
         \/ Bumps
  BY DEF Next, Step, Inner, Bumps

-----------------------------------------------------------------------------
(* The locks keep their types. *)
LEMMA LockTypesNext ==
  ASSUME LockTypes, [Next]_vars
  PROVE  LockTypes'
  <1>1. ASSUME NEW t \in Threads, Lock(t) PROVE LockTypes'
    <2>1. flock' \in [Handles -> [l : BOOLEAN, r : BOOLEAN, mode : {"none", "sh", "ex"}]]
      <3> DEFINE h == HandleOf[t]
      <3>1. h \in Handles
        OBVIOUS
      <3>2. \/ UNCHANGED flock
            \/ flock' = [flock EXCEPT ![h] = [l |-> TRUE, r |-> flock[h].r, mode |-> "ex"]]
            \/ flock' = [flock EXCEPT ![h] = [l |-> flock[h].l, r |-> TRUE, mode |-> "sh"]]
        BY <1>1 DEF Lock, TakeFlock, FlockEx, FlockSh
      <3> DEFINE Own == [l : BOOLEAN, r : BOOLEAN, mode : {"none", "sh", "ex"}]
      <3>3. /\ [l |-> TRUE, r |-> flock[h].r, mode |-> "ex"] \in Own
            /\ [l |-> flock[h].l, r |-> TRUE, mode |-> "sh"] \in Own
        <4>1. flock[h] \in Own
          BY <3>1 DEF LockTypes
        <4> QED
          BY <4>1
      <3>4. flock \in [Handles -> Own]
        BY DEF LockTypes
      <3>5. flock' \in [Handles -> Own]
        <4> HIDE DEF Own, h
        <4> QED
          BY <3>1, <3>2, <3>3, <3>4
      <3> QED
        BY <3>5
    <2> QED
      BY <1>1, <2>1 DEF Lock, Goto, LockTypes, PCs
  <1>2. ASSUME NEW t \in Threads, GlobalLock(t) PROVE LockTypes'
    <2>1. /\ writer' \in [Procs -> Threads \cup {NoThread}]
          /\ readers' \in [Procs -> SUBSET Threads]
      <3>1. CASE Reads(t)
        BY <1>2, <3>1 DEF GlobalLock, TakeGlobal, LockTypes
      <3>2. CASE ~Reads(t)
        BY <1>2, <3>2 DEF GlobalLock, TakeGlobal, LockTypes
      <3> QED
        BY <3>1, <3>2
    <2> QED
      BY <1>2, <2>1 DEF GlobalLock, Goto, LockTypes, PCs
  <1>3. ASSUME NEW t \in Threads, GlobalUnlock(t) PROVE LockTypes'
    <2>1. /\ writer' \in [Procs -> Threads \cup {NoThread}]
          /\ readers' \in [Procs -> SUBSET Threads]
      <3>1. CASE Reads(t)
        BY <1>3, <3>1 DEF GlobalUnlock, ReleaseGlobal, LockTypes
      <3>2. CASE ~Reads(t)
        BY <1>3, <3>2 DEF GlobalUnlock, ReleaseGlobal, LockTypes
      <3> QED
        BY <3>1, <3>2
    <2> QED
      BY <1>3, <2>1 DEF GlobalUnlock, Goto, LockTypes, PCs
  <1>4. ASSUME NEW t \in Threads, Unlock(t) PROVE LockTypes'
    <2>1. flock' \in [Handles -> [l : BOOLEAN, r : BOOLEAN, mode : {"none", "sh", "ex"}]]
      BY <1>4 DEF Unlock, FlockUnlock, Free, LockTypes
    <2> QED
      BY <1>4, <2>1 DEF Unlock, Goto, LockTypes, PCs
  <1>5. ASSUME NEW p \in Procs, Crash(p) PROVE LockTypes'
    BY <1>5 DEF Crash, Free, LockTypes, PCs
  <1>6. ASSUME UNCHANGED <<lockVars, pc, req>> PROVE LockTypes'
    BY <1>6 DEF LockTypes, lockVars
  <1> QED
    BY <1>1, <1>2, <1>3, <1>4, <1>5, <1>6, NextCases, BeginLocks, ComputeLocks,
       InnerLocks, LockFailsLocks, BumpLocks DEF vars, lockVars

-----------------------------------------------------------------------------
(* Every step keeps globalLock with the goroutines that edit. *)
LEMMA GInvNext ==
  ASSUME GInv, [Next]_vars
  PROVE  GInv'
  <1> USE DEF GInv
  <1>0. LockTypes'
    BY LockTypesNext
  <1>1. ASSUME NEW t \in Threads, Begin(t) \/ Compute(t) PROVE GlobalHeld'
    BY <1>1, BeginLocks, ComputeLocks DEF GlobalHeld, Editing, Reads, lockVars, LockTypes
  <1>2. ASSUME NEW t \in Threads, Inner(t) PROVE GlobalHeld'
    BY <1>2, InnerLocks DEF GlobalHeld, Editing, Reads, lockVars, LockTypes
  <1>3. ASSUME NEW t \in Threads, Lock(t) \/ Unlock(t) PROVE GlobalHeld'
    BY <1>3 DEF Lock, Unlock, Goto, GlobalHeld, Editing, Reads, LockTypes
  <1>4. ASSUME NEW t \in Threads, GlobalLock(t) PROVE GlobalHeld'
    BY <1>4 DEF GlobalLock, TakeGlobal, Goto, GlobalHeld, Editing, Reads, LockTypes
  <1>5. ASSUME NEW t \in Threads, GlobalUnlock(t) PROVE GlobalHeld'
    BY <1>5 DEF GlobalUnlock, ReleaseGlobal, Goto, GlobalHeld, Editing, Reads, LockTypes
  <1>6. ASSUME NEW p \in Procs, Crash(p) PROVE GlobalHeld'
    BY <1>6 DEF Crash, GlobalHeld, Editing, Reads, LockTypes
  <1>7. ASSUME UNCHANGED <<lockVars, pc, req>> PROVE GlobalHeld'
    BY <1>7 DEF GlobalHeld, Editing, Reads, lockVars
  <1>8. ASSUME NEW t \in Threads, LockFails(t) PROVE GlobalHeld'
    BY <1>8, LockFailsLocks DEF GlobalHeld, Editing, Reads, lockVars, LockTypes
  <1> QED
    BY <1>0, <1>1, <1>2, <1>3, <1>4, <1>5, <1>6, <1>7, <1>8, NextCases, BumpLocks
    DEF vars, lockVars

(* Every step keeps the flock with the Lockfiles in use, if each has one   *)
(* user.                                                                   *)
LEMMA FInvNext ==
  ASSUME OwnLockfiles, FInv, [Next]_vars
  PROVE  FInv'
  <1> USE DEF FInv
  <1>0. LockTypes'
    BY LockTypesNext
  <1> DEFINE Goal == FlockHeld' /\ FlockExclusive'
  <1>1. ASSUME NEW t \in Threads, Begin(t) \/ Compute(t) PROVE Goal
    <2>1. /\ UNCHANGED flock
          /\ pc[t] \in {"idle", "compute"} /\ pc' = [pc EXCEPT ![t] = "flock"]
          /\ \A u \in Threads \ {t} : req'[u] = req[u]
      BY <1>1, BeginLocks, ComputeLocks DEF lockVars
    <2>2. \A u \in Threads : /\ pc'[u] \in Locked <=> pc[u] \in Locked
                             /\ pc[u] \in Locked => (Reads(u) <=> Reads(u)')
      BY <2>1 DEF Locked, Reads, LockTypes
    <2> QED
      BY <2>1, <2>2 DEF FlockHeld, FlockExclusive
  <1>2. ASSUME NEW t \in Threads, Inner(t) PROVE Goal
    <2>1. /\ UNCHANGED <<flock, req>>
          /\ pc[t] \in Locked
          /\ \E s \in Locked : pc' = [pc EXCEPT ![t] = s]
      BY <1>2, InnerLocks DEF lockVars, Locked
    <2> QED
      BY <2>1 DEF FlockHeld, FlockExclusive, Reads, LockTypes
  <1>3. ASSUME NEW t \in Threads, Lock(t) PROVE Goal
    <2>1. flock[HandleOf[t]] = Free
      BY <1>3 DEF Lock, FlockHeld, Locked
    <2>2. /\ \A g \in Handles \ {HandleOf[t]} :
               flock'[g] = flock[g] /\ flock[g].mode # "ex"
          /\ ~Reads(t) => \A g \in Handles \ {HandleOf[t]} : flock[g].mode = "none"
          /\ flock'[HandleOf[t]].mode = IF Reads(t) THEN "sh" ELSE "ex"
      BY <1>3, <2>1 DEF Lock, TakeFlock, FlockEx, FlockSh, Free, LockTypes
    <2>3. FlockHeld'
      BY <1>3, <2>2 DEF Lock, Goto, OwnLockfiles, FlockHeld, Locked, Reads, LockTypes
    <2>4. FlockExclusive'
      BY <2>2 DEF FlockExclusive
    <2> QED
      BY <2>3, <2>4
  <1>4. ASSUME NEW t \in Threads, Unlock(t) PROVE Goal
    BY <1>4
    DEF Unlock, FlockUnlock, Free, Goto, OwnLockfiles, FlockHeld, FlockExclusive, Locked,
        Reads, LockTypes
  <1>5. ASSUME NEW t \in Threads, GlobalLock(t) \/ GlobalUnlock(t) PROVE Goal
    BY <1>5 DEF GlobalLock, GlobalUnlock, Goto, FlockHeld, FlockExclusive, Locked, Reads,
                LockTypes
  <1>6. ASSUME NEW p \in Procs, Crash(p) PROVE Goal
    <2>1. \A t \in Threads : IF ProcOf[t] = p THEN pc'[t] = "dead"
                                              ELSE pc'[t] = pc[t] /\ req'[t] = req[t]
      BY <1>6 DEF Crash
    <2>2. \A h \in Handles : \/ flock'[h] = Free
                             \/ /\ flock'[h] = flock[h]
                                /\ \A t \in Threads : ProcOf[t] = p => HandleOf[t] # h
      BY <1>6 DEF Crash
    <2>3. \A t \in Threads : flock'[HandleOf[t]] = IF ProcOf[t] = p THEN Free
                                                   ELSE flock[HandleOf[t]]
      BY <1>6 DEF Crash
    <2>4. FlockHeld'
      BY <2>1, <2>3 DEF FlockHeld, Locked, Reads
    <2>5. FlockExclusive'
      BY <2>2 DEF FlockExclusive, Free
    <2> QED
      BY <2>4, <2>5
  <1>7. ASSUME UNCHANGED <<lockVars, pc, req>> PROVE Goal
    BY <1>7 DEF FlockHeld, FlockExclusive, Locked, Reads, lockVars
  <1>8. ASSUME NEW t \in Threads, LockFails(t) PROVE Goal
    <2>1. /\ UNCHANGED <<flock, req>>
          /\ pc[t] = "flock" /\ pc' = [pc EXCEPT ![t] = "idle"]
      BY <1>8 DEF LockFails, Goto, lockVars
    <2>2. \A u \in Threads : pc'[u] \in Locked <=> pc[u] \in Locked
      BY <2>1 DEF Locked, LockTypes
    <2> QED
      BY <2>1, <2>2 DEF FlockHeld, FlockExclusive, Reads
  <1> QED
    BY <1>0, <1>1, <1>2, <1>3, <1>4, <1>5, <1>6, <1>7, <1>8, NextCases, BumpLocks
    DEF vars, lockVars

-----------------------------------------------------------------------------
(* memo.go: whoever is between the locks and the unlocks of an operation   *)
(* holds the globalLock of its process in the right mode, even after       *)
(* another process died.                                                   *)
THEOREM GlobalInvariant == Spec => []GInv
  BY InitG, GInvNext, PTL DEF Spec

(* memo.go: whoever is between the flock and the unflock of an operation   *)
(* holds the flock of the file in the right mode, and nobody holds it      *)
(* otherwise, if no two goroutines share a Lockfile.                       *)
THEOREM FlockInvariant == ASSUME OwnLockfiles PROVE Spec => []FInv
  BY InitF, FInvNext, PTL DEF Spec

(* Within a process, an operation that edits the lock file excludes every  *)
(* other one, even if goroutines share a Lockfile and with it its flock.   *)
THEOREM ExclusiveInProcess == Spec => []WriterExclusiveInProcess
  <1>1. GInv => WriterExclusiveInProcess
    BY DEF GInv, GlobalHeld, WriterExclusiveInProcess
  <1> QED
    BY <1>1, GlobalInvariant, PTL

(* Lockfile.Store, Retrieve and Remove: whoever edits the file is alone    *)
(* with it, if goroutines do not share Lockfiles or are of one process.    *)
THEOREM ExclusiveWriter ==
  ASSUME OwnLockfiles \/ OneProcess
  PROVE  Spec => []WriterExclusive
  <1>1. CASE OwnLockfiles
    <2>1. FInv => WriterExclusive
      BY <1>1 DEF FInv, FlockHeld, FlockExclusive, WriterExclusive, Editing, Locked,
                          OwnLockfiles
    <2> QED
      BY <1>1, <2>1, FlockInvariant, PTL
  <1>2. CASE OneProcess
    <2>1. GInv => WriterExclusive
      BY <1>2 DEF GInv, GlobalHeld, WriterExclusive, OneProcess
    <2> QED
      BY <2>1, GlobalInvariant, PTL
  <1> QED
    BY <1>1, <1>2

-----------------------------------------------------------------------------
(* The contents on disk and in memory, and where they come from. *)
Files == [memos : Content, torn : BOOLEAN]

DataTypes ==
  /\ file \in Files
  /\ local \in [Threads -> Content]
  /\ bump \in [pc : {"idle", "call", "truncate", "write", "done"}, memos : Content]
  /\ memoized \in SUBSET Threads
  /\ out \in [Threads -> Outputs \cup {NoOutput, Failed}]
  /\ ops \in [Threads -> 0..MaxOps]
  /\ computed \in [Keys -> SUBSET Outputs]
  /\ overtaken \in SUBSET Threads
  /\ faults \in Nat

(* Every output on disk, about to be written or about to be stored was     *)
(* computed for its key.                                                   *)
Computed(content) == \A key \in Keys : Known(content, key) \subseteq computed[key]

KnownInv ==
  /\ Computed(file.memos)
  /\ \A t \in Threads : Computed(local[t])
  /\ Computed(bump.memos)
  /\ \A t \in Threads : req[t] \in MemoReqs /\ req[t].kind = "store" =>
                          req[t].output \in computed[req[t].key]

MInv == LockTypes /\ DataTypes /\ KnownInv

(* A write that is cut short puts part of the content on disk. *)
LEMMA CutShortFacts ==
  ASSUME NEW content \in Content, NEW part \in CutShort(content)
  PROVE  part \in Files /\ \A k \in Keys : Known(part.memos, k) \subseteq Known(content, k)
<1>1. CASE part = Whole(<<>>)
  BY <1>1, KnownEmpty DEF Whole, Files, Content
<1>2. ASSUME NEW n \in 0..(Len(content) - 1), NEW torn \in BOOLEAN,
             part = [memos |-> SubSeq(content, 1, n), torn |-> torn]
      PROVE  part \in Files
             /\ \A k \in Keys : Known(part.memos, k) \subseteq Known(content, k)
  <2>1. n \in Int /\ n <= Len(content)
    BY ContentTypes
  <2>2. ASSUME NEW k \in Keys
        PROVE  Known(SubSeq(content, 1, n), k) \subseteq Known(content, k)
    <3>1. 1 \in Int /\ 1 <= 1
      OBVIOUS
    <3> QED
      BY <2>1, <3>1, KnownSubSeq
  <2>3. SubSeq(content, 1, n) \in Content
    BY <2>1, ContentTypes, SubSeqProperties DEF Content
  <2> QED
    BY <1>2, <2>2, <2>3 DEF Files
<1> QED
  BY <1>1, <1>2 DEF CutShort

(* A write may leave what was on disk behind what it writes. *)
LEMMA OverlaidFacts ==
  ASSUME file \in Files, NEW part \in Files, NEW f \in Overlaid(part)
  PROVE  /\ f \in Files
         /\ \A k \in Keys : Known(f.memos, k)
                              \subseteq Known(part.memos, k) \cup Known(file.memos, k)
<1>1. CASE f = part
  BY <1>1
<1>2. ASSUME NEW n \in 2..(Len(file.memos) + 1), NEW torn \in BOOLEAN,
             f = Before(part, n, torn)
      PROVE  /\ f \in Files
             /\ \A k \in Keys : Known(f.memos, k)
                                  \subseteq Known(part.memos, k) \cup Known(file.memos, k)
  <2> DEFINE old == file.memos
             rest == SubSeq(old, n, Len(old))
  <2>1. old \in Content /\ part.memos \in Content
    BY DEF Files
  <2> HIDE DEF old
  <2>2. n \in Int /\ 1 <= n /\ Len(old) \in Int /\ Len(old) <= Len(old)
    BY <2>1, ContentTypes DEF old
  <2>3. rest \in Content
    BY <2>1, <2>2, SubSeqProperties DEF Content
  <2>4. \A k \in Keys : Known(rest, k) \subseteq Known(old, k)
    BY <2>1, <2>2, KnownSubSeq
  <2>5. f.memos = part.memos \o rest /\ f = [memos |-> part.memos \o rest, torn |-> torn]
    BY <1>2 DEF old, Before
  <2> HIDE DEF rest
  <2>6. part.memos \o rest \in Content
    BY <2>1, <2>3, ConcatProperties DEF Content
  <2>7. \A k \in Keys : Known(part.memos \o rest, k)
                          \subseteq Known(part.memos, k) \cup Known(rest, k)
    BY <2>1, <2>3, KnownConcat
  <2>8. f \in Files
    BY <2>5, <2>6 DEF Files
  <2> QED
    BY <2>4, <2>5, <2>7, <2>8 DEF old
<1>3. CASE file = Empty \/ part.torn
  <2>1. Overlaid(part) = {part}
    BY <1>3 DEF Overlaid
  <2> HIDE DEF Overlaid
  <2>2. f = part
    BY <2>1
  <2> QED
    BY <1>1, <2>2
<1>4. CASE ~ (file = Empty \/ part.torn)
  <2>1. \E n \in 2..(Len(file.memos) + 1), torn \in BOOLEAN : f = Before(part, n, torn)
    BY <1>4 DEF Overlaid
  <2> QED
    BY <1>2, <2>1
<1> QED
  BY <1>3, <1>4

(* The contents at the start are of the right type and known. *)
LEMMA InitM == Init => MInv
<1> SUFFICES ASSUME Init PROVE MInv
  OBVIOUS
<1>1. PICK content \in Contents :
        /\ file = [memos |-> content, torn |-> FALSE]
        /\ computed = [key \in Keys |-> Known(content, key)]
  BY DEF Init
<1>2. content \in Content /\ <<>> \in Content
  BY MemoAssumption DEF Content
<1>3. \A key \in Keys : Known(content, key) \in SUBSET Outputs
  BY DEF Known
<1>4. LockTypes
  BY InitG DEF GInv
<1>5. DataTypes
  BY <1>1, <1>2, <1>3 DEF Init, DataTypes, Files
<1>6. KnownInv
  BY <1>1, KnownEmpty DEF Init, KnownInv, Computed
<1> QED
  BY <1>4, <1>5, <1>6 DEF MInv

(* What an operation writes back is a content of known outputs. *)
LEMMA EditedFacts ==
  ASSUME MInv, NEW t \in Threads, req[t] \in MemoReqs, ~Reads(t)
  PROVE  Edited(t) \in Content /\ Computed(Edited(t))
<1> USE DEF MInv
<1>1. file.memos \in Content /\ Computed(file.memos)
  BY DEF DataTypes, Files, KnownInv
<1>2. CASE req[t].kind = "store"
  <2> DEFINE key == req[t].key
             o == req[t].output
  <2>1. key \in Keys /\ o \in Outputs /\ o \in computed[key]
    BY <1>2 DEF MemoReqs, KnownInv
  <2>2. Edited(t) = StoredIn(file.memos, key, o)
    BY <1>2 DEF Edited
  <2> HIDE DEF key, o
  <2>3. StoredIn(file.memos, key, o) \in Content
    BY <1>1, <2>1, StoredInFacts
  <2>4. \A k \in Keys : Known(StoredIn(file.memos, key, o), k)
                          \subseteq Known(file.memos, k) \cup (IF k = key THEN {o} ELSE {})
    BY <1>1, <2>1, KnownStored
  <2> QED
    BY <1>1, <2>1, <2>2, <2>3, <2>4 DEF Computed
<1>3. CASE req[t].kind # "store"
  <2> DEFINE key == req[t].key
  <2>1. key \in Keys
    BY DEF MemoReqs
  <2>2. Edited(t) = RemovedFrom(file.memos, key)
    BY <1>3 DEF Edited
  <2> HIDE DEF key
  <2>3. /\ RemovedFrom(file.memos, key) \in Content
        /\ \A k \in Keys : Known(RemovedFrom(file.memos, key), k) \subseteq Known(file.memos, k)
    BY <1>1, <2>1, MemosWithoutFacts, KnownRemoved
  <2> QED
    BY <1>1, <2>2, <2>3 DEF Computed
<1> QED
  BY <1>2, <1>3

(* Every step keeps the types and invents nothing. *)
LEMMA MInvNext ==
  ASSUME MInv, [Next]_vars
  PROVE  MInv'
<1> USE DEF MInv
<1> DEFINE Goal == DataTypes' /\ KnownInv'
<1>0. LockTypes'
  BY LockTypesNext
<1>1. ASSUME NEW t \in Threads, Begin(t) PROVE Goal
  <2>1. PICK r \in MemoReqs, asMemo \in BOOLEAN :
          /\ req' = [req EXCEPT ![t] = r]
          /\ memoized' = IF asMemo THEN memoized \cup {t} ELSE memoized \ {t}
          /\ computed' = IF r.kind = "store"
                         THEN [computed EXCEPT ![r.key] = @ \cup {r.output}] ELSE computed
    BY <1>1 DEF Begin
  <2>2. r.key \in Keys /\ (r.kind = "store" => r.output \in Outputs)
    BY DEF MemoReqs
  <2>3. UNCHANGED <<file, local, bump, overtaken, faults>>
        /\ out' = [out EXCEPT ![t] = NoOutput]
        /\ ops[t] < MaxOps /\ ops' = [ops EXCEPT ![t] = ops[t] + 1]
    BY <1>1 DEF Begin, faultVars
  <2>4. ops' \in [Threads -> 0..MaxOps]
    BY <2>3 DEF DataTypes
  <2>5. computed' \in [Keys -> SUBSET Outputs]
        /\ \A k \in Keys : computed[k] \subseteq computed'[k]
    BY <2>1, <2>2 DEF DataTypes
  <2>6. DataTypes'
    BY <2>1, <2>3, <2>4, <2>5 DEF DataTypes
  <2>7. r.kind = "store" => r.output \in computed'[r.key]
    BY <2>1, <2>2 DEF DataTypes
  <2>8. ASSUME NEW u \in Threads, req'[u] \in MemoReqs, req'[u].kind = "store"
        PROVE  req'[u].output \in computed'[req'[u].key]
    <3>1. CASE u = t
      BY <2>1, <2>7, <2>8, <3>1 DEF LockTypes
    <3>2. CASE u # t
      <4>1. req'[u] = req[u] /\ req[u].key \in Keys
        BY <2>1, <2>8, <3>2 DEF LockTypes, MemoReqs
      <4> QED
        BY <2>5, <2>8, <4>1 DEF KnownInv
    <3> QED
      BY <3>1, <3>2
  <2>9. KnownInv'
    BY <2>3, <2>5, <2>8 DEF KnownInv, Computed
  <2> QED
    BY <2>6, <2>9
<1>2. ASSUME NEW t \in Threads, Compute(t) PROVE Goal
  <2>1. PICK v \in Outputs :
          /\ req' = [req EXCEPT ![t] = [kind |-> "store", key |-> req[t].key, output |-> v]]
          /\ computed' = [computed EXCEPT ![req[t].key] = @ \cup {v}]
    BY <1>2 DEF Compute
  <2>2. req[t] \in MemoReqs /\ req[t].key \in Keys
    BY <1>2 DEF Compute, LockTypes, MemoReqs
  <2>3. UNCHANGED <<file, local, bump, overtaken, faults, ops, memoized>>
        /\ out' = [out EXCEPT ![t] = NoOutput]
    BY <1>2 DEF Compute, faultVars
  <2>4. computed' \in [Keys -> SUBSET Outputs]
        /\ \A k \in Keys : computed[k] \subseteq computed'[k]
    BY <2>1, <2>2 DEF DataTypes
  <2>5. DataTypes'
    BY <2>3, <2>4 DEF DataTypes
  <2>6. v \in computed'[req[t].key]
    BY <2>1, <2>2 DEF DataTypes
  <2>7. ASSUME NEW u \in Threads, req'[u] \in MemoReqs, req'[u].kind = "store"
        PROVE  req'[u].output \in computed'[req'[u].key]
    <3>1. CASE u = t
      <4>1. req'[u] = [kind |-> "store", key |-> req[t].key, output |-> v]
        BY <2>1, <3>1 DEF LockTypes
      <4> QED
        BY <2>6, <4>1
    <3>2. CASE u # t
      <4>1. req'[u] = req[u] /\ req[u].key \in Keys
        BY <2>1, <2>7, <3>2 DEF LockTypes, MemoReqs
      <4> QED
        BY <2>4, <2>7, <4>1 DEF KnownInv
    <3> QED
      BY <3>1, <3>2
  <2>8. KnownInv'
    BY <2>3, <2>4, <2>7 DEF KnownInv, Computed
  <2> QED
    BY <2>5, <2>8
<1>3. ASSUME NEW t \in Threads, Lock(t) \/ GlobalLock(t) \/ GlobalUnlock(t) PROVE Goal
  <2>1. UNCHANGED <<file, local, bump, memoized, out, ops, computed, overtaken, faults, req>>
    BY <1>3 DEF Lock, GlobalLock, GlobalUnlock, histVars, faultVars
  <2> QED
    BY <2>1 DEF DataTypes, KnownInv, Computed
<1>4. ASSUME NEW t \in Threads, Unlock(t) PROVE Goal
  <2>1. UNCHANGED <<file, local, bump, out, ops, computed, overtaken, faults, req>>
        /\ memoized' = memoized \ {t}
    BY <1>4 DEF Unlock, histVars, faultVars
  <2> QED
    BY <2>1 DEF DataTypes, KnownInv, Computed
<1>5. ASSUME NEW t \in Threads, Load(t) PROVE Goal
  <2>1. req[t] \in MemoReqs /\ req[t].key \in Keys /\ file.memos \in Content
    BY <1>5 DEF Load, LockTypes, MemoReqs, DataTypes, Files
  <2>2. UNCHANGED <<file, bump, memoized, ops, computed, overtaken, faults, req>>
    BY <1>5 DEF Load, histVars, faultVars
  <2>3. CASE Reads(t)
    <3>1. UNCHANGED local /\ out' = [out EXCEPT ![t] = Retrieved(file.memos, req[t].key)]
      BY <1>5, <2>3 DEF Load
    <3>2. Retrieved(file.memos, req[t].key) \in Outputs \cup {NoOutput}
      BY <2>1, RetrievedTypes
    <3> QED
      BY <2>2, <3>1, <3>2 DEF DataTypes, KnownInv, Computed
  <2>4. CASE ~Reads(t)
    <3>1. UNCHANGED out /\ local' = [local EXCEPT ![t] = Edited(t)]
      BY <1>5, <2>4 DEF Load
    <3>2. Edited(t) \in Content /\ Computed(Edited(t))
      BY <2>1, <2>4, EditedFacts
    <3> HIDE DEF MInv
    <3>3. MInv
      OBVIOUS
    <3>4. DataTypes'
      BY <2>2, <3>1, <3>2, <3>3 DEF MInv, DataTypes
    <3>5. \A u \in Threads : Computed(local'[u])
      BY <3>1, <3>2, <3>3 DEF MInv, DataTypes, KnownInv
    <3>6. KnownInv'
      BY <2>2, <3>3, <3>5 DEF MInv, KnownInv, Computed
    <3> QED
      BY <3>4, <3>6
  <2> QED
    BY <2>3, <2>4
<1>6. ASSUME file' \in Files, Computed(file'.memos),
             local' \in [Threads -> Content],
             \A u \in Threads : local'[u] = local[u] \/ local'[u] = <<>>,
             bump' \in [pc : {"idle", "call", "truncate", "write", "done"}, memos : Content],
             bump'.memos = bump.memos \/ bump'.memos = <<>>,
             UNCHANGED <<out, ops, computed>>,
             memoized' \in SUBSET memoized, overtaken' \in SUBSET Threads, faults' \in Nat,
             \A u \in Threads : req'[u] = req[u] \/ req'[u] = NoReq
      PROVE  Goal
  <2>1. <<>> \in Content /\ Computed(<<>>)
    BY KnownEmpty DEF Computed, Content
  <2>2. DataTypes'
    BY <1>6 DEF DataTypes
  <2>3. KnownInv'
    BY <1>6, <2>1 DEF KnownInv, Computed
  <2> QED
    BY <2>2, <2>3
<1>7. Empty \in Files /\ Computed(Empty.memos) /\ <<>> \in Content
  BY KnownEmpty DEF Empty, Files, Computed, Content
<1>8. ASSUME NEW content \in Content, Computed(content), NEW part \in CutShort(content),
             NEW f \in Overlaid(part)
      PROVE  f \in Files /\ Computed(f.memos)
  BY <1>8, CutShortFacts, OverlaidFacts DEF Computed, DataTypes, KnownInv
<1>9. ASSUME NEW content \in Content, Computed(content), NEW f \in Overlaid(Whole(content))
      PROVE  f \in Files /\ Computed(f.memos)
  <2>1. Whole(content) \in Files /\ Whole(content).memos = content
    BY DEF Whole, Files
  <2> QED
    BY <1>9, <2>1, OverlaidFacts DEF Computed, DataTypes, KnownInv
<1>10. \A t \in Threads : local[t] \in Content /\ Computed(local[t])
  BY DEF DataTypes, KnownInv
<1>11. bump.memos \in Content /\ Computed(bump.memos) /\ faults + 1 \in Nat
  BY DEF DataTypes, KnownInv
<1>12. ASSUME NEW t \in Threads, Truncate(t) \/ Write(t) \/ WriteFails(t) PROVE Goal
  <2>1. UNCHANGED <<bump, memoized, out, ops, computed, req>>
        /\ faults' \in Nat /\ overtaken' \in SUBSET Threads
    BY <1>12 DEF Truncate, Write, WriteFails, CatchUp, histVars, DataTypes
  <2>2. /\ local' \in [Threads -> Content]
        /\ \A u \in Threads : local'[u] = local[u] \/ local'[u] = <<>>
    <3>1. local' = local \/ local' = [local EXCEPT ![t] = <<>>]
      BY <1>12 DEF Truncate, Write, WriteFails
    <3>2. local \in [Threads -> Content]
      BY DEF DataTypes
    <3> QED
      BY <1>7, <3>1, <3>2
  <2>3. \/ file' = Empty
        \/ file' \in Overlaid(Whole(local[t]))
        \/ \E part \in CutShort(local[t]) : file' \in Overlaid(part)
    BY <1>12 DEF Truncate, Write, WriteFails
  <2>4. file' \in Files /\ Computed(file'.memos)
    BY <1>7, <1>8, <1>9, <1>10, <2>3
  <2>5. bump' \in [pc : {"idle", "call", "truncate", "write", "done"}, memos : Content]
    BY <2>1 DEF DataTypes
  <2> HIDE DEF Goal
  <2> QED
    BY <1>6, <2>1, <2>2, <2>4, <2>5
<1>13. ASSUME NEW p \in Procs, Crash(p) PROVE Goal
  <2>1. /\ UNCHANGED <<bump, out, ops, computed>>
        /\ memoized' \in SUBSET memoized /\ overtaken' \in SUBSET Threads
        /\ \A u \in Threads : req'[u] = req[u] \/ req'[u] = NoReq
        /\ local' \in [Threads -> Content]
        /\ \A u \in Threads : local'[u] = local[u] \/ local'[u] = <<>>
    BY <1>7, <1>13 DEF Crash, histVars, DataTypes
  <2>2. \/ UNCHANGED <<file, faults>>
        \/ /\ faults' = faults + 1
           /\ \E t \in Threads : \E part \in CutShort(local[t]) : file' \in Overlaid(part)
    BY <1>13 DEF Crash
  <2>3. file' \in Files /\ Computed(file'.memos) /\ faults' \in Nat
    BY <1>8, <1>10, <2>2 DEF DataTypes, KnownInv
  <2>4. /\ bump' \in [pc : {"idle", "call", "truncate", "write", "done"}, memos : Content]
        /\ bump'.memos = bump.memos
        /\ UNCHANGED <<out, ops, computed>>
    BY <2>1 DEF DataTypes
  <2> HIDE DEF Goal
  <2> QED
    BY <1>6, <2>1, <2>3, <2>4
<1>14. ASSUME BumpRead PROVE Goal
  <2>1. UNCHANGED <<file, local, memoized, out, ops, computed, overtaken, faults, req>>
    BY <1>14 DEF BumpRead, histVars, faultVars
  <2>2. bump' = [bump EXCEPT !.pc = "done"] \/ bump' = [pc |-> "call", memos |-> file.memos]
    BY <1>14 DEF BumpRead
  <2> QED
    BY <2>1, <2>2 DEF DataTypes, Files, KnownInv, Computed
<1>15. ASSUME BumpCall PROVE Goal
  <2>1. PICK recomputed \in [Keys -> Outputs] :
          /\ bump' = [pc |-> "truncate", memos |-> Bumped(bump.memos, recomputed)]
          /\ computed' = [key \in Keys |-> IF Known(bump.memos, key) = {} THEN computed[key]
                                           ELSE computed[key] \cup {recomputed[key]}]
    BY <1>15 DEF BumpCall
  <2>2. UNCHANGED <<file, local, memoized, out, ops, overtaken, faults, req>>
    BY <1>15 DEF BumpCall, faultVars
  <2>3. Bumped(bump.memos, recomputed) \in Content
    BY <1>11, BumpedFacts
  <2>4. computed' \in [Keys -> SUBSET Outputs]
        /\ \A k \in Keys : computed[k] \subseteq computed'[k]
    BY <2>1 DEF DataTypes
  <2>5. \A k \in Keys : Known(Bumped(bump.memos, recomputed), k) \subseteq computed'[k]
    BY <1>11, <2>1, KnownBumped
  <2>6. DataTypes'
    BY <2>1, <2>2, <2>3, <2>4 DEF DataTypes
  <2>7. Computed(bump.memos)'
    BY <2>1, <2>5 DEF Computed
  <2>8. \A u \in Threads : req[u] \in MemoReqs => req[u].key \in Keys
    BY DEF MemoReqs
  <2>9. KnownInv'
    BY <2>2, <2>4, <2>7, <2>8 DEF KnownInv, Computed
  <2> QED
    BY <2>6, <2>9
<1>16. ASSUME BumpTruncate \/ BumpWrite PROVE Goal
  <2>1. UNCHANGED <<local, memoized, out, ops, computed, req>>
        /\ faults' \in Nat /\ overtaken' \in SUBSET Threads
    BY <1>16 DEF BumpTruncate, BumpWrite, Overtake, histVars, DataTypes
  <2>2. \/ file' = Empty
        \/ file' \in Overlaid(Whole(bump.memos))
        \/ file' \in CutShort(bump.memos)
    BY <1>16 DEF BumpTruncate, BumpWrite
  <2>3. file' \in Files /\ Computed(file'.memos)
    BY <1>7, <1>9, <1>11, <2>2, CutShortFacts DEF Computed
  <2>4. \/ bump' = [bump EXCEPT !.pc = "write"]
        \/ bump' = [pc |-> "done", memos |-> <<>>]
        \/ UNCHANGED bump
    BY <1>16 DEF BumpTruncate, BumpWrite
  <2>5. /\ bump' \in [pc : {"idle", "call", "truncate", "write", "done"}, memos : Content]
        /\ bump'.memos = bump.memos \/ bump'.memos = <<>>
    BY <1>7, <2>4 DEF DataTypes
  <2>6. /\ local' \in [Threads -> Content]
        /\ \A u \in Threads : local'[u] = local[u] \/ local'[u] = <<>>
        /\ memoized' \in SUBSET memoized
        /\ \A u \in Threads : req'[u] = req[u] \/ req'[u] = NoReq
        /\ UNCHANGED <<out, ops, computed>>
    BY <2>1 DEF DataTypes
  <2> HIDE DEF Goal
  <2> QED
    BY <1>6, <2>1, <2>3, <2>5, <2>6
<1>19. ASSUME NEW t \in Threads, LockFails(t) \/ LoadFails(t) PROVE Goal
  <2>1. UNCHANGED <<file, local, bump, ops, computed, overtaken, faults, req>>
        /\ out' = [out EXCEPT ![t] = Failed] /\ memoized' \in SUBSET memoized
    BY <1>19 DEF LockFails, LoadFails, histVars, faultVars
  <2> QED
    BY <2>1 DEF DataTypes, KnownInv, Computed
<1>17. ASSUME UNCHANGED vars PROVE Goal
  BY <1>17 DEF vars, histVars, faultVars, DataTypes, KnownInv, Computed
<1> HIDE DEF Goal
<1>18. Goal
  <2>1. CASE Next
    BY <1>1, <1>2, <1>3, <1>4, <1>5, <1>12, <1>13, <1>14, <1>15, <1>16, <1>19, <2>1
    DEF Next, Step
  <2> QED
    BY <1>17, <2>1
<1> QED
  BY <1>0, <1>18 DEF Goal

(* The types, for any number of goroutines and memos. *)
THEOREM TypeCorrect == Spec => []TypeOK
<1>1. MInv => TypeOK
  BY DEF MInv, LockTypes, DataTypes, Files, TypeOK
<1> QED
  BY <1>1, InitM, MInvNext, PTL DEF Spec

(* memo.go and bump.go: whatever crashes, fails or overtakes whom, what    *)
(* the file has under a key was computed for that key.                     *)
THEOREM NothingIsInvented == Spec => []NothingInvented
<1>1. MInv => NothingInvented
  BY DEF MInv, KnownInv, Computed, NothingInvented
<1> QED
  BY <1>1, InitM, MInvNext, PTL DEF Spec

-----------------------------------------------------------------------------
(* Linearizability.  A goroutine that no bump overtook writes what it made *)
(* of the very file it truncates, and writes it over an empty one; only    *)
(* stores and removals get that far.                                       *)
EditInv ==
  \A t \in Threads :
    /\ pc[t] = "truncate" /\ t \notin overtaken => local[t] = Edited(t)
    /\ pc[t] = "write" /\ t \notin overtaken => file = Empty
    /\ pc[t] \in {"truncate", "write"} => ~Reads(t)

(* Before it has saved, an operation that is under way has not failed. *)
OutInv ==
  \A t \in Threads :
    pc[t] \in {"flock", "global", "load", "truncate", "write"} => out[t] # Failed

LInv == MInv /\ EditInv /\ OutInv /\ WriterExclusive

(* TableNow, of any state: the table a goroutine is about to write, or the *)
(* one on disk.                                                            *)
TableOf(pcs, locals, content) ==
  IF \E t \in Threads : pcs[t] = "write"
  THEN AsTable(locals[CHOOSE t \in Threads : pcs[t] = "write"])
  ELSE AsTable(content)

Tables == [Keys -> Outputs \cup {NoOutput}]

(* TableNow depends on the program counters, on what is to be written and  *)
(* on the file.                                                            *)
LEMMA TableNowFacts ==
  /\ TableNow = TableOf(pc, local, file.memos)
  /\ TableNow' = TableOf(pc', local', file'.memos)
BY DEF TableNow, TableOf

(* The table is always one. *)
LEMMA TableTypes ==
  ASSUME NEW pcs, NEW locals \in [Threads -> Content], NEW content \in Content
  PROVE  TableOf(pcs, locals, content) \in Tables
<1>1. ASSUME NEW c \in Content PROVE AsTable(c) \in Tables
  BY RetrievedTypes DEF AsTable, Tables
<1>2. CASE \E t \in Threads : pcs[t] = "write"
  <2> DEFINE w == CHOOSE t \in Threads : pcs[t] = "write"
  <2>1. w \in Threads
    BY <1>2
  <2>2. TableOf(pcs, locals, content) = AsTable(locals[w])
    BY <1>2 DEF TableOf
  <2> HIDE DEF w
  <2>3. locals[w] \in Content
    BY <2>1
  <2> QED
    BY <1>1, <2>2, <2>3
<1>3. CASE ~ \E t \in Threads : pcs[t] = "write"
  BY <1>1, <1>3 DEF TableOf
<1> QED
  BY <1>2, <1>3

(* A goroutine that is alone in writing determines the table. *)
LEMMA OneWriter ==
  ASSUME NEW pcs, NEW locals, NEW content, NEW t \in Threads,
         pcs[t] = "write", \A u \in Threads \ {t} : pcs[u] # "write"
  PROVE  TableOf(pcs, locals, content) = AsTable(locals[t])
<1> DEFINE w == CHOOSE u \in Threads : pcs[u] = "write"
<1>1. w \in Threads /\ pcs[w] = "write"
  OBVIOUS
<1>2. w = t
  BY <1>1
<1> QED
  BY <1>2 DEF TableOf

(* When nobody writes, the file does. *)
LEMMA NoWriter ==
  ASSUME NEW pcs, NEW locals, NEW content, \A u \in Threads : pcs[u] # "write"
  PROVE  TableOf(pcs, locals, content) = AsTable(content)
BY DEF TableOf

(* Who edits and does not only read is alone. *)
LEMMA EditsAlone ==
  ASSUME LInv, NEW t \in Threads, Editing(t)
  PROVE  /\ \A u \in Threads \ {t} : pc[u] \notin {"truncate", "write"}
         /\ ~Reads(t) => \A u \in Threads \ {t} : ~Editing(u)
BY DEF LInv, EditInv, WriterExclusive, Editing

(* A step that changes neither the file nor who writes what leaves the     *)
(* table alone.                                                            *)
LEMMA TableSame ==
  ASSUME LInv, UNCHANGED file,
         \A u \in Threads : pc'[u] = "write" <=> pc[u] = "write",
         \A u \in Threads : pc[u] = "write" => local'[u] = local[u]
  PROVE  TableNow' = TableNow
<1>1. CASE \E u \in Threads : pc[u] = "write"
  <2>1. PICK u \in Threads : pc[u] = "write"
    BY <1>1
  <2>2. \A v \in Threads \ {u} : pc[v] # "write"
    BY <2>1, EditsAlone DEF Editing
  <2>3. TableOf(pc, local, file.memos) = AsTable(local[u])
    BY <2>1, <2>2, OneWriter
  <2>4. TableOf(pc', local', file'.memos) = AsTable(local'[u])
    BY <2>1, <2>2, OneWriter
  <2> QED
    BY <2>1, <2>3, <2>4, TableNowFacts
<1>2. CASE ~ \E u \in Threads : pc[u] = "write"
  <2>1. TableOf(pc, local, file.memos) = AsTable(file.memos)
    BY <1>2, NoWriter
  <2>2. TableOf(pc', local', file'.memos) = AsTable(file'.memos)
    BY <1>2, NoWriter
  <2> QED
    BY <2>1, <2>2, TableNowFacts
<1> QED
  BY <1>1, <1>2

(* Nobody edits at the start. *)
LEMMA InitEdit == Init => EditInv
BY DEF Init, EditInv

(* Every step keeps what a goroutine is about to write tied to the file,   *)
(* or counts the goroutine as overtaken.                                   *)
LEMMA EditInvNext ==
  ASSUME LInv, [Next]_vars
  PROVE  EditInv'
<1>0. LockTypes /\ EditInv /\ local \in [Threads -> Content]
  BY DEF LInv, MInv, DataTypes
<1>1. ASSUME UNCHANGED file,
             \A u \in Threads : pc'[u] \in {"truncate", "write"} =>
               /\ pc[u] = pc'[u] /\ req'[u] = req[u] /\ local'[u] = local[u]
               /\ u \notin overtaken' => u \notin overtaken
      PROVE  EditInv'
  <2>1. ASSUME NEW u \in Threads, pc'[u] \in {"truncate", "write"}
        PROVE  /\ Reads(u)' <=> Reads(u)
               /\ Edited(u)' = Edited(u)
    BY <1>1, <2>1 DEF Reads, Edited
  <2> QED
    BY <1>0, <1>1, <2>1 DEF EditInv
<1>2. ASSUME NEW t \in Threads, Begin(t) \/ Compute(t) PROVE EditInv'
  <2>1. UNCHANGED <<file, local, overtaken>>
    BY <1>2 DEF Begin, Compute, faultVars
  <2>2. pc' = [pc EXCEPT ![t] = "flock"] /\ \A u \in Threads \ {t} : req'[u] = req[u]
    BY <1>0, <1>2, BeginLocks, ComputeLocks
  <2>3. \A u \in Threads : pc'[u] \in {"truncate", "write"} => u # t /\ pc'[u] = pc[u]
    BY <1>0, <2>2 DEF LockTypes
  <2> QED
    BY <1>1, <2>1, <2>2, <2>3
<1>3. ASSUME NEW t \in Threads,
             Lock(t) \/ GlobalLock(t) \/ GlobalUnlock(t) \/ Unlock(t)
      PROVE  EditInv'
  <2>1. UNCHANGED <<file, local, req, overtaken>>
    BY <1>3 DEF Lock, GlobalLock, GlobalUnlock, Unlock, faultVars
  <2>2. \A u \in Threads : pc'[u] \in {"truncate", "write"} => pc'[u] = pc[u]
    BY <1>0, <1>3 DEF Lock, GlobalLock, GlobalUnlock, Unlock, Goto, LockTypes
  <2> QED
    BY <1>1, <2>1, <2>2
<1>4. ASSUME NEW t \in Threads, Load(t) PROVE EditInv'
  <2>1. UNCHANGED <<file, req, overtaken>>
    BY <1>4 DEF Load, faultVars
  <2>2. CASE Reads(t)
    <3>1. UNCHANGED local /\ \A u \in Threads : pc'[u] \in {"truncate", "write"} => pc'[u] = pc[u]
      BY <1>0, <1>4, <2>2 DEF Load, Goto, LockTypes
    <3> QED
      BY <1>1, <2>1, <3>1
  <2>3. CASE ~Reads(t)
    <3>1. /\ local' = [local EXCEPT ![t] = Edited(t)]
          /\ pc' = [pc EXCEPT ![t] = "truncate"]
      BY <1>4, <2>3 DEF Load, Goto
    <3>2. \A u \in Threads : Edited(u)' = Edited(u) /\ (Reads(u)' <=> Reads(u))
      BY <2>1 DEF Edited, Reads
    <3>3. local'[t] = Edited(t)' /\ pc'[t] = "truncate" /\ ~Reads(t)'
      BY <1>0, <2>3, <3>1, <3>2 DEF LockTypes
    <3>4. \A u \in Threads \ {t} : local'[u] = local[u] /\ pc'[u] = pc[u]
      BY <1>0, <3>1 DEF LockTypes
    <3> QED
      BY <1>0, <2>1, <3>2, <3>3, <3>4 DEF EditInv
  <2> QED
    BY <2>2, <2>3
<1>5. ASSUME NEW t \in Threads, Truncate(t) \/ Write(t) \/ WriteFails(t) PROVE EditInv'
  <2>1. UNCHANGED req /\ pc[t] \in {"truncate", "write"}
    BY <1>5 DEF Truncate, Write, WriteFails
  <2>2. \/ pc' = [pc EXCEPT ![t] = "write"] /\ file' = Empty
        \/ pc' = [pc EXCEPT ![t] = "unglobal"]
    BY <1>5 DEF Truncate, Write, WriteFails, Goto
  <2>3. \A u \in Threads \ {t} : pc[u] \notin {"truncate", "write"}
    BY <2>1, EditsAlone DEF Editing
  <2>4. \A u \in Threads \ {t} : pc'[u] \notin {"truncate", "write"}
    BY <1>0, <2>2, <2>3 DEF LockTypes
  <2>5. ~Reads(t)'
    BY <1>0, <2>1 DEF EditInv, Reads
  <2>6. \/ pc'[t] = "write" /\ file' = Empty
        \/ pc'[t] = "unglobal"
    BY <1>0, <2>2 DEF LockTypes
  <2> QED
    BY <2>4, <2>5, <2>6 DEF EditInv
<1>6. ASSUME NEW p \in Procs, Crash(p) PROVE EditInv'
  <2>1. \A u \in Threads : pc'[u] \in {"truncate", "write"} =>
          /\ ProcOf[u] # p
          /\ pc[u] = pc'[u] /\ req'[u] = req[u] /\ local'[u] = local[u]
          /\ u \notin overtaken' => u \notin overtaken
    BY <1>6 DEF Crash
  <2>2. CASE UNCHANGED file
    BY <1>1, <2>1, <2>2
  <2>3. CASE ~UNCHANGED file
    <3>1. PICK t \in Threads : ProcOf[t] = p /\ pc[t] = "write"
      BY <1>6, <2>3 DEF Crash
    <3>2. \A u \in Threads \ {t} : pc[u] \notin {"truncate", "write"}
      BY <3>1, EditsAlone DEF Editing
    <3>3. \A u \in Threads : pc'[u] \notin {"truncate", "write"}
      BY <2>1, <3>1, <3>2
    <3> QED
      BY <3>3 DEF EditInv
  <2> QED
    BY <2>2, <2>3
<1>7. ASSUME BumpRead \/ BumpCall PROVE EditInv'
  <2>1. UNCHANGED <<file, pc, req, local, overtaken>>
    BY <1>7 DEF BumpRead, BumpCall, faultVars
  <2> QED
    BY <1>1, <2>1
<1>8. ASSUME BumpTruncate \/ BumpWrite PROVE EditInv'
  <2>1. UNCHANGED <<pc, req>>
    BY <1>8 DEF BumpTruncate, BumpWrite
  <2>2. \A u \in Threads : pc[u] \in {"truncate", "write"} => u \in overtaken'
    BY <1>8 DEF BumpTruncate, BumpWrite, Overtake
  <2>3. \A u \in Threads : Reads(u)' <=> Reads(u)
    BY <2>1 DEF Reads
  <2> QED
    BY <1>0, <2>1, <2>2, <2>3 DEF EditInv
<1>9. ASSUME UNCHANGED vars PROVE EditInv'
  <2>1. UNCHANGED <<file, pc, req, local, overtaken>>
    BY <1>9 DEF vars, faultVars
  <2> QED
    BY <1>1, <2>1
<1>10. ASSUME NEW t \in Threads, LockFails(t) \/ LoadFails(t) PROVE EditInv'
  <2>1. UNCHANGED <<file, local, req, overtaken>>
    BY <1>10 DEF LockFails, LoadFails, faultVars
  <2>2. \A u \in Threads : pc'[u] \in {"truncate", "write"} => pc'[u] = pc[u]
    BY <1>0, <1>10 DEF LockFails, LoadFails, Goto, LockTypes
  <2> QED
    BY <1>1, <2>1, <2>2
<1> QED
  BY <1>2, <1>3, <1>4, <1>5, <1>6, <1>7, <1>8, <1>9, <1>10 DEF Next, Step

(* Nobody has failed at the start. *)
LEMMA InitOut == Init => OutInv
BY DEF Init, OutInv

(* Only an operation that ends fails. *)
LEMMA OutInvNext ==
  ASSUME MInv, OutInv, [Next]_vars
  PROVE  OutInv'
<1>0. LockTypes /\ out \in [Threads -> Outputs \cup {NoOutput, Failed}]
  BY DEF MInv, DataTypes
<1>1. ASSUME NEW t \in Threads, Begin(t) \/ Compute(t) PROVE OutInv'
  <2>1. out' = [out EXCEPT ![t] = NoOutput] /\ pc' = [pc EXCEPT ![t] = "flock"]
    BY <1>1 DEF Begin, Compute, Goto
  <2> QED
    BY <1>0, <2>1 DEF OutInv, LockTypes
<1>2. ASSUME NEW t \in Threads, LockFails(t) \/ LoadFails(t) PROVE OutInv'
  <2>1. /\ out' = [out EXCEPT ![t] = Failed]
        /\ pc' = [pc EXCEPT ![t] = "idle"] \/ pc' = [pc EXCEPT ![t] = "unglobal"]
    BY <1>2 DEF LockFails, LoadFails, Goto
  <2> QED
    BY <1>0, <2>1 DEF OutInv, LockTypes
<1>3. ASSUME NEW t \in Threads, Load(t), Reads(t) PROVE OutInv'
  <2>1. /\ out' = [out EXCEPT ![t] = Retrieved(file.memos, req[t].key)]
        /\ pc' = [pc EXCEPT ![t] = "unglobal"]
    BY <1>3 DEF Load, Goto
  <2> QED
    BY <1>0, <2>1 DEF OutInv, LockTypes
<1>4. ASSUME UNCHANGED out,
             \A u \in Threads :
               \/ pc'[u] = pc[u]
               \/ pc[u] \in {"flock", "global", "load", "truncate", "write"}
               \/ pc'[u] \in {"unglobal", "unflock", "compute", "idle", "dead"}
      PROVE  OutInv'
  BY <1>4 DEF OutInv
<1>5. ASSUME NEW t \in Threads,
             \/ Lock(t) \/ GlobalLock(t) \/ Truncate(t) \/ Write(t) \/ WriteFails(t)
             \/ GlobalUnlock(t) \/ Unlock(t)
      PROVE  OutInv'
  <2>1. UNCHANGED out
    BY <1>5 DEF Lock, GlobalLock, Truncate, Write, WriteFails, GlobalUnlock, Unlock
  <2>2. \E to \in PCs :
          /\ pc' = [pc EXCEPT ![t] = to]
          /\ \/ pc[t] \in {"flock", "global", "truncate", "write"}
             \/ to \in {"unflock", "compute", "idle"}
    BY <1>5 DEF Lock, GlobalLock, Truncate, Write, WriteFails, GlobalUnlock, Unlock,
                Goto, PCs
  <2> QED
    BY <1>0, <1>4, <2>1, <2>2 DEF LockTypes
<1>6. ASSUME NEW p \in Procs, Crash(p) PROVE OutInv'
  BY <1>4, <1>6 DEF Crash
<1>7. ASSUME Bumps \/ UNCHANGED vars PROVE OutInv'
  BY <1>4, <1>7 DEF Bumps, BumpRead, BumpCall, BumpTruncate, BumpWrite, vars
<1>8. ASSUME NEW t \in Threads, Load(t) PROVE OutInv'
  <2>1. CASE Reads(t)
    BY <1>3, <1>8, <2>1
  <2>2. CASE ~Reads(t)
    <3>1. UNCHANGED out /\ pc[t] = "load" /\ pc' = [pc EXCEPT ![t] = "truncate"]
      BY <1>8, <2>2 DEF Load, Goto
    <3> QED
      BY <1>0, <1>4, <3>1 DEF LockTypes
  <2> QED
    BY <2>1, <2>2
<1> QED
  BY <1>1, <1>2, <1>5, <1>6, <1>7, <1>8 DEF Next, Step, Bumps

(* The variables of MemoTable that are not those of LockfileMemo. *)
TReq == [t \in Threads |-> IF Over(t) THEN NoReq ELSE req[t]]
TEffect == {t \in Threads : pc[t] \in {"write", "unglobal", "unflock"} /\ ~Over(t)}
TDead == {t \in Threads : pc[t] = "dead"}

(* A lock file that nobody writes is a table like any other. *)
LEMMA InitTable == Init => Table!Init
<1> SUFFICES ASSUME Init PROVE Table!Init
  OBVIOUS
<1>1. MInv /\ \A t \in Threads : pc[t] = "idle"
  BY InitM DEF Init
<1>2. TableNow \in Tables
  BY <1>1, TableTypes, TableNowFacts DEF MInv, DataTypes, Files
<1>3. TReq = [t \in Threads |-> NoReq] /\ TEffect = {} /\ TDead = {}
  BY <1>1 DEF TReq, TEffect, TDead, Over
<1> QED
  BY <1>2, <1>3 DEF Init, Table!Init, Tables, TReq, TEffect, TDead, Over

(* The start of an operation, memoized or not, is its call. *)
LEMMA CallsMap ==
  ASSUME LInv, NEW t \in Threads, Begin(t) \/ Compute(t)
  PROVE  Table!Call(t)
<1>0. LockTypes
  BY DEF LInv, MInv
<1>1. UNCHANGED <<file, local, faults>> /\ out' = [out EXCEPT ![t] = NoOutput]
  BY DEF Begin, Compute, faultVars
<1>2. /\ LockTypes'
      /\ pc[t] \in {"idle", "compute"} /\ pc' = [pc EXCEPT ![t] = "flock"]
      /\ \A u \in Threads \ {t} : req'[u] = req[u]
  BY <1>0, BeginLocks, ComputeLocks
<1>3. pc'[t] = "flock" /\ \A u \in Threads \ {t} : pc'[u] = pc[u]
  BY <1>0, <1>2 DEF LockTypes
<1>4. TableNow' = TableNow
  BY <1>1, <1>2, <1>3, TableSame
<1>5. req'[t] \in MemoReqs
  BY <1>2, <1>3 DEF LockTypes
<1>8. out'[t] = NoOutput /\ \A u \in Threads \ {t} : out'[u] = out[u]
  BY <1>1 DEF LInv, MInv, DataTypes
<1>6. TReq[t] = NoReq /\ TReq' = [TReq EXCEPT ![t] = req'[t]]
  BY <1>2, <1>3, <1>8 DEF TReq, Over
<1>7. TEffect' = TEffect /\ TDead' = TDead /\ t \notin TDead
  BY <1>2, <1>3, <1>8 DEF TEffect, TDead, Over
<1> QED
  BY <1>1, <1>4, <1>5, <1>6, <1>7
  DEF Table!Call, Table!Requests, MemoReqs, TReq, TEffect, TDead, Over

(* Taking a lock, and making up what to write, is no step of the table. *)
LEMMA StuttersMap ==
  ASSUME LInv, UNCHANGED <<out, faults, req, file>>,
         \A u \in Threads :
           \/ pc'[u] = pc[u]
           \/ pc[u] \in {"flock", "global", "load"} /\ pc'[u] \in {"global", "load", "truncate"}
           \/ pc[u] = "unglobal" /\ pc'[u] = "unflock",
         \A u \in Threads : pc[u] = "write" => local'[u] = local[u]
  PROVE  UNCHANGED Table!vars
<1>1. TableNow' = TableNow
  BY TableSame
<1>2. TReq' = TReq /\ TEffect' = TEffect /\ TDead' = TDead
  BY DEF TReq, TEffect, TDead, Over
<1> QED
  BY <1>1, <1>2 DEF Table!vars, TReq, TEffect, TDead, Over

(* A recall takes effect when it loads the file. *)
LEMMA RecallMaps ==
  ASSUME LInv, NEW t \in Threads, Load(t), Reads(t)
  PROVE  Table!TakeEffect(t)
<1>0. LockTypes /\ file.memos \in Content
      /\ out \in [Threads -> Outputs \cup {NoOutput, Failed}]
  BY DEF LInv, MInv, DataTypes, Files
<1>1. /\ pc[t] = "load" /\ pc' = [pc EXCEPT ![t] = "unglobal"]
      /\ out' = [out EXCEPT ![t] = Retrieved(file.memos, req[t].key)]
      /\ UNCHANGED <<file, local, req, faults>>
  BY DEF Load, Goto, faultVars
<1>2. pc'[t] = "unglobal" /\ \A u \in Threads \ {t} : pc'[u] = pc[u]
  BY <1>0, <1>1 DEF LockTypes
<1>3. \A u \in Threads : pc[u] # "write"
  BY <1>1, EditsAlone DEF Editing
<1>4. TableNow = AsTable(file.memos)
  BY <1>3, NoWriter, TableNowFacts
<1>5. TableNow' = TableNow
  BY <1>1, <1>2, <1>3, TableSame
<1>6. req[t] \in MemoReqs /\ req[t].key \in Keys /\ req[t] # NoReq
  BY <1>0, <1>1 DEF LockTypes, MemoReqs
<1>7. out' = [out EXCEPT ![t] = TableNow[req[t].key]]
  BY <1>1, <1>4, <1>6 DEF AsTable
<1>9. out'[t] # Failed /\ \A u \in Threads \ {t} : out'[u] = out[u]
  <2>1. Retrieved(file.memos, req[t].key) \in Outputs \cup {NoOutput}
    BY <1>0, <1>6, RetrievedTypes
  <2> QED
    BY <1>0, <1>1, <2>1
<1>8. /\ TReq' = TReq /\ TReq[t] = req[t]
      /\ TEffect' = TEffect \cup {t} /\ t \notin TEffect
      /\ TDead' = TDead /\ t \notin TDead
  BY <1>1, <1>2, <1>9 DEF TReq, TEffect, TDead, Over
<1> QED
  BY <1>1, <1>5, <1>6, <1>7, <1>8
  DEF Table!TakeEffect, Table!Recall, Reads, TReq, TEffect, TDead, Over

(* A store or removal takes effect when it truncates the file it made its  *)
(* edit of.                                                                *)
LEMMA TruncateMaps ==
  ASSUME LInv, NEW t \in Threads, Truncate(t), t \notin overtaken
  PROVE  Table!TakeEffect(t)
<1>0. LockTypes /\ file.memos \in Content /\ EditInv
  BY DEF LInv, MInv, DataTypes, Files
<1>1. /\ pc[t] = "truncate" /\ pc' = [pc EXCEPT ![t] = "write"]
      /\ UNCHANGED <<local, req, out, faults>>
  BY DEF Truncate, Goto, CatchUp
<1>2. pc'[t] = "write" /\ \A u \in Threads \ {t} : pc'[u] = pc[u]
  BY <1>0, <1>1 DEF LockTypes
<1>3. \A u \in Threads \ {t} : pc[u] # "write"
  BY <1>1, EditsAlone DEF Editing
<1>4. TableNow = AsTable(file.memos)
  BY <1>1, <1>3, NoWriter, TableNowFacts
<1>5. TableNow' = AsTable(local[t])
  <2>1. \A u \in Threads \ {t} : pc'[u] # "write"
    BY <1>2, <1>3
  <2>2. TableOf(pc', local', file'.memos) = AsTable(local'[t])
    BY <1>2, <2>1, OneWriter
  <2> QED
    BY <1>1, <2>2, TableNowFacts
<1>6. local[t] = Edited(t) /\ ~Reads(t)
  BY <1>0, <1>1 DEF EditInv
<1>7. req[t] \in MemoReqs /\ req[t].key \in Keys /\ req[t] # NoReq
  BY <1>0, <1>1 DEF LockTypes, MemoReqs
<1>8. \/ /\ req[t].kind = "store"
         /\ TableNow' = [TableNow EXCEPT ![req[t].key] = req[t].output]
      \/ /\ req[t].kind = "remove"
         /\ TableNow' = [TableNow EXCEPT ![req[t].key] = NoOutput]
  <2>1. CASE req[t].kind = "store"
    <3>1. req[t].output \in Outputs
      BY <1>7, <2>1 DEF MemoReqs
    <3>2. Edited(t) = StoredIn(file.memos, req[t].key, req[t].output)
      BY <2>1 DEF Edited
    <3> QED
      BY <1>0, <1>4, <1>5, <1>6, <1>7, <2>1, <3>1, <3>2, StoreTable
  <2>2. CASE req[t].kind # "store"
    <3>1. req[t].kind = "remove"
      BY <1>6, <1>7, <2>2 DEF MemoReqs, Reads
    <3>2. Edited(t) = RemovedFrom(file.memos, req[t].key)
      BY <2>2 DEF Edited
    <3> QED
      BY <1>0, <1>4, <1>5, <1>6, <1>7, <3>1, <3>2, RemoveTable
  <2> QED
    BY <2>1, <2>2
<1>9. /\ TReq' = TReq /\ TReq[t] = req[t]
      /\ TEffect' = TEffect \cup {t} /\ t \notin TEffect
      /\ TDead' = TDead /\ t \notin TDead
  BY <1>1, <1>2 DEF TReq, TEffect, TDead, Over
<1> QED
  BY <1>1, <1>7, <1>8, <1>9
  DEF Table!TakeEffect, Table!Store, Table!Remove, TReq, TEffect, TDead, Over

(* A write over the empty file is what the truncation announced. *)
LEMMA WriteMaps ==
  ASSUME LInv, NEW t \in Threads, Write(t), t \notin overtaken
  PROVE  UNCHANGED Table!vars
<1>0. LockTypes /\ EditInv
  BY DEF LInv, MInv
<1>1. /\ pc[t] = "write" /\ pc' = [pc EXCEPT ![t] = "unglobal"]
      /\ file' \in Overlaid(Whole(local[t]))
      /\ UNCHANGED <<req, out, faults>>
  BY DEF Write, Goto, CatchUp
<1>2. file = Empty
  BY <1>0, <1>1 DEF EditInv
<1>3. file'.memos = local[t]
  <2>1. Overlaid(Whole(local[t])) = {Whole(local[t])}
    BY <1>2 DEF Overlaid
  <2>2. file' \in {Whole(local[t])}
    <3> HIDE DEF Overlaid, Whole
    <3> QED
      BY <1>1, <2>1
  <2> QED
    BY <2>2 DEF Whole
<1>4. pc'[t] = "unglobal" /\ \A u \in Threads \ {t} : pc'[u] = pc[u]
  BY <1>0, <1>1 DEF LockTypes
<1>5. \A u \in Threads \ {t} : pc[u] # "write"
  BY <1>1, EditsAlone DEF Editing
<1>6. TableOf(pc, local, file.memos) = AsTable(local[t])
  BY <1>1, <1>5, OneWriter
<1>7. TableOf(pc', local', file'.memos) = AsTable(file'.memos)
  <2>1. \A u \in Threads : pc'[u] # "write"
    BY <1>4, <1>5
  <2> QED
    BY <2>1, NoWriter
<1>8. TableNow' = TableNow
  BY <1>3, <1>6, <1>7, TableNowFacts
<1>10. out[t] # Failed
  BY <1>1 DEF LInv, OutInv
<1>9. TReq' = TReq /\ TEffect' = TEffect /\ TDead' = TDead
  BY <1>1, <1>4, <1>10 DEF TReq, TEffect, TDead, Over
<1> QED
  BY <1>1, <1>8, <1>9 DEF Table!vars, TReq, TEffect, TDead, Over

(* Everything that is counted as a fault is one of the table: it leaves    *)
(* some table, and the clients of cs die of it.                            *)
LEMMA FaultsMap ==
  ASSUME MInv', NEW cs \in SUBSET Threads, NEW es \in SUBSET Threads,
         faults' = faults + 1, UNCHANGED out,
         TReq' = [t \in Threads |-> IF t \in cs THEN NoReq ELSE TReq[t]],
         TEffect' = (TEffect \cup es) \ cs,
         TDead' = TDead \cup cs
  PROVE  Table!Fault(cs, es)
<1>1. local' \in [Threads -> Content] /\ file'.memos \in Content
  BY DEF MInv, DataTypes, Files
<1>2. TableNow' \in Tables
  BY <1>1, TableTypes, TableNowFacts
<1> QED
  BY <1>2 DEF Table!Fault, Tables, TReq, TEffect, TDead, Over

(* A truncation or a write that a bump overtook, and a write that fails,   *)
(* are faults.                                                             *)
LEMMA OvertakenMaps ==
  ASSUME LInv, MInv', NEW t \in Threads,
         \/ (Truncate(t) \/ Write(t)) /\ t \in overtaken
         \/ WriteFails(t)
  PROVE  \E es \in SUBSET Threads : Table!Fault({}, es)
<1>0. LockTypes
  BY DEF LInv, MInv
<1>1. faults' = faults + 1 /\ UNCHANGED <<out, req>>
  BY DEF Truncate, Write, WriteFails, CatchUp
<1>2. \/ pc[t] = "truncate" /\ pc' = [pc EXCEPT ![t] = "write"]
      \/ pc[t] = "write" /\ pc' = [pc EXCEPT ![t] = "unglobal"]
  BY DEF Truncate, Write, WriteFails, Goto
<1>3. /\ pc[t] \in {"truncate", "write"} /\ pc'[t] \in {"write", "unglobal"}
      /\ \A u \in Threads \ {t} : pc'[u] = pc[u]
  BY <1>0, <1>2 DEF LockTypes
<1>7. out[t] # Failed
  BY <1>3 DEF LInv, OutInv
<1>4. TReq' = TReq /\ TDead' = TDead /\ TEffect' = TEffect \cup {t}
  BY <1>1, <1>3, <1>7 DEF TReq, TEffect, TDead, Over
<1>5. TReq = [u \in Threads |-> IF u \in {} THEN NoReq ELSE TReq[u]]
  BY DEF TReq, Over
<1>6. Table!Fault({}, {t})
  BY <1>1, <1>4, <1>5, FaultsMap
<1> QED
  BY <1>6

(* What bump writes is a fault of the table. *)
LEMMA BumpMaps ==
  ASSUME LInv, MInv', BumpTruncate \/ BumpWrite
  PROVE  Table!Fault({}, {})
<1>1. faults' = faults + 1 /\ UNCHANGED <<out, req, pc>>
  BY DEF BumpTruncate, BumpWrite, Overtake
<1>2. TReq' = TReq /\ TDead' = TDead /\ TEffect' = TEffect
  BY <1>1 DEF TReq, TEffect, TDead, Over
<1>3. TReq = [u \in Threads |-> IF u \in {} THEN NoReq ELSE TReq[u]]
  BY DEF TReq, Over
<1> QED
  BY <1>1, <1>2, <1>3, FaultsMap

(* An operation returns when it gives up the flock, unless it has failed.  *)
LEMMA UnlockMaps ==
  ASSUME LInv, NEW t \in Threads, Unlock(t)
  PROVE  Table!Return(t) \/ UNCHANGED Table!vars
<1>0. LockTypes
  BY DEF LInv, MInv
<1>1. /\ pc[t] = "unflock" /\ \E s \in {"compute", "idle"} : pc' = [pc EXCEPT ![t] = s]
      /\ UNCHANGED <<file, local, req, out, faults>>
  BY DEF Unlock, Goto, faultVars
<1>2. pc'[t] \in {"compute", "idle"} /\ \A u \in Threads \ {t} : pc'[u] = pc[u]
  BY <1>0, <1>1 DEF LockTypes
<1>3. TableNow' = TableNow
  BY <1>1, <1>2, TableSame
<1>4. CASE out[t] # Failed
  <2>1. /\ TReq' = [TReq EXCEPT ![t] = NoReq]
        /\ TEffect' = TEffect \ {t} /\ t \in TEffect
        /\ TDead' = TDead /\ t \notin TDead
    BY <1>1, <1>2, <1>4 DEF TReq, TEffect, TDead, Over
  <2> QED
    BY <1>1, <1>3, <2>1 DEF Table!Return, TReq, TEffect, TDead, Over
<1>5. CASE out[t] = Failed
  <2>1. TReq' = TReq /\ TEffect' = TEffect /\ TDead' = TDead
    BY <1>1, <1>2, <1>5 DEF TReq, TEffect, TDead, Over
  <2> QED
    BY <1>1, <1>3, <2>1 DEF Table!vars, TReq, TEffect, TDead, Over
<1> QED
  BY <1>4, <1>5

(* An operation that fails before it saves is refused. *)
LEMMA RefusalsMap ==
  ASSUME LInv, NEW t \in Threads, LockFails(t) \/ LoadFails(t)
  PROVE  Table!Refuse(t)
<1>0. LockTypes /\ out \in [Threads -> Outputs \cup {NoOutput, Failed}]
  BY DEF LInv, MInv, DataTypes
<1>1. /\ pc[t] \in {"flock", "load"}
      /\ pc' = [pc EXCEPT ![t] = "idle"] \/ pc' = [pc EXCEPT ![t] = "unglobal"]
      /\ out' = [out EXCEPT ![t] = Failed]
      /\ UNCHANGED <<file, local, req, faults>>
  BY DEF LockFails, LoadFails, Goto, faultVars
<1>2. /\ pc'[t] \in {"idle", "unglobal"} /\ out'[t] = Failed
      /\ \A u \in Threads \ {t} : pc'[u] = pc[u] /\ out'[u] = out[u]
  BY <1>0, <1>1 DEF LockTypes
<1>3. TableNow' = TableNow
  BY <1>1, <1>2, TableSame
<1>4. req[t] \in MemoReqs /\ req[t] # NoReq
  BY <1>0, <1>1 DEF LockTypes
<1>6. /\ ~Over(t) /\ Over(t)'
      /\ \A u \in Threads \ {t} : Over(u)' <=> Over(u)
  BY <1>1, <1>2 DEF Over
<1>5. /\ TReq[t] = req[t] /\ TReq' = [TReq EXCEPT ![t] = NoReq]
      /\ TEffect' = TEffect /\ t \notin TEffect
      /\ TDead' = TDead /\ t \notin TDead
  <2> HIDE DEF Over
  <2>1. TReq[t] = req[t] /\ TReq' = [TReq EXCEPT ![t] = NoReq]
    BY <1>1, <1>6 DEF TReq
  <2>2. TEffect' = TEffect /\ t \notin TEffect
    BY <1>1, <1>2, <1>6 DEF TEffect
  <2>3. TDead' = TDead /\ t \notin TDead
    BY <1>1, <1>2 DEF TDead
  <2> QED
    BY <2>1, <2>2, <2>3
<1> QED
  BY <1>1, <1>3, <1>4, <1>5 DEF Table!Refuse, TReq, TEffect, TDead, Over

(* A process that dies while it writes leaves some table; otherwise its    *)
(* goroutines are the only ones that notice.                               *)
LEMMA CrashMaps ==
  ASSUME LInv, MInv', NEW p \in Procs, Crash(p)
  PROVE  \E cs \in SUBSET Threads : Table!Die(cs) \/ Table!Fault(cs, {})
<1> DEFINE mine == {t \in Threads : ProcOf[t] = p}
<1>1. \A t \in Threads : /\ t \in mine => pc'[t] = "dead"
                         /\ t \notin mine => /\ pc'[t] = pc[t] /\ req'[t] = req[t]
                                             /\ local'[t] = local[t]
  BY DEF Crash
<1>2. UNCHANGED out
  BY DEF Crash
<1>3. mine \in SUBSET Threads
  OBVIOUS
<1>6. /\ TReq' = [t \in Threads |-> IF t \in mine THEN NoReq ELSE TReq[t]]
      /\ TEffect' = TEffect \ mine
      /\ TDead' = TDead \cup mine
  <2> HIDE DEF mine
  <2>1. \A t \in Threads : /\ t \in mine => Over(t)'
                           /\ t \notin mine => (Over(t)' <=> Over(t))
    BY <1>1, <1>2 DEF Over
  <2>2. TReq' = [t \in Threads |-> IF t \in mine THEN NoReq ELSE TReq[t]]
    BY <1>1, <2>1 DEF TReq
  <2>3. TEffect' = TEffect \ mine
    BY <1>1, <2>1 DEF TEffect
  <2>4. TDead' = TDead \cup mine
    BY <1>1, <1>3 DEF TDead
  <2> QED
    BY <2>2, <2>3, <2>4
<1>4. CASE \A t \in mine : pc[t] # "write"
  <2>1. UNCHANGED <<file, faults>>
    BY <1>4 DEF Crash
  <2> HIDE DEF mine
  <2>2. \A t \in Threads : pc'[t] = "write" <=> pc[t] = "write"
    BY <1>1, <1>4
  <2>3. \A t \in Threads : pc[t] = "write" => local'[t] = local[t]
    BY <1>1, <1>4
  <2>4. TableNow' = TableNow
    BY <2>1, <2>2, <2>3, TableSame
  <2>5. Table!Die(mine)
    BY <1>2, <1>6, <2>1, <2>4 DEF Table!Die, TReq, TEffect, TDead, Over
  <2> QED
    BY <1>3, <2>5
<1>5. CASE ~ \A t \in mine : pc[t] # "write"
  <2>1. faults' = faults + 1
    BY <1>5 DEF Crash
  <2> HIDE DEF mine
  <2>2. TEffect' = (TEffect \cup {}) \ mine
    BY <1>6
  <2>3. Table!Fault(mine, {})
    BY <1>2, <1>3, <1>6, <2>1, <2>2, FaultsMap
  <2> QED
    BY <1>3, <2>3
<1> QED
  BY <1>4, <1>5

(* Every step is one of the table, or none. *)
LEMMA NextMaps ==
  ASSUME LInv, MInv', [Next]_vars
  PROVE  [Table!Next]_(Table!vars)
<1>0. LockTypes
  BY DEF LInv, MInv
<1>1. ASSUME NEW t \in Threads, Begin(t) \/ Compute(t) PROVE Table!Next
  BY <1>1, CallsMap DEF Table!Next
<1>2. ASSUME NEW t \in Threads, Lock(t) \/ GlobalLock(t) \/ GlobalUnlock(t)
      PROVE  UNCHANGED Table!vars
  <2>1. UNCHANGED <<out, faults, req, file, local>>
    BY <1>2 DEF Lock, GlobalLock, GlobalUnlock, faultVars
  <2>2. \/ pc[t] = "flock" /\ pc' = [pc EXCEPT ![t] = "global"]
        \/ pc[t] = "global" /\ pc' = [pc EXCEPT ![t] = "load"]
        \/ pc[t] = "unglobal" /\ pc' = [pc EXCEPT ![t] = "unflock"]
    BY <1>2 DEF Lock, GlobalLock, GlobalUnlock, Goto
  <2>3. \A u \in Threads :
          \/ pc'[u] = pc[u]
          \/ pc[u] \in {"flock", "global", "load"} /\ pc'[u] \in {"global", "load", "truncate"}
          \/ pc[u] = "unglobal" /\ pc'[u] = "unflock"
    BY <1>0, <2>2 DEF LockTypes
  <2> QED
    BY <2>1, <2>3, StuttersMap
<1>3. ASSUME NEW t \in Threads, Load(t) PROVE [Table!Next]_(Table!vars)
  <2>1. CASE Reads(t)
    BY <1>3, <2>1, RecallMaps DEF Table!Next
  <2>2. CASE ~Reads(t)
    <3>1. UNCHANGED <<out, faults, req, file>>
      BY <1>3, <2>2 DEF Load, faultVars
    <3>2. /\ pc[t] = "load" /\ pc' = [pc EXCEPT ![t] = "truncate"]
          /\ local' = [local EXCEPT ![t] = Edited(t)]
      BY <1>3, <2>2 DEF Load, Goto
    <3>3. \A u \in Threads : pc[u] = "write" => local'[u] = local[u]
      <4>1. local \in [Threads -> Content]
        BY DEF LInv, MInv, DataTypes
      <4> QED
        BY <3>2, <4>1
    <3>4. \A u \in Threads :
            \/ pc'[u] = pc[u]
            \/ /\ pc[u] \in {"flock", "global", "load"}
               /\ pc'[u] \in {"global", "load", "truncate"}
            \/ pc[u] = "unglobal" /\ pc'[u] = "unflock"
      BY <1>0, <3>2 DEF LockTypes
    <3> QED
      BY <3>1, <3>3, <3>4, StuttersMap
  <2> QED
    BY <2>1, <2>2
<1>4. ASSUME NEW t \in Threads, Truncate(t) \/ Write(t) \/ WriteFails(t)
      PROVE  [Table!Next]_(Table!vars)
  <2>1. CASE Truncate(t) /\ t \notin overtaken
    BY <2>1, TruncateMaps DEF Table!Next
  <2>2. CASE Write(t) /\ t \notin overtaken
    BY <2>2, WriteMaps
  <2>3. CASE ((Truncate(t) \/ Write(t)) /\ t \in overtaken) \/ WriteFails(t)
    <3>1. PICK es \in SUBSET Threads : Table!Fault({}, es)
      BY <2>3, OvertakenMaps
    <3> QED
      BY <3>1 DEF Table!Next
  <2> QED
    BY <1>4, <2>1, <2>2, <2>3
<1>5. ASSUME NEW t \in Threads, Unlock(t) PROVE [Table!Next]_(Table!vars)
  BY <1>5, UnlockMaps DEF Table!Next
<1>10. ASSUME NEW t \in Threads, LockFails(t) \/ LoadFails(t) PROVE Table!Next
  BY <1>10, RefusalsMap DEF Table!Next
<1>6. ASSUME NEW p \in Procs, Crash(p) PROVE Table!Next
  <2>1. PICK cs \in SUBSET Threads : Table!Die(cs) \/ Table!Fault(cs, {})
    BY <1>6, CrashMaps
  <2> QED
    BY <2>1 DEF Table!Next
<1>7. ASSUME BumpRead \/ BumpCall PROVE UNCHANGED Table!vars
  <2>1. UNCHANGED <<out, faults, req, file, local, pc>>
    BY <1>7 DEF BumpRead, BumpCall, faultVars
  <2> QED
    BY <2>1, StuttersMap
<1>8. ASSUME BumpTruncate \/ BumpWrite PROVE Table!Next
  BY <1>8, BumpMaps DEF Table!Next
<1>9. ASSUME UNCHANGED vars PROVE UNCHANGED Table!vars
  <2>1. UNCHANGED <<out, faults, req, file, local, pc>>
    BY <1>9 DEF vars, faultVars
  <2> QED
    BY <2>1, StuttersMap
<1> QED
  BY <1>1, <1>2, <1>3, <1>4, <1>5, <1>6, <1>7, <1>8, <1>9, <1>10 DEF Next, Step

(* Lockfile.Store, Retrieve and Remove: the lock file is a table whose     *)
(* operations take effect one at a time, each between its call and its     *)
(* return, and between faults nothing that was stored is lost: if          *)
(* goroutines do not share Lockfiles or are of one process.                *)
THEOREM OneTable ==
  ASSUME OwnLockfiles \/ OneProcess
  PROVE  Spec => Linearizable
<1>1. Spec => []WriterExclusive
  BY ExclusiveWriter
<1>2. Init => MInv /\ EditInv /\ OutInv
  BY InitM, InitEdit, InitOut
<1>3. MInv /\ EditInv /\ OutInv /\ WriterExclusive /\ [Next]_vars => MInv' /\ EditInv' /\ OutInv'
  BY MInvNext, EditInvNext, OutInvNext DEF LInv
<1>4. MInv /\ EditInv /\ OutInv /\ WriterExclusive /\ MInv' /\ [Next]_vars
        => [Table!Next]_(Table!vars)
  BY NextMaps DEF LInv
<1> QED
  BY <1>1, <1>2, <1>3, <1>4, InitTable, PTL DEF Spec, Linearizable, Table!Spec
=============================================================================
