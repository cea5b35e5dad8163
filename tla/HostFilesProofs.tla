-------------------------- MODULE HostFilesProofs --------------------------
(***************************************************************************)
(* The cache path and, while writes do not overlap, the destination hold   *)
(* whole files only: for any number of callers, contents of any length,    *)
(* failures and deaths at any step.                                        *)
(***************************************************************************)
EXTENDS HostFiles, TLAPS

(* Before the rename a file is its maker's own: it holds the blocks that   *)
(* were copied so far.                                                     *)
OwnTemp ==
  \A c \in Cachers :
    /\ pc[c] = "copy" => fd[c] = c
    /\ pc[c] \in {"stat", "open", "temp", "copy"} => data[c] = Blocks(c, pos[c])
    /\ pc[c] = "rename" => data[c] = Content(c)

(* The file at the cache path is complete, and its maker is done with it. *)
CacheDone ==
  /\ cached # NoFile => /\ data[cached] = Content(cached)
                        /\ pc[cached] \in {"remove", "done", "dead"}
  /\ \A c \in Cachers : pc[c] \in {"remove", "done"} => cached # NoFile

(* Writers have none of the cachers' files open, and a file bears the name *)
(* of the writer that made it.                                             *)
Apart ==
  /\ \A w \in Writers : fd[w] \notin Cachers
  /\ \A w \in Writers : pc[w] = "idle" => dest # w /\ new # w /\ pos[w] = 0

(* A writer that nobody disturbs has dest.new to itself. *)
Alone ==
  ~overlapped =>
    /\ \A v, w \in Writers : Going(v) /\ Going(w) => v = w
    /\ new # NoFile => new # dest
    /\ \A w \in Writers :
         /\ Going(w) => new # NoFile
         /\ pc[w] = "copy" => fd[w] = new /\ data[new] = Blocks(w, pos[w])
         /\ pc[w] = "rename" => data[new] = Content(w)

IInv == TypeOK /\ OwnTemp /\ CacheDone /\ Apart /\ Alone /\ LastWriteStays

USE HostFilesAssumption

(* One more block at the end of a beginning makes a longer beginning. *)
LEMMA OneMoreBlock ==
  ASSUME NEW a, NEW n \in Nat
  PROVE  Written(Blocks(a, n), n + 1, a) = Blocks(a, n + 1)
  <1>1. DOMAIN Blocks(a, n) = 1..n
    BY DEF Blocks
  <1>2. 1..(n + 1) \cup 1..n = 1..(n + 1)
    OBVIOUS
  <1>3. \A i \in 1..(n + 1) : i # n + 1 => i \in 1..n
    OBVIOUS
  <1> QED
    BY <1>1, <1>2, <1>3 DEF Written, Blocks

(* Nobody has begun: the destination is what it was, the rest is missing. *)
LEMMA InitIInv == Init => IInv
  <1> SUFFICES ASSUME Init PROVE IInv
    OBVIOUS
  <1>1. TypeOK
    <2>1. \A f \in Files : \A i \in DOMAIN data[f] : data[f][i] \in Files
      BY DEF Init, Blocks, Content, Files
    <2>2. \A f \in Files : \A i \in DOMAIN data[f] : data[f][i] \in Files \cup {Hole}
      BY <2>1
    <2>3. DOMAIN data = Files
      BY DEF Init
    <2>4. pc \in [Callers -> PCs] /\ \A a \in Callers : pc[a] # "copy"
      BY DEF Init, PCs, Callers
    <2>5. pos \in [Callers -> Nat] /\ \A a \in Callers : pos[a] <= Length[a]
      BY DEF Init, Callers, Files
    <2> QED
      BY <2>2, <2>3, <2>4, <2>5 DEF Init, TypeOK
  <1>2. OwnTemp
    BY DEF Init, OwnTemp, Files, Callers
  <1>3. CacheDone
    BY DEF Init, CacheDone, Callers
  <1>4. Apart
    BY DEF Init, Apart, Callers, Files
  <1>5. Alone
    BY DEF Init, Alone, Going, Callers
  <1>6. LastWriteStays
    BY DEF Init, LastWriteStays, Files
  <1> QED
    BY <1>1, <1>2, <1>3, <1>4, <1>5, <1>6 DEF IInv

(* A block goes to the file that the caller has open: a cacher's own, or   *)
(* one of the writers', and dest.new if the writer is alone.               *)
LEMMA CopyPreserves ==
  ASSUME IInv, NEW a \in Callers, Copy(a)
  PROVE  IInv'
  <1> USE DEF IInv
  <1>0. /\ pc[a] = "copy" /\ pos[a] < Length[a] /\ pos[a] \in Nat /\ Length[a] \in Nat
        /\ pc' = pc /\ fd[a] \in Callers /\ fd[a] \in Files
        /\ pos' = [pos EXCEPT ![a] = pos[a] + 1]
        /\ data' = [data EXCEPT ![fd[a]] = Written(data[fd[a]], pos[a] + 1, a)]
        /\ UNCHANGED <<dest, new, cached, temps, fd, overlapped, latest>>
    BY DEF Copy, TypeOK, Callers, Files
  <1>1. TypeOK'
    <2>1. \A i \in DOMAIN Written(data[fd[a]], pos[a] + 1, a) :
            Written(data[fd[a]], pos[a] + 1, a)[i] \in Files \cup {Hole}
      BY <1>0 DEF TypeOK, Written, Files
    <2>2. \A f \in Files : \A i \in DOMAIN data'[f] : data'[f][i] \in Files \cup {Hole}
      BY <1>0, <2>1 DEF TypeOK
    <2>3. DOMAIN data' = Files
      BY <1>0 DEF TypeOK
    <2> QED
      BY <1>0, <2>2, <2>3 DEF TypeOK
  <1>2. \A f \in Files : f # fd[a] => data'[f] = data[f]
    BY <1>0 DEF TypeOK
  <1>3. data'[fd[a]] = Written(data[fd[a]], pos[a] + 1, a)
    BY <1>0 DEF TypeOK
  <1>4. a \in Cachers => /\ fd[a] = a
                         /\ data'[a] = Blocks(a, pos'[a])
    BY <1>0, <1>3, OneMoreBlock DEF OwnTemp, TypeOK
  <1>5. a \in Writers => fd[a] \in Writers
    BY <1>0 DEF Apart, Callers
  <1>6. \A b \in Callers \ {a} : pos'[b] = pos[b]
    BY <1>0 DEF TypeOK
  <1>7. OwnTemp'
    <2> SUFFICES ASSUME NEW c \in Cachers
                 PROVE  /\ pc[c] = "copy" => fd[c] = c
                        /\ pc[c] \in {"stat", "open", "temp", "copy"}
                             => data'[c] = Blocks(c, pos'[c])
                        /\ pc[c] = "rename" => data'[c] = Content(c)
      BY <1>0 DEF OwnTemp
    <2>1. CASE c = a
      BY <2>1, <1>0, <1>4
    <2>2. CASE c # a
      <3>1. fd[a] # c
        BY <2>2, <1>4, <1>5 DEF Callers
      <3> QED
        BY <3>1, <2>2, <1>2, <1>6 DEF OwnTemp, Callers, Files
    <2> QED
      BY <2>1, <2>2
  <1>8. CacheDone'
    <2>1. cached # NoFile => cached # fd[a]
      BY <1>0, <1>4, <1>5 DEF CacheDone, TypeOK, Callers
    <2> QED
      BY <2>1, <1>0, <1>2 DEF CacheDone, TypeOK, Callers, Files
  <1>9. Apart'
    BY <1>0, <1>6 DEF Apart, Callers
  <1>10. Alone' /\ LastWriteStays'
    <2>1. CASE a \in Cachers
      <3>1. fd[a] \notin Writers \cup {Old}
        BY <2>1, <1>4 DEF Callers
      <3>2. \A f \in Writers \cup {Old} : data'[f] = data[f]
        BY <3>1, <1>2 DEF Files, Callers
      <3>3. \A w \in Writers : pos'[w] = pos[w]
        BY <2>1, <1>6 DEF Callers
      <3>4. Alone'
        BY <3>2, <3>3, <1>0 DEF Alone, Going, TypeOK
      <3>5. LastWriteStays'
        BY <3>2, <1>0 DEF LastWriteStays, TypeOK
      <3> QED
        BY <3>4, <3>5
    <2>2. CASE a \in Writers /\ ~overlapped
      <3>1. new # NoFile /\ fd[a] = new /\ data[new] = Blocks(a, pos[a]) /\ new # dest
        BY <2>2, <1>0 DEF Alone, Going
      <3>2. data'[new] = Blocks(a, pos'[a])
        BY <3>1, <1>0, <1>3, OneMoreBlock DEF TypeOK
      <3>3. \A w \in Writers : Going(w) => w = a
        BY <2>2, <1>0 DEF Alone, Going
      <3>4. Alone'
        BY <3>1, <3>2, <3>3, <2>2, <1>0 DEF Alone, Going
      <3>5. LastWriteStays'
        BY <3>1, <2>2, <1>0, <1>2 DEF LastWriteStays, TypeOK, Files, Callers
      <3> QED
        BY <3>4, <3>5
    <2>3. CASE overlapped
      BY <2>3, <1>0 DEF Alone, LastWriteStays
    <2> QED
      BY <2>1, <2>2, <2>3 DEF Callers
  <1> QED
    BY <1>1, <1>7, <1>8, <1>9, <1>10

(* A dest.new of nobody else, or one that is emptied first. *)
LEMMA CreatePreserves ==
  ASSUME IInv, NEW w \in Writers, Create(w)
  PROVE  IInv'
  <1> USE DEF IInv
  <1>0. /\ pc[w] = "idle" /\ pos[w] = 0
        /\ pc' = [pc EXCEPT ![w] = "copy"]
        /\ new' \in Writers /\ new' \in Files /\ new' = IF new = NoFile THEN w ELSE new
        /\ fd' = [fd EXCEPT ![w] = new']
        /\ data' = [data EXCEPT ![new'] = Blocks(w, 0)]
        /\ overlapped' = (overlapped \/ \E v \in Writers : Going(v))
        /\ UNCHANGED <<dest, cached, temps, pos, latest>>
    BY DEF Create, Goto, TypeOK, Apart, Callers, Files
  <1>1. /\ pc'[w] = "copy" /\ fd'[w] = new' /\ data'[new'] = Blocks(w, pos[w])
        /\ \A a \in Callers \ {w} : pc'[a] = pc[a] /\ fd'[a] = fd[a]
        /\ \A f \in Files \ {new'} : data'[f] = data[f]
    BY <1>0 DEF TypeOK, Callers
  <1>2. TypeOK'
    <2>1. DOMAIN data' = Files
      BY <1>0 DEF TypeOK
    <2>2. DOMAIN Blocks(w, 0) = {}
      BY DEF Blocks
    <2>3. \A f \in Files : \A i \in DOMAIN data'[f] : data'[f][i] \in Files \cup {Hole}
      BY <1>0, <1>1, <2>2 DEF TypeOK
    <2>4. /\ fd' \in [Callers -> Callers \cup {NoFile}]
          /\ pc' \in [Callers -> PCs]
          /\ overlapped' \in BOOLEAN
          /\ \A a \in Callers : pc'[a] = "copy" => fd'[a] # NoFile
      BY <1>0, <1>1 DEF TypeOK, PCs, Callers, Files
    <2> QED
      BY <1>0, <2>1, <2>3, <2>4 DEF TypeOK
  <1>3. \A c \in Cachers : /\ pc'[c] = pc[c] /\ fd'[c] = fd[c] /\ data'[c] = data[c]
                           /\ c \in Files
    BY <1>0, <1>1 DEF Callers, Files
  <1>4. OwnTemp'
    BY <1>0, <1>3 DEF OwnTemp
  <1>5. CacheDone'
    BY <1>0, <1>3 DEF CacheDone, TypeOK
  <1>6. Apart'
    BY <1>0, <1>1 DEF Apart, Callers
  <1>7. CASE overlapped'
    BY <1>2, <1>4, <1>5, <1>6, <1>7 DEF Alone, LastWriteStays
  <1>8. CASE ~overlapped'
    <2>1. ~overlapped /\ \A v \in Writers : ~Going(v)
      BY <1>8, <1>0
    <2>2. \A v \in Writers : Going(v)' => v = w
      BY <2>1, <1>1 DEF Going, Callers
    <2>3. new' # dest
      BY <2>1, <1>0 DEF Alone, Apart
    <2>4. Alone'
      BY <2>2, <2>3, <1>0, <1>1 DEF Alone, Going
    <2>5. LastWriteStays'
      BY <2>1, <2>3, <1>0, <1>1 DEF LastWriteStays, TypeOK, Files, Callers
    <2> QED
      BY <2>4, <2>5, <1>2, <1>4, <1>5, <1>6
  <1> QED
    BY <1>7, <1>8

(* What dest.new held is the destination now. *)
LEMMA RenamePreserves ==
  ASSUME IInv, NEW w \in Writers, Rename(w)
  PROVE  IInv'
  <1> USE DEF IInv
  <1>0. /\ pc[w] = "rename" /\ w \in Callers
        /\ pc'[w] \in {"failed", "done"}
        /\ pc' \in [Callers -> PCs]
        /\ \A a \in Callers \ {w} : pc'[a] = pc[a]
        /\ UNCHANGED <<cached, temps, data, fd, pos, overlapped>>
        /\ IF new = NoFile
           THEN UNCHANGED <<dest, new, latest>>
           ELSE dest' = new /\ new' = NoFile /\ latest' = w
    BY DEF Rename, Goto, TypeOK, PCs, Callers
  <1>1. TypeOK'
    BY <1>0 DEF TypeOK, Callers
  <1>2. \A c \in Cachers : pc'[c] = pc[c]
    BY <1>0 DEF Callers
  <1>3. OwnTemp' /\ CacheDone'
    BY <1>0, <1>2 DEF OwnTemp, CacheDone, TypeOK
  <1>4. Apart'
    <2>1. \A v \in Writers : pc'[v] = "idle" => v # w /\ pc[v] = "idle" /\ v # NoFile
      BY <1>0 DEF Callers, Files
    <2> QED
      BY <2>1, <1>0 DEF Apart
  <1>5. CASE overlapped
    BY <1>5, <1>0, <1>1, <1>3, <1>4 DEF Alone, LastWriteStays
  <1>6. CASE ~overlapped
    <2>1. new # NoFile /\ data[new] = Content(w)
      BY <1>6, <1>0 DEF Alone, Going
    <2>2. \A v \in Writers : ~Going(v)'
      BY <1>6, <1>0 DEF Alone, Going, Callers
    <2>3. Alone'
      BY <2>1, <2>2, <1>0 DEF Alone, Going
    <2>4. LastWriteStays'
      BY <2>1, <1>0 DEF LastWriteStays, Callers, Files
    <2> QED
      BY <2>3, <2>4, <1>1, <1>3, <1>4
  <1> QED
    BY <1>5, <1>6

(* A cacher's file comes to the cache path complete and closed. *)
LEMMA RenameTempPreserves ==
  ASSUME IInv, NEW c \in Cachers, RenameTemp(c)
  PROVE  IInv'
  <1> USE DEF IInv
  <1>0. /\ pc[c] = "rename" /\ c \in Callers /\ data[c] = Content(c)
        /\ pc' = [pc EXCEPT ![c] = "remove"]
        /\ cached' = c /\ temps' = temps \ {c}
        /\ UNCHANGED <<dest, new, data, fd, pos, overlapped, latest>>
    BY DEF RenameTemp, Goto, OwnTemp, Callers
  <1>1. pc'[c] = "remove" /\ \A a \in Callers \ {c} : pc'[a] = pc[a]
    BY <1>0 DEF TypeOK
  <1>2. TypeOK'
    BY <1>0, <1>1 DEF TypeOK, PCs
  <1>3. OwnTemp'
    BY <1>0, <1>1 DEF OwnTemp, Callers
  <1>4. CacheDone'
    BY <1>0, <1>1 DEF CacheDone, Callers, Files
  <1>5. \A w \in Writers : pc'[w] = pc[w]
    BY <1>1 DEF Callers
  <1>6. Apart' /\ Alone' /\ LastWriteStays'
    BY <1>0, <1>5 DEF Apart, Alone, LastWriteStays, Going
  <1> QED
    BY <1>2, <1>3, <1>4, <1>6

(* The steps that only move a caller on and open no file, nor name one. *)
Moves(a) ==
  \/ Copied(a) \/ CopyFails(a) \/ Die(a)
  \/ a \in Cachers /\ (Stat(a) \/ Open(a) \/ RemoveTemp(a))

(* They leave every file as it is. *)
LEMMA MovesPreserve ==
  ASSUME IInv, NEW a \in Callers, Moves(a)
  PROVE  IInv'
  <1> USE DEF IInv, Moves
  <1>0. /\ temps' \in SUBSET Cachers
        /\ UNCHANGED <<dest, new, cached, data, fd, pos, overlapped, latest>>
    BY DEF TypeOK, Copied, CopyFails, Die, Stat, Open, RemoveTemp
  <1>1. pc' = [pc EXCEPT ![a] = pc'[a]] /\ pc'[a] \in PCs \ {"idle", "stat"}
    BY DEF TypeOK, PCs, Goto, Copied, CopyFails, Die, Stat, Open, RemoveTemp
  <1>2. pc' \in [Callers -> PCs] /\ \A b \in Callers \ {a} : pc'[b] = pc[b]
    BY <1>1 DEF TypeOK, PCs
  <1>3. pc'[a] # "copy"
    BY DEF TypeOK, Goto, Copied, CopyFails, Die, Stat, Open, RemoveTemp
  <1>4. pc'[a] \in {"open", "temp"} => pc[a] \in {"stat", "open"} /\ a \in Cachers
    BY DEF TypeOK, Goto, Copied, CopyFails, Die, Stat, Open, RemoveTemp
  <1>5. pc'[a] = "rename" => pc[a] = "copy" /\ pos[a] = Length[a]
    BY DEF TypeOK, Goto, Copied, CopyFails, Die, Stat, Open, RemoveTemp
  <1>6. pc'[a] \in {"remove", "done"} => a \in Cachers /\ (cached # NoFile \/ pc[a] = "remove")
    BY DEF TypeOK, Goto, Copied, CopyFails, Die, Stat, Open, RemoveTemp
  <1>7. TypeOK'
    BY <1>0, <1>2, <1>3 DEF TypeOK
  <1>8. OwnTemp'
    <2> SUFFICES ASSUME NEW c \in Cachers
                 PROVE  /\ pc'[c] = "copy" => fd[c] = c
                        /\ pc'[c] \in {"stat", "open", "temp", "copy"}
                             => data[c] = Blocks(c, pos[c])
                        /\ pc'[c] = "rename" => data[c] = Content(c)
      BY <1>0 DEF OwnTemp
    <2>1. CASE c = a
      BY <2>1, <1>1, <1>3, <1>4, <1>5 DEF OwnTemp, Content
    <2>2. CASE c # a
      BY <2>2, <1>2 DEF OwnTemp, Callers
    <2> QED
      BY <2>1, <2>2
  <1>9. CacheDone'
    <2>1. cached = a => pc'[a] \in {"remove", "done", "dead"}
      <3> SUFFICES ASSUME cached = a PROVE pc'[a] \in {"remove", "done", "dead"}
        OBVIOUS
      <3>1. pc[a] \in {"remove", "done", "dead"}
        BY DEF CacheDone, Callers, Files
      <3> QED
        BY <3>1 DEF TypeOK, Goto, Copied, CopyFails, Die, Stat, Open, RemoveTemp
    <2>2. \A c \in Cachers : pc'[c] \in {"remove", "done"} => cached # NoFile
      BY <1>2, <1>6 DEF CacheDone, Callers
    <2> QED
      BY <2>1, <2>2, <1>0, <1>2 DEF CacheDone, TypeOK, Callers
  <1>10. Apart'
    BY <1>0, <1>1, <1>2 DEF Apart, Callers
  <1>11. \A w \in Writers : Going(w)' => Going(w)
    BY <1>2, <1>3, <1>5 DEF Going, Callers
  <1>12. Alone'
    <2> SUFFICES ASSUME ~overlapped, NEW w \in Writers
                 PROVE  /\ pc'[w] = "copy" => fd[w] = new /\ data[new] = Blocks(w, pos[w])
                        /\ pc'[w] = "rename" => data[new] = Content(w)
      BY <1>0, <1>11 DEF Alone, Going
    <2>1. CASE w = a
      BY <2>1, <1>3, <1>5 DEF Alone, Content
    <2>2. CASE w # a
      BY <2>2, <1>2 DEF Alone, Callers
    <2> QED
      BY <2>1, <2>2
  <1>13. LastWriteStays'
    BY <1>0 DEF LastWriteStays
  <1> QED
    BY <1>7, <1>8, <1>9, <1>10, <1>12, <1>13

(* The temporary file is the cacher's own, and empty. *)
LEMMA CreateTempPreserves ==
  ASSUME IInv, NEW c \in Cachers, CreateTemp(c)
  PROVE  IInv'
  <1> USE DEF IInv
  <1>0. /\ pc[c] = "temp" /\ c \in Callers
        /\ pc' = [pc EXCEPT ![c] = "copy"]
        /\ fd' = [fd EXCEPT ![c] = c]
        /\ temps' = temps \cup {c}
        /\ UNCHANGED <<dest, new, cached, data, pos, overlapped, latest>>
    BY DEF CreateTemp, Goto, Callers
  <1>1. /\ pc'[c] = "copy" /\ fd'[c] = c
        /\ \A a \in Callers \ {c} : pc'[a] = pc[a] /\ fd'[a] = fd[a]
    BY <1>0 DEF TypeOK
  <1>2. TypeOK'
    <2>1. c # NoFile
      BY DEF Files, Callers
    <2> QED
      BY <2>1, <1>0, <1>1 DEF TypeOK, PCs
  <1>3. OwnTemp'
    BY <1>0, <1>1 DEF OwnTemp, Callers
  <1>4. CacheDone'
    BY <1>0, <1>1 DEF CacheDone, Callers, TypeOK
  <1>5. \A w \in Writers : pc'[w] = pc[w] /\ fd'[w] = fd[w]
    BY <1>1 DEF Callers
  <1>6. Apart' /\ Alone' /\ LastWriteStays'
    BY <1>0, <1>5 DEF Apart, Alone, LastWriteStays, Going
  <1> QED
    BY <1>2, <1>3, <1>4, <1>6

(* The invariant holds in every state of every behaviour. *)
THEOREM InductiveInvariant == Spec => []IInv
  <1>1. IInv /\ [Next]_vars => IInv'
    <2> SUFFICES ASSUME IInv, [Next]_vars PROVE IInv'
      OBVIOUS
    <2>1. ASSUME NEW a \in Callers, Copy(a) PROVE IInv'
      BY <2>1, CopyPreserves
    <2>2. ASSUME NEW a \in Callers, Copied(a) \/ CopyFails(a) \/ Die(a) PROVE IInv'
      BY <2>2, MovesPreserve DEF Moves
    <2>3. ASSUME NEW w \in Writers, Create(w) \/ Rename(w) PROVE IInv'
      BY <2>3, CreatePreserves, RenamePreserves
    <2>4. ASSUME NEW c \in Cachers, Stat(c) \/ Open(c) \/ RemoveTemp(c) PROVE IInv'
      BY <2>4, MovesPreserve DEF Callers, Moves
    <2>5. ASSUME NEW c \in Cachers, CreateTemp(c) \/ RenameTemp(c) PROVE IInv'
      BY <2>5, CreateTempPreserves, RenameTempPreserves
    <2>6. CASE UNCHANGED vars
      BY <2>6 DEF vars, IInv, TypeOK, OwnTemp, CacheDone, Apart, Alone, Going,
                  LastWriteStays
    <2> QED
      BY <2>1, <2>2, <2>3, <2>4, <2>5, <2>6 DEF Next
  <1> QED
    BY InitIInv, <1>1, PTL DEF Spec

(* Write and Cache write what they were given and name only what they      *)
(* made: the variables keep their types.                                   *)
THEOREM TypeCorrect == Spec => []TypeOK
  BY InductiveInvariant, PTL DEF IInv

(* Cache: whoever reads the cache path finds a whole file there, and finds *)
(* one if a call has returned it.                                          *)
THEOREM CacheHoldsWholeFiles == Spec => []CacheIsWhole
  <1>1. IInv => CacheIsWhole
    BY DEF IInv, CacheDone, CacheIsWhole
  <1> QED
    BY <1>1, InductiveInvariant, PTL

(* Write: as long as no two calls overlap, the destination is what the     *)
(* last that succeeded wrote, whatever the others left behind.             *)
THEOREM LastWriteIsKept == Spec => []LastWriteStays
  BY InductiveInvariant, PTL DEF IInv
=============================================================================
