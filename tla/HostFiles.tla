----------------------------- MODULE HostFiles -----------------------------
(***************************************************************************)
(* Files that bass writes on the host.  HostFilesystem.Write of            *)
(* pkg/bass/host_path.go, under (write), fills dest.new and renames it to  *)
(* dest; Cache of pkg/bass/cache.go fills a temporary file and renames it  *)
(* to the cache path, unless there is a file at that path already.  Any    *)
(* number of goroutines and processes do so at once, and may die half way. *)
(*                                                                         *)
(* External: the file system.  A file is named by who created it; an open  *)
(* file stays what it is when its name is taken away.                      *)
(***************************************************************************)
EXTENDS Naturals

CONSTANTS
  Writers,  \* the calls of Write, all of the same destination
  Cachers,  \* the calls of Cache, all of the same cache path
  Old,      \* who wrote the destination before
  NoFile,   \* nothing has this name
  Hole,     \* what is read where nobody has written
  Length    \* the number of blocks that each of them writes

Callers == Writers \cup Cachers
Files == Callers \cup {Old}

ASSUME HostFilesAssumption ==
  /\ Writers \cap Cachers = {}
  /\ Old \notin Callers
  /\ NoFile \notin Files
  /\ Hole \notin Files
  /\ Length \in [Files -> Nat]

VARIABLES
  dest,       \* the file called dest
  new,        \* the file called dest.new
  cached,     \* the file at the cache path
  temps,      \* the cachers whose temporary file has its name
  data,       \* the blocks of each file, by who wrote them
  fd,         \* the file each caller has open
  pos,        \* the blocks it has written
  pc,         \* where it is
  overlapped, \* history: a Write began while another was going on
  latest      \* history: whose Write returned last

vars == <<dest, new, cached, temps, data, fd, pos, pc, overlapped, latest>>

(* "stat", "open", "temp": the beginning of Cache.  "copy": in io.Copy.    *)
(* "rename": before os.Rename.  "remove": Cache returns nil or, at "undo", *)
(* an error, and its temporary file is removed.                            *)
PCs == {"idle", "stat", "open", "temp", "copy", "rename", "remove", "undo",
        "done", "failed", "dead"}

(* The content that a writes, all of it or the first n blocks. *)
Blocks(a, n) == [i \in 1..n |-> a]
Content(a) == Blocks(a, Length[a])

(* Names are those of files there can be; only a caller that opened a file *)
(* copies, and never more than it has to.                                  *)
TypeOK ==
  /\ dest \in Writers \cup {Old, NoFile}
  /\ new \in Writers \cup {NoFile}
  /\ cached \in Cachers \cup {NoFile}
  /\ temps \in SUBSET Cachers
  /\ DOMAIN data = Files
  /\ \A f \in Files : \A i \in DOMAIN data[f] : data[f][i] \in Files \cup {Hole}
  /\ fd \in [Callers -> Callers \cup {NoFile}]
  /\ \A a \in Callers : pc[a] = "copy" => fd[a] # NoFile
  /\ pos \in [Callers -> Nat] /\ \A a \in Callers : pos[a] <= Length[a]
  /\ pc \in [Callers -> PCs]
  /\ overlapped \in BOOLEAN
  /\ latest \in Writers \cup {Old, NoFile}

Init ==
  /\ dest \in {Old, NoFile} /\ latest = dest
  /\ new = NoFile /\ cached = NoFile /\ temps = {}
  /\ data = [f \in Files |-> IF f = Old THEN Content(Old) ELSE Blocks(f, 0)]
  /\ fd = [a \in Callers |-> NoFile]
  /\ pos = [a \in Callers |-> 0]
  /\ pc = [a \in Callers |-> IF a \in Writers THEN "idle" ELSE "stat"]
  /\ overlapped = FALSE

Goto(a, step) == pc' = [pc EXCEPT ![a] = step]
Going(w) == pc[w] \in {"copy", "rename"}

-----------------------------------------------------------------------------
(* io.Copy *)

(* A block is written at the caller's own offset, whatever others did to   *)
(* the file meanwhile.                                                     *)
Written(blocks, at, block) ==
  [i \in 1..at \cup DOMAIN blocks |->
     IF i = at THEN block ELSE IF i \in DOMAIN blocks THEN blocks[i] ELSE Hole]

(* Mutant: one block too many. *)
CopyPastEnd(a) ==
  /\ pc[a] = "copy"
  /\ pos' = [pos EXCEPT ![a] = @ + 1]
  /\ data' = [data EXCEPT ![fd[a]] = Written(@, pos[a] + 1, a)]
  /\ UNCHANGED <<dest, new, cached, temps, fd, pc, overlapped, latest>>

Copy(a) ==
  /\ pc[a] = "copy"
  /\ pos[a] < Length[a]
  /\ pos' = [pos EXCEPT ![a] = @ + 1]
  /\ data' = [data EXCEPT ![fd[a]] = Written(@, pos[a] + 1, a)]
  /\ UNCHANGED <<dest, new, cached, temps, fd, pc, overlapped, latest>>

Copied(a) ==
  /\ pc[a] = "copy"
  /\ pos[a] = Length[a]
  /\ Goto(a, "rename")
  /\ UNCHANGED <<dest, new, cached, temps, data, fd, pos, overlapped, latest>>

(* The source cannot be read any further, or the disk is full: Write       *)
(* leaves dest.new behind, Cache has its temporary file removed.           *)
CopyFails(a) ==
  /\ pc[a] = "copy"
  /\ Goto(a, IF a \in Writers THEN "failed" ELSE "undo")
  /\ UNCHANGED <<dest, new, cached, temps, data, fd, pos, overlapped, latest>>

-----------------------------------------------------------------------------
(* HostFilesystem.Write *)

(* Mutant: what is left of an earlier dest.new is not truncated. *)
CreateOver(w) ==
  /\ pc[w] = "idle"
  /\ Goto(w, "copy")
  /\ new' = IF new = NoFile THEN w ELSE new
  /\ fd' = [fd EXCEPT ![w] = new']
  /\ overlapped' = (overlapped \/ \E v \in Writers : Going(v))
  /\ UNCHANGED <<dest, cached, temps, data, pos, latest>>

(* os.Create: a dest.new that is there already is truncated and used. *)
Create(w) ==
  /\ pc[w] = "idle"
  /\ Goto(w, "copy")
  /\ new' = IF new = NoFile THEN w ELSE new
  /\ fd' = [fd EXCEPT ![w] = new']
  /\ data' = [data EXCEPT ![new'] = Blocks(w, 0)]
  /\ overlapped' = (overlapped \/ \E v \in Writers : Going(v))
  /\ UNCHANGED <<dest, cached, temps, pos, latest>>

Rename(w) ==
  /\ pc[w] = "rename"
  /\ IF new = NoFile
     THEN /\ Goto(w, "failed")
          /\ UNCHANGED <<dest, new, latest>>
     ELSE /\ Goto(w, "done")
          /\ dest' = new /\ new' = NoFile
          /\ latest' = w
  /\ UNCHANGED <<cached, temps, data, fd, pos, overlapped>>

-----------------------------------------------------------------------------
(* Cache *)

Stat(c) ==
  /\ pc[c] = "stat"
  /\ Goto(c, IF cached # NoFile THEN "done" ELSE "open")
  /\ UNCHANGED <<dest, new, cached, temps, data, fd, pos, overlapped, latest>>

(* Opening the readable runs the thunk that makes it. *)
Open(c) ==
  /\ pc[c] = "open"
  /\ Goto(c, "temp") \/ Goto(c, "failed")
  /\ UNCHANGED <<dest, new, cached, temps, data, fd, pos, overlapped, latest>>

(* Mutant: the cache path is written to directly. *)
CreateInPlace(c) ==
  /\ pc[c] = "temp"
  /\ Goto(c, "copy")
  /\ cached' = c
  /\ fd' = [fd EXCEPT ![c] = c]
  /\ UNCHANGED <<dest, new, temps, data, pos, overlapped, latest>>

(* os.CreateTemp: a file of its own, whose name nobody else uses. *)
CreateTemp(c) ==
  /\ pc[c] = "temp"
  /\ Goto(c, "copy")
  /\ temps' = temps \cup {c}
  /\ fd' = [fd EXCEPT ![c] = c]
  /\ UNCHANGED <<dest, new, cached, data, pos, overlapped, latest>>

RenameTemp(c) ==
  /\ pc[c] = "rename"
  /\ Goto(c, "remove")
  /\ cached' = c
  /\ temps' = temps \ {c}
  /\ UNCHANGED <<dest, new, data, fd, pos, overlapped, latest>>

(* The deferred os.Remove finds nothing after a rename. *)
RemoveTemp(c) ==
  /\ pc[c] \in {"remove", "undo"}
  /\ Goto(c, IF pc[c] = "remove" THEN "done" ELSE "failed")
  /\ temps' = temps \ {c}
  /\ UNCHANGED <<dest, new, cached, data, fd, pos, overlapped, latest>>

-----------------------------------------------------------------------------
(* The process of a dies: whatever it wrote stays. *)
Die(a) ==
  /\ pc[a] \notin {"done", "failed", "dead"}
  /\ Goto(a, "dead")
  /\ UNCHANGED <<dest, new, cached, temps, data, fd, pos, overlapped, latest>>

Next ==
  \/ \E a \in Callers : Copy(a) \/ Copied(a) \/ CopyFails(a) \/ Die(a)
  \/ \E w \in Writers : Create(w) \/ Rename(w)
  \/ \E c \in Cachers : \/ Stat(c) \/ Open(c) \/ CreateTemp(c)
                        \/ RenameTemp(c) \/ RemoveTemp(c)

Spec == Init /\ [][Next]_vars

-----------------------------------------------------------------------------
(* Whoever opens the cache path finds all that one call of Cache copied,   *)
(* and a call that returned the path has left a file there: however many   *)
(* filled it at once, failed or died.                                      *)
CacheIsWhole ==
  /\ cached # NoFile => data[cached] = Content(cached)
  /\ \A c \in Cachers : pc[c] = "done" => cached # NoFile

(* "Writes are atomic", says the documentation of (write): the destination *)
(* is always what some Write copied as a whole.                            *)
WritesAreAtomic == dest # NoFile => \E a \in Files : data[dest] = Content(a)

(* They are as long as no two overlap: the destination is what the last    *)
(* Write that succeeded wrote, even after others have failed or died and   *)
(* left their dest.new.                                                    *)
LastWriteStays ==
  ~overlapped => IF latest = NoFile THEN dest = NoFile
                 ELSE dest # NoFile /\ data[dest] = Content(latest)
=============================================================================
