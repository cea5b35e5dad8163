----------------------------- MODULE MemoEdits -----------------------------
(***************************************************************************)
(* Sequences of the edits of MemoContent against the table that a lock     *)
(* file stands for: every bounded content, with the duplicates that merges *)
(* leave, is edited at most MaxEdits times.                                *)
(***************************************************************************)
EXTENDS MemoContent

CONSTANT MaxEdits   \* bound on the edits of a behaviour

VARIABLES
  lockfile, \* its content
  table,    \* what was stored and not removed, by key
  unique,   \* the content that we started with had no duplicates
  edits     \* the edits so far

editVars == <<lockfile, table, unique, edits>>

NoRepeat(seq, Field(_)) ==
  \A i, j \in DOMAIN seq : Field(seq[i]) = Field(seq[j]) => i = j

Unique(content) ==
  /\ NoRepeat(content, LAMBDA m : m.module)
  /\ \A i \in DOMAIN content :
       /\ NoRepeat(content[i].calls, LAMBDA c : c.binding)
       /\ \A j \in DOMAIN content[i].calls :
            NoRepeat(content[i].calls[j].results, LAMBDA r : r.input)

EditsInit ==
  /\ lockfile \in Contents
  /\ table = AsTable(lockfile)
  /\ unique = Unique(lockfile)
  /\ edits = 0

Store(key, out) ==
  /\ lockfile' = StoredIn(lockfile, key, out)
  /\ table' = [table EXCEPT ![key] = out]

Remove(key) ==
  /\ lockfile' = RemovedFrom(lockfile, key)
  /\ table' = [table EXCEPT ![key] = NoOutput]

Bump(recomputed) ==
  /\ lockfile' = Bumped(lockfile, recomputed)
  /\ table' = [key \in Keys |-> IF table[key] = NoOutput THEN NoOutput
                                ELSE recomputed[key]]

EditsNext ==
  /\ edits < MaxEdits
  /\ edits' = edits + 1
  /\ UNCHANGED unique
  /\ \/ \E key \in Keys, out \in Outputs : Store(key, out)
     \/ \E key \in Keys : Remove(key)
     \/ \E out \in Outputs : Bump([key \in Keys |-> out])

EditsSpec == EditsInit /\ [][EditsNext]_editVars

(* However the lock file was merged, it behaves as a table: after a Store  *)
(* the key recalls the new result, after a Remove it recalls nothing, and  *)
(* no other key is disturbed by a stale duplicate that resurfaces.         *)
EditsFollowTable == AsTable(lockfile) = table

(* No edit introduces duplicates: a lock file that only ever went through  *)
(* Store, Remove and bump has one memo per module, one call per binding    *)
(* and one result per input.                                               *)
UniqueStays == unique => Unique(lockfile)
=============================================================================
