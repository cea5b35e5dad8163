---------------------------- MODULE LatestValues ----------------------------
(***************************************************************************)
(* What (across) promises the reader of its source: lists of the last      *)
(* value of every source, in which no value of a source is skipped and no  *)
(* list is repeated, until all sources have run dry.  The values of a      *)
(* source are numbered from 1.                                             *)
(*                                                                         *)
(* A Next that was interrupted may lose values, and cancelling the source  *)
(* may end it early.                                                       *)
(***************************************************************************)
EXTENDS Naturals

CONSTANTS
  Sources,  \* the sources combined
  Lengths   \* the numbers of values they may have

VARIABLES
  length,       \* the number of values of each source
  last,         \* the last list: the number of each source's value, 0: none yet
  ended,        \* ErrEndOfSource was returned
  interrupted,  \* some Next was interrupted
  cancelled     \* the source was closed, or the context it was made in ended

vars == <<length, last, ended, interrupted, cancelled>>

Init ==
  /\ length \in Lengths
  /\ last = [i \in Sources |-> 0]
  /\ ended = FALSE /\ interrupted = FALSE /\ cancelled = FALSE

(* Some sources advance, each by one value; the first list has them all.   *)
(* After an interruption they may advance by more.                         *)
Yield ==
  /\ ~ended
  /\ last' \in [Sources -> Nat]
  /\ last' # last
  /\ \A i \in Sources : /\ last[i] <= last'[i]
                        /\ 0 < last'[i] /\ last'[i] <= length[i]
                        /\ ~interrupted => last'[i] <= last[i] + 1
  /\ UNCHANGED <<length, ended, interrupted, cancelled>>

(* The end comes when every value has been listed, or at once when a       *)
(* source is empty.                                                        *)
End ==
  /\ ended' = TRUE
  /\ \/ last = length
     \/ \E i \in Sources : length[i] = 0
     \/ interrupted \/ cancelled
  /\ UNCHANGED <<length, last, interrupted, cancelled>>

Interrupt == interrupted' = TRUE /\ UNCHANGED <<length, last, ended, cancelled>>
Cancel == cancelled' = TRUE /\ UNCHANGED <<length, last, ended, interrupted>>

Next == Yield \/ End \/ Interrupt \/ Cancel

Spec == Init /\ [][Next]_vars
=============================================================================
