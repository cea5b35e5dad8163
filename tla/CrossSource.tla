---------------------------- MODULE CrossSource ----------------------------
(***************************************************************************)
(* pkg/bass/across.go: a goroutine per source reads its values and sends   *)
(* them over an unbuffered channel, one at a time; Next first waits for a  *)
(* value of every source, and from then on combines what reflect.Select    *)
(* finds ready.  One goroutine calls Next: its fields are not locked.      *)
(***************************************************************************)
EXTENDS Naturals, FiniteSets

CONSTANTS
  N,             \* the number of sources
  MaxLength,     \* bound: the values of a source
  MaxInterrupts  \* bound on the calls of Next whose context ends

Sources == 1..N
Lengths == [Sources -> 0..MaxLength]  \* the numbers of values they may have

ASSUME CrossAssumption ==
  /\ N \in Nat
  /\ MaxLength \in Nat
  /\ MaxInterrupts \in Nat

VARIABLES
  length,      \* the number of values of each source
  update,      \* what each update goroutine is doing
  pos,         \* the number of its last value it has read from its source
  cancelled,   \* the context of the update goroutines has ended
  next,        \* cross.next: the number of the last value received, 0 for nil
  reader,      \* where the call of Next is
  updated,     \* Next: the first loop has received something
  hasNew,      \* Next: something was received while hasDefault
  nilled,      \* Next: the sources whose case has no channel any more
  exhausted,   \* Next: the number of closed channels found
  done,        \* the context of the call has ended
  last,        \* history: the last list that was returned
  ended,       \* history: ErrEndOfSource was returned
  interrupts   \* history: the calls of Next whose context ended

updateVars == <<length, update, pos, cancelled>>
localVars  == <<updated, hasNew, nilled, exhausted>>
histVars   == <<last, ended>>
vars == <<updateVars, next, reader, localVars, done, histVars, interrupts>>

(* update: "reading" is in stream.Next, "sending" in the select, "closed"  *)
(* has closed its channel, "gone" has returned without.  reader: "fill" is *)
(* the first loop, "poll" the select with a default, "block" without.      *)
TypeOK ==
  /\ length \in [Sources -> Nat]
  /\ update \in [Sources -> {"reading", "sending", "closed", "gone"}]
  /\ pos \in [Sources -> Nat] /\ \A i \in Sources : pos[i] <= length[i]
  /\ cancelled \in BOOLEAN
  /\ next \in [Sources -> Nat]
  /\ reader \in {"idle", "fill", "poll", "block"}
  /\ updated \in BOOLEAN /\ hasNew \in BOOLEAN /\ done \in BOOLEAN
  /\ nilled \in SUBSET Sources
  /\ exhausted \in Nat
  /\ last \in [Sources -> Nat]
  /\ ended \in BOOLEAN
  /\ interrupts \in Nat

Init ==
  /\ length \in Lengths
  /\ update = [i \in Sources |-> "reading"]
  /\ pos = [i \in Sources |-> 0]
  /\ cancelled = FALSE
  /\ next = [i \in Sources |-> 0]
  /\ reader = "idle"
  /\ updated = FALSE /\ hasNew = FALSE /\ nilled = {} /\ exhausted = 0
  /\ done = FALSE
  /\ last = [i \in Sources |-> 0] /\ ended = FALSE /\ interrupts = 0

-----------------------------------------------------------------------------
(* The update goroutine of source i *)

(* Mutant: the end of the stream is overlooked once. *)
ReadsPastEnd(i) ==
  /\ update[i] = "reading"
  /\ pos' = [pos EXCEPT ![i] = @ + 1]
  /\ update' = [update EXCEPT ![i] = "sending"]
  /\ UNCHANGED <<length, cancelled, next, reader, localVars, done, histVars, interrupts>>

Reads(i) ==
  /\ update[i] = "reading"
  /\ pos[i] < length[i]
  /\ pos' = [pos EXCEPT ![i] = @ + 1]
  /\ update' = [update EXCEPT ![i] = "sending"]
  /\ UNCHANGED <<length, cancelled, next, reader, localVars, done, histVars, interrupts>>

(* stream.Next returns an error: its end, or that it was interrupted. *)
Closes(i) ==
  /\ update[i] = "reading"
  /\ pos[i] = length[i] \/ cancelled
  /\ update' = [update EXCEPT ![i] = "closed"]
  /\ UNCHANGED <<length, pos, cancelled, next, reader, localVars, done, histVars,
                 interrupts>>

(* The goroutine gives its value up, and does not close its channel. *)
Leaves(i) ==
  /\ update[i] = "sending"
  /\ cancelled
  /\ update' = [update EXCEPT ![i] = "gone"]
  /\ UNCHANGED <<length, pos, cancelled, next, reader, localVars, done, histVars,
                 interrupts>>

(* CrossSource.Close, or the end of the context Across was called in. *)
Cancel ==
  /\ cancelled' = TRUE
  /\ UNCHANGED <<length, update, pos, next, reader, localVars, done, histVars,
                 interrupts>>

-----------------------------------------------------------------------------
(* CrossSource.Next *)

Call ==
  /\ reader = "idle"
  /\ done' = FALSE
  /\ updated' = FALSE /\ hasNew' = FALSE /\ nilled' = {} /\ exhausted' = 0
  /\ IF N = 0 THEN ended' = TRUE /\ UNCHANGED reader
              ELSE reader' = "fill" /\ UNCHANGED ended
  /\ UNCHANGED <<updateVars, next, last, interrupts>>

(* The context of the call ends. *)
Interrupt ==
  /\ reader # "idle"
  /\ interrupts < MaxInterrupts
  /\ interrupts' = interrupts + 1
  /\ done' = TRUE
  /\ UNCHANGED <<updateVars, next, reader, localVars, histVars>>

ReturnList(values) ==
  /\ reader' = "idle" /\ last' = values /\ UNCHANGED ended
ReturnEnd ==
  /\ reader' = "idle" /\ ended' = TRUE /\ UNCHANGED last
ReturnInterrupted ==
  /\ reader' = "idle" /\ UNCHANGED histVars

(* Next receives the value that i's goroutine is sending. *)
Received(i) ==
  /\ update[i] = "sending"
  /\ update' = [update EXCEPT ![i] = "reading"]
  /\ next' = [next EXCEPT ![i] = pos[i]]
  /\ UNCHANGED <<length, pos, cancelled, done, interrupts>>

(* The first loop: sources without a value, in order. *)
Missing(i) == next[i] = 0 /\ \A before \in 1..(i - 1) : next[before] # 0

FillReceives(i) ==
  /\ reader = "fill" /\ Missing(i)
  /\ Received(i)
  /\ updated' = TRUE
  /\ UNCHANGED <<reader, hasNew, nilled, exhausted, histVars>>

FillEnds(i) ==
  /\ reader = "fill" /\ Missing(i)
  /\ update[i] = "closed"
  /\ ReturnEnd
  /\ UNCHANGED <<updateVars, next, localVars, done, interrupts>>

FillInterrupted(i) ==
  /\ reader = "fill" /\ Missing(i)
  /\ done
  /\ ReturnInterrupted
  /\ UNCHANGED <<updateVars, next, localVars, done, interrupts>>

Filled ==
  /\ reader = "fill"
  /\ \A i \in Sources : next[i] # 0
  /\ IF updated THEN ReturnList(next) ELSE reader' = "poll" /\ UNCHANGED histVars
  /\ UNCHANGED <<updateVars, next, localVars, done, interrupts>>

(* reflect.Select takes any case that is ready, and the default only when  *)
(* none is.                                                                *)
Ready(i) == i \notin nilled /\ update[i] \in {"sending", "closed"}

SelectInterrupted ==
  /\ reader \in {"poll", "block"}
  /\ done
  /\ ReturnInterrupted
  /\ UNCHANGED <<updateVars, next, localVars, done, interrupts>>

SelectDefault ==
  /\ reader = "poll"
  /\ ~done /\ \A i \in Sources : ~Ready(i)
  /\ IF hasNew THEN ReturnList(next) ELSE reader' = "block" /\ UNCHANGED histVars
  /\ UNCHANGED <<updateVars, next, localVars, done, interrupts>>

(* Mutant: a closed channel is not counted. *)
SelectClosedUncounted(i) ==
  /\ reader \in {"poll", "block"}
  /\ Ready(i) /\ update[i] = "closed"
  /\ nilled' = nilled \cup {i}
  /\ UNCHANGED <<updateVars, next, reader, updated, hasNew, exhausted, done, histVars,
                 interrupts>>

SelectClosed(i) ==
  /\ reader \in {"poll", "block"}
  /\ Ready(i) /\ update[i] = "closed"
  /\ exhausted' = exhausted + 1
  /\ nilled' = nilled \cup {i}
  /\ IF exhausted' = N THEN ReturnEnd ELSE UNCHANGED <<reader, histVars>>
  /\ UNCHANGED <<updateVars, next, updated, hasNew, done, interrupts>>

(* Mutant: the channel stays in the select after a value was received. *)
PollKeepsChannel(i) ==
  /\ reader = "poll"
  /\ Ready(i) /\ Received(i)
  /\ hasNew' = TRUE
  /\ UNCHANGED <<reader, updated, nilled, exhausted, histVars>>

PollReceives(i) ==
  /\ reader = "poll"
  /\ Ready(i) /\ Received(i)
  /\ hasNew' = TRUE
  /\ nilled' = nilled \cup {i}
  /\ UNCHANGED <<reader, updated, exhausted, histVars>>

BlockReceives(i) ==
  /\ reader = "block"
  /\ Ready(i) /\ Received(i)
  /\ ReturnList(next')
  /\ UNCHANGED localVars

-----------------------------------------------------------------------------
NextStep ==
  \/ Filled \/ SelectInterrupted \/ SelectDefault
  \/ \E i \in Sources : \/ FillReceives(i) \/ FillEnds(i) \/ FillInterrupted(i)
                        \/ SelectClosed(i) \/ PollReceives(i) \/ BlockReceives(i)

Updates(i) == Reads(i) \/ Closes(i) \/ Leaves(i)

Next ==
  \/ Call \/ Interrupt \/ NextStep
  \/ Cancel \/ \E i \in Sources : Updates(i)

Spec == Init /\ [][Next]_vars

(* Every source yields its next value or its end, and the reader goes on   *)
(* calling Next.                                                           *)
FairSpec ==
  /\ Spec
  /\ WF_vars(Call) /\ WF_vars(NextStep)
  /\ \A i \in Sources : WF_vars(Updates(i))

-----------------------------------------------------------------------------
(* "Each list has the last value for each source.  Values from each source *)
(* are never skipped": every list moves some sources on by one value, and  *)
(* the end comes only after the last values have been listed.              *)
Promise == INSTANCE LatestValues WITH interrupted <- interrupts > 0

KeepsPromise == Promise!Spec

(* The reader comes to the end of the sources, however slow some are and   *)
(* even if some of its calls are interrupted, unless the source is         *)
(* cancelled: then Next may wait forever for a goroutine that is gone.     *)
ReachesEnd == <>(ended \/ cancelled)
=============================================================================
