------------------------- MODULE CrossSourceProofs -------------------------
(***************************************************************************)
(* CrossSource implements LatestValues, for any number of sources of any   *)
(* length and any number of interrupted calls.                             *)
(***************************************************************************)
EXTENDS CrossSource, FiniteSetTheorems, TLAPS

(* What Next has received is what the goroutines have read, but for the    *)
(* value each of them may hold.                                            *)
InFlight ==
  \A i \in Sources :
    /\ update[i] \in {"sending", "gone"} => next[i] + 1 = pos[i]
    /\ update[i] \in {"reading", "closed"} => next[i] = pos[i]
    /\ update[i] = "closed" => cancelled \/ pos[i] = length[i]

(* Nothing is listed before it is received. *)
Behind == \A i \in Sources : last[i] <= next[i]

(* The locals of Next.  A source without a case was received from or found *)
(* closed, and only the latter counts as exhausted.                        *)
Locals ==
  /\ reader \in {"poll", "block"} => ~updated /\ \A i \in Sources : next[i] # 0
  /\ reader = "block" => ~hasNew
  /\ reader = "fill" => ~hasNew /\ nilled = {} /\ exhausted = 0
  /\ reader = "fill" /\ updated => \E i \in Sources : last[i] < next[i]
  /\ reader = "poll" /\ hasNew => \E i \in Sources : last[i] < next[i]
  /\ exhausted <= Cardinality(nilled)
  /\ hasNew => exhausted < Cardinality(nilled)
  /\ ~hasNew => \A i \in nilled : update[i] = "closed"
  /\ done => interrupts # 0

(* As long as no call was interrupted, what was received and not listed is *)
(* one value per source, received by the call that is going on.            *)
NoneLost ==
  interrupts = 0 /\ ~ended =>
    /\ \A i \in Sources : next[i] <= last[i] + 1
    /\ reader \in {"idle", "block"} => next = last
    /\ reader = "fill" /\ ~updated => next = last
    /\ reader = "poll" => \A i \in Sources : i \notin nilled => next[i] = last[i]
    /\ reader = "poll" /\ ~hasNew => next = last

(* After the end there is nothing to receive: a source that never had a    *)
(* value is closed, or all are.                                            *)
EndIsFinal ==
  ended => \/ \E i \in Sources : next[i] = 0 /\ update[i] = "closed"
           \/ ~updated /\ ~hasNew /\ \A i \in Sources : update[i] = "closed"

IInv == TypeOK /\ InFlight /\ Behind /\ Locals /\ NoneLost /\ EndIsFinal

USE CrossAssumption

(* There are N sources. *)
LEMMA CardN == Cardinality(Sources) = N /\ IsFiniteSet(Sources)
  BY FS_Interval DEF Sources

(* How many sources lost their case: one more with each, N with the last. *)
LEMMA NilledBound ==
  ASSUME TypeOK
  PROVE  /\ IsFiniteSet(nilled) /\ Cardinality(nilled) \in Nat
         /\ Cardinality(nilled) <= N
         /\ \A i \in Sources \ nilled : Cardinality(nilled \cup {i}) = Cardinality(nilled) + 1
         /\ Cardinality(nilled) = N => nilled = Sources
  <1>1. nilled \subseteq Sources
    BY DEF TypeOK
  <1> QED
    BY <1>1, CardN, FS_Subset, FS_AddElement, FS_CardinalityType

(* Across returns with nothing read and nothing received. *)
LEMMA InitIInv == Init => IInv
  <1> SUFFICES ASSUME Init PROVE IInv
    OBVIOUS
  <1>1. length \in [Sources -> Nat]
    BY DEF Init, Lengths
  <1>2. TypeOK
    <2>1. pos = [i \in Sources |-> 0] /\ \A i \in Sources : pos[i] <= length[i]
      BY <1>1 DEF Init
    <2>2. update \in [Sources -> {"reading", "sending", "closed", "gone"}]
      BY DEF Init
    <2>3. /\ pos \in [Sources -> Nat]
          /\ next \in [Sources -> Nat]
          /\ last \in [Sources -> Nat]
      BY DEF Init
    <2>4. /\ cancelled \in BOOLEAN /\ updated \in BOOLEAN /\ hasNew \in BOOLEAN
          /\ done \in BOOLEAN /\ ended \in BOOLEAN
      BY DEF Init
    <2>5. /\ reader \in {"idle", "fill", "poll", "block"}
          /\ nilled \in SUBSET Sources
          /\ exhausted \in Nat /\ interrupts \in Nat
      BY DEF Init
    <2> QED
      BY <1>1, <2>1, <2>2, <2>3, <2>4, <2>5 DEF TypeOK
  <1>3. InFlight /\ Behind /\ NoneLost /\ EndIsFinal
    BY <1>2 DEF Init, TypeOK, InFlight, Behind, NoneLost, EndIsFinal
  <1>4. Locals
    BY FS_EmptySet DEF Init, Locals
  <1> QED
    BY <1>2, <1>3, <1>4 DEF IInv

-----------------------------------------------------------------------------
(* A source that yields a value preserves the inductive invariant. *)
LEMMA ReadsIInv ==
  ASSUME NEW i \in Sources, IInv, Reads(i)
  PROVE  IInv'
  <1> USE DEF IInv
  <1>1. TypeOK'
    BY DEF Reads, updateVars, localVars, histVars, TypeOK
  <1>2. InFlight' /\ Behind'
    BY DEF Reads, updateVars, localVars, histVars, TypeOK, InFlight, Behind
  <1>3. Locals'
    BY NilledBound, FS_EmptySet DEF Reads, updateVars, localVars, histVars, TypeOK, InFlight, Behind, Locals
  <1>4. NoneLost'
    BY DEF Reads, updateVars, localVars, histVars, TypeOK, InFlight, Behind, Locals, NoneLost
  <1>5. EndIsFinal'
    BY NilledBound DEF Reads, updateVars, localVars, histVars, TypeOK, InFlight, Locals, EndIsFinal
  <1> QED
    BY <1>1, <1>2, <1>3, <1>4, <1>5

(* A source that ends preserves the inductive invariant. *)
LEMMA ClosesIInv ==
  ASSUME NEW i \in Sources, IInv, Closes(i)
  PROVE  IInv'
  <1> USE DEF IInv
  <1>1. TypeOK'
    BY DEF Closes, updateVars, localVars, histVars, TypeOK
  <1>2. InFlight' /\ Behind'
    BY DEF Closes, updateVars, localVars, histVars, TypeOK, InFlight, Behind
  <1>3. Locals'
    BY NilledBound, FS_EmptySet DEF Closes, updateVars, localVars, histVars, TypeOK, InFlight, Behind, Locals
  <1>4. NoneLost'
    BY DEF Closes, updateVars, localVars, histVars, TypeOK, InFlight, Behind, Locals, NoneLost
  <1>5. EndIsFinal'
    BY NilledBound DEF Closes, updateVars, localVars, histVars, TypeOK, InFlight, Locals, EndIsFinal
  <1> QED
    BY <1>1, <1>2, <1>3, <1>4, <1>5

(* A goroutine that gives up preserves the inductive invariant. *)
LEMMA LeavesIInv ==
  ASSUME NEW i \in Sources, IInv, Leaves(i)
  PROVE  IInv'
  <1> USE DEF IInv
  <1>1. TypeOK'
    BY DEF Leaves, updateVars, localVars, histVars, TypeOK
  <1>2. InFlight' /\ Behind'
    BY DEF Leaves, updateVars, localVars, histVars, TypeOK, InFlight, Behind
  <1>3. Locals'
    BY NilledBound, FS_EmptySet DEF Leaves, updateVars, localVars, histVars, TypeOK, InFlight, Behind, Locals
  <1>4. NoneLost'
    BY DEF Leaves, updateVars, localVars, histVars, TypeOK, InFlight, Behind, Locals, NoneLost
  <1>5. EndIsFinal'
    BY NilledBound DEF Leaves, updateVars, localVars, histVars, TypeOK, InFlight, Locals, EndIsFinal
  <1> QED
    BY <1>1, <1>2, <1>3, <1>4, <1>5

(* CrossSource.Close preserves the inductive invariant. *)
LEMMA CancelIInv ==
  ASSUME IInv, Cancel
  PROVE  IInv'
  <1> USE DEF IInv
  <1>1. TypeOK'
    BY DEF Cancel, updateVars, localVars, histVars, TypeOK
  <1>2. InFlight' /\ Behind'
    BY DEF Cancel, updateVars, localVars, histVars, TypeOK, InFlight, Behind
  <1>3. Locals'
    BY NilledBound, FS_EmptySet DEF Cancel, updateVars, localVars, histVars, TypeOK, InFlight, Behind, Locals
  <1>4. NoneLost'
    BY DEF Cancel, updateVars, localVars, histVars, TypeOK, InFlight, Behind, Locals, NoneLost
  <1>5. EndIsFinal'
    BY NilledBound DEF Cancel, updateVars, localVars, histVars, TypeOK, InFlight, Locals, EndIsFinal
  <1> QED
    BY <1>1, <1>2, <1>3, <1>4, <1>5

(* The start of Next preserves the inductive invariant. *)
LEMMA CallIInv ==
  ASSUME IInv, Call
  PROVE  IInv'
  <1> USE DEF IInv
  <1>1. TypeOK'
    BY DEF Call, updateVars, localVars, histVars, TypeOK
  <1>2. InFlight' /\ Behind'
    BY DEF Call, updateVars, localVars, histVars, TypeOK, InFlight, Behind
  <1>3. Locals'
    BY NilledBound, FS_EmptySet DEF Call, updateVars, localVars, histVars, TypeOK, InFlight, Behind, Locals
  <1>4. NoneLost'
    BY DEF Call, updateVars, localVars, histVars, TypeOK, InFlight, Behind, Locals, NoneLost
  <1>5. EndIsFinal'
    <2>1. CASE N = 0
      BY <2>1 DEF Call, EndIsFinal, Sources
    <2>2. CASE N # 0
      BY <2>2 DEF Call, updateVars, EndIsFinal
    <2> QED
      BY <2>1, <2>2
  <1> QED
    BY <1>1, <1>2, <1>3, <1>4, <1>5

(* The end of the context of Next preserves the inductive invariant. *)
LEMMA InterruptIInv ==
  ASSUME IInv, Interrupt
  PROVE  IInv'
  <1> USE DEF IInv
  <1>1. TypeOK'
    BY DEF Interrupt, updateVars, localVars, histVars, TypeOK
  <1>2. InFlight' /\ Behind'
    BY DEF Interrupt, updateVars, localVars, histVars, TypeOK, InFlight, Behind
  <1>3. Locals'
    BY NilledBound, FS_EmptySet DEF Interrupt, updateVars, localVars, histVars, TypeOK, InFlight, Behind, Locals
  <1>4. NoneLost'
    BY DEF Interrupt, updateVars, localVars, histVars, TypeOK, InFlight, Behind, Locals, NoneLost
  <1>5. EndIsFinal'
    BY NilledBound DEF Interrupt, updateVars, localVars, histVars, TypeOK, InFlight, Locals, EndIsFinal
  <1> QED
    BY <1>1, <1>2, <1>3, <1>4, <1>5

(* The first loop receiving preserves the inductive invariant. *)
LEMMA FillReceivesIInv ==
  ASSUME NEW i \in Sources, IInv, FillReceives(i)
  PROVE  IInv'
  <1> USE DEF IInv
  <1>1. TypeOK'
    BY DEF FillReceives, Received, Missing, updateVars, localVars, histVars, TypeOK
  <1>2. InFlight' /\ Behind'
    BY DEF FillReceives, Received, Missing, updateVars, localVars, histVars, TypeOK, InFlight, Behind
  <1>3. Locals'
    BY NilledBound, FS_EmptySet DEF FillReceives, Received, Missing, updateVars, localVars, histVars, TypeOK, InFlight, Behind, Locals
  <1>4. NoneLost'
    BY DEF FillReceives, Received, Missing, updateVars, localVars, histVars, TypeOK, InFlight, Behind, Locals, NoneLost
  <1>5. EndIsFinal'
    BY NilledBound DEF FillReceives, Received, Missing, updateVars, localVars, histVars, TypeOK, InFlight, Locals, EndIsFinal
  <1> QED
    BY <1>1, <1>2, <1>3, <1>4, <1>5

(* The first loop finding a closed channel preserves the inductive         *)
(* invariant.                                                              *)
LEMMA FillEndsIInv ==
  ASSUME NEW i \in Sources, IInv, FillEnds(i)
  PROVE  IInv'
  <1> USE DEF IInv
  <1>1. TypeOK'
    BY DEF FillEnds, ReturnEnd, Missing, updateVars, localVars, histVars, TypeOK
  <1>2. InFlight' /\ Behind'
    BY DEF FillEnds, ReturnEnd, Missing, updateVars, localVars, histVars, TypeOK, InFlight, Behind
  <1>3. Locals'
    BY NilledBound, FS_EmptySet DEF FillEnds, ReturnEnd, Missing, updateVars, localVars, histVars, TypeOK, InFlight, Behind, Locals
  <1>4. NoneLost'
    BY DEF FillEnds, ReturnEnd, Missing, updateVars, localVars, histVars, TypeOK, InFlight, Behind, Locals, NoneLost
  <1>5. EndIsFinal'
    BY NilledBound DEF FillEnds, ReturnEnd, Missing, updateVars, localVars, histVars, TypeOK, InFlight, Locals, EndIsFinal
  <1> QED
    BY <1>1, <1>2, <1>3, <1>4, <1>5

(* The first loop being interrupted preserves the inductive invariant. *)
LEMMA FillInterruptedIInv ==
  ASSUME NEW i \in Sources, IInv, FillInterrupted(i)
  PROVE  IInv'
  <1> USE DEF IInv
  <1>1. TypeOK'
    BY DEF FillInterrupted, ReturnInterrupted, Missing, updateVars, localVars, histVars, TypeOK
  <1>2. InFlight' /\ Behind'
    BY DEF FillInterrupted, ReturnInterrupted, Missing, updateVars, localVars, histVars, TypeOK, InFlight, Behind
  <1>3. Locals'
    BY NilledBound, FS_EmptySet DEF FillInterrupted, ReturnInterrupted, Missing, updateVars, localVars, histVars, TypeOK, InFlight, Behind, Locals
  <1>4. NoneLost'
    BY DEF FillInterrupted, ReturnInterrupted, Missing, updateVars, localVars, histVars, TypeOK, InFlight, Behind, Locals, NoneLost
  <1>5. EndIsFinal'
    BY NilledBound DEF FillInterrupted, ReturnInterrupted, Missing, updateVars, localVars, histVars, TypeOK, InFlight, Locals, EndIsFinal
  <1> QED
    BY <1>1, <1>2, <1>3, <1>4, <1>5

(* The end of the first loop preserves the inductive invariant. *)
LEMMA FilledIInv ==
  ASSUME IInv, Filled
  PROVE  IInv'
  <1> USE DEF IInv
  <1>1. TypeOK'
    BY DEF Filled, ReturnList, updateVars, localVars, histVars, TypeOK
  <1>2. InFlight' /\ Behind'
    BY DEF Filled, ReturnList, updateVars, localVars, histVars, TypeOK, InFlight, Behind
  <1>3. Locals'
    BY NilledBound, FS_EmptySet DEF Filled, ReturnList, updateVars, localVars, histVars, TypeOK, InFlight, Behind, Locals
  <1>4. NoneLost'
    BY DEF Filled, ReturnList, updateVars, localVars, histVars, TypeOK, InFlight, Behind, Locals, NoneLost
  <1>5. EndIsFinal'
    BY NilledBound DEF Filled, ReturnList, updateVars, localVars, histVars, TypeOK, InFlight, Locals, EndIsFinal
  <1> QED
    BY <1>1, <1>2, <1>3, <1>4, <1>5

(* The select being interrupted preserves the inductive invariant. *)
LEMMA SelectInterruptedIInv ==
  ASSUME IInv, SelectInterrupted
  PROVE  IInv'
  <1> USE DEF IInv
  <1>1. TypeOK'
    BY DEF SelectInterrupted, ReturnInterrupted, updateVars, localVars, histVars, TypeOK
  <1>2. InFlight' /\ Behind'
    BY DEF SelectInterrupted, ReturnInterrupted, updateVars, localVars, histVars, TypeOK, InFlight, Behind
  <1>3. Locals'
    BY NilledBound, FS_EmptySet DEF SelectInterrupted, ReturnInterrupted, updateVars, localVars, histVars, TypeOK, InFlight, Behind, Locals
  <1>4. NoneLost'
    BY DEF SelectInterrupted, ReturnInterrupted, updateVars, localVars, histVars, TypeOK, InFlight, Behind, Locals, NoneLost
  <1>5. EndIsFinal'
    BY NilledBound DEF SelectInterrupted, ReturnInterrupted, updateVars, localVars, histVars, TypeOK, InFlight, Locals, EndIsFinal
  <1> QED
    BY <1>1, <1>2, <1>3, <1>4, <1>5

(* The default of the select preserves the inductive invariant. *)
LEMMA SelectDefaultIInv ==
  ASSUME IInv, SelectDefault
  PROVE  IInv'
  <1> USE DEF IInv
  <1>1. TypeOK'
    BY DEF SelectDefault, ReturnList, Ready, updateVars, localVars, histVars, TypeOK
  <1>2. InFlight' /\ Behind'
    BY DEF SelectDefault, ReturnList, Ready, updateVars, localVars, histVars, TypeOK, InFlight, Behind
  <1>3. Locals'
    BY NilledBound, FS_EmptySet DEF SelectDefault, ReturnList, Ready, updateVars, localVars, histVars, TypeOK, InFlight, Behind, Locals
  <1>4. NoneLost'
    BY DEF SelectDefault, ReturnList, Ready, updateVars, localVars, histVars, TypeOK, InFlight, Behind, Locals, NoneLost
  <1>5. EndIsFinal'
    BY NilledBound DEF SelectDefault, ReturnList, Ready, updateVars, localVars, histVars, TypeOK, InFlight, Locals, EndIsFinal
  <1> QED
    BY <1>1, <1>2, <1>3, <1>4, <1>5

(* The last closed channel that Next finds is the last one there is. *)
LEMMA AllClosed ==
  ASSUME NEW i \in Sources, IInv, SelectClosed(i), exhausted' = N
  PROVE  ~hasNew /\ \A j \in Sources : update[j] = "closed"
  <1> USE DEF IInv
  <1>1. exhausted + 1 = N /\ Cardinality(nilled) <= N /\ exhausted <= Cardinality(nilled)
    BY NilledBound DEF SelectClosed, Locals
  <1>2. i \notin nilled /\ update[i] = "closed"
    BY DEF SelectClosed, Ready
  <1>3. Cardinality(nilled) < N
    BY <1>1, <1>2, NilledBound
  <1>4. Cardinality(nilled) = exhausted
    BY <1>1, <1>3, NilledBound DEF TypeOK
  <1>5. ~hasNew
    BY <1>4, NilledBound DEF Locals, TypeOK
  <1>6. nilled \cup {i} = Sources
    <2>1. nilled \cup {i} \subseteq Sources /\ Cardinality(nilled \cup {i}) = N
      BY <1>1, <1>2, <1>4, NilledBound DEF TypeOK
    <2> QED
      BY <2>1, CardN, FS_Subset
  <1> QED
    BY <1>2, <1>5, <1>6 DEF Locals

(* The select finding a closed channel preserves the inductive invariant. *)
LEMMA SelectClosedIInv ==
  ASSUME NEW i \in Sources, IInv, SelectClosed(i)
  PROVE  IInv'
  <1> USE DEF IInv
  <1>1. TypeOK'
    <2>1. reader' \in {"idle", "fill", "poll", "block"} /\ ended' \in BOOLEAN
      BY DEF SelectClosed, ReturnEnd, histVars, TypeOK
    <2>2. exhausted' \in Nat /\ nilled' \in SUBSET Sources
      BY DEF SelectClosed, TypeOK
    <2>3. last' \in [Sources -> Nat]
      BY DEF SelectClosed, ReturnEnd, histVars, TypeOK
    <2> QED
      BY <2>1, <2>2, <2>3 DEF SelectClosed, updateVars, TypeOK
  <1>2. InFlight' /\ Behind'
    BY DEF SelectClosed, ReturnEnd, Ready, updateVars, localVars, histVars, TypeOK, InFlight, Behind
  <1>3. Locals'
    BY NilledBound, FS_EmptySet DEF SelectClosed, ReturnEnd, Ready, updateVars, localVars, histVars, TypeOK, InFlight, Behind, Locals
  <1>4. NoneLost'
    BY DEF SelectClosed, ReturnEnd, Ready, updateVars, localVars, histVars, TypeOK, InFlight, Behind, Locals, NoneLost
  <1>5. EndIsFinal'
    <2>1. CASE exhausted' = N
      BY <2>1, AllClosed DEF SelectClosed, updateVars, Locals, EndIsFinal
    <2>2. CASE exhausted' # N
      BY <2>2 DEF SelectClosed, updateVars, histVars, EndIsFinal
    <2> QED
      BY <2>1, <2>2
  <1> QED
    BY <1>1, <1>2, <1>3, <1>4, <1>5

(* The select with a default receiving preserves the inductive invariant. *)
LEMMA PollReceivesIInv ==
  ASSUME NEW i \in Sources, IInv, PollReceives(i)
  PROVE  IInv'
  <1> USE DEF IInv
  <1>1. TypeOK'
    BY DEF PollReceives, Received, Ready, updateVars, localVars, histVars, TypeOK
  <1>2. InFlight' /\ Behind'
    BY DEF PollReceives, Received, Ready, updateVars, localVars, histVars, TypeOK, InFlight, Behind
  <1>3. Locals'
    BY NilledBound, FS_EmptySet DEF PollReceives, Received, Ready, updateVars, localVars, histVars, TypeOK, InFlight, Behind, Locals
  <1>4. NoneLost'
    BY DEF PollReceives, Received, Ready, updateVars, localVars, histVars, TypeOK, InFlight, Behind, Locals, NoneLost
  <1>5. EndIsFinal'
    BY NilledBound DEF PollReceives, Received, Ready, updateVars, localVars, histVars, TypeOK, InFlight, Locals, EndIsFinal
  <1> QED
    BY <1>1, <1>2, <1>3, <1>4, <1>5

(* The select without a default receiving preserves the inductive          *)
(* invariant.                                                              *)
LEMMA BlockReceivesIInv ==
  ASSUME NEW i \in Sources, IInv, BlockReceives(i)
  PROVE  IInv'
  <1> USE DEF IInv
  <1>1. TypeOK'
    BY DEF BlockReceives, Received, ReturnList, Ready, updateVars, localVars, histVars, TypeOK
  <1>2. InFlight' /\ Behind'
    BY DEF BlockReceives, Received, ReturnList, Ready, updateVars, localVars, histVars, TypeOK, InFlight, Behind
  <1>3. Locals'
    BY NilledBound, FS_EmptySet DEF BlockReceives, Received, ReturnList, Ready, updateVars, localVars, histVars, TypeOK, InFlight, Behind, Locals
  <1>4. NoneLost'
    BY DEF BlockReceives, Received, ReturnList, Ready, updateVars, localVars, histVars, TypeOK, InFlight, Behind, Locals, NoneLost
  <1>5. EndIsFinal'
    BY NilledBound DEF BlockReceives, Received, ReturnList, Ready, updateVars, localVars, histVars, TypeOK, InFlight, Locals, EndIsFinal
  <1> QED
    BY <1>1, <1>2, <1>3, <1>4, <1>5

(* Every step preserves the inductive invariant. *)
LEMMA NextIInv ==
  ASSUME IInv, [Next]_vars
  PROVE  IInv'
  <1>1. ASSUME UNCHANGED vars PROVE IInv'
    BY <1>1
    DEF vars, updateVars, localVars, histVars, IInv, TypeOK, InFlight, Behind, Locals,
        NoneLost, EndIsFinal
  <1> QED
    BY <1>1, ReadsIInv, ClosesIInv, LeavesIInv, CancelIInv, CallIInv, InterruptIInv, FillReceivesIInv, FillEndsIInv, FillInterruptedIInv, FilledIInv, SelectInterruptedIInv, SelectDefaultIInv, SelectClosedIInv, PollReceivesIInv, BlockReceivesIInv
    DEF Next, NextStep, Updates

-----------------------------------------------------------------------------
(* A list that Next returns is a step of the promise. *)
Yields ==
  /\ ~ended
  /\ last' = next'
  /\ \A i \in Sources : next'[i] # 0
  /\ \E i \in Sources : last[i] < next'[i]
  /\ interrupts = 0 => \A i \in Sources : next'[i] <= last[i] + 1
  /\ \A i \in Sources : last[i] <= next'[i]
  /\ UNCHANGED <<length, ended, interrupts, cancelled>>

(* A call that returns a list is a Yield of the promise. *)
LEMMA YieldsStep ==
  ASSUME IInv, IInv', Yields
  PROVE  Promise!Yield
  <1>1. /\ last' \in [Sources -> Nat]
        /\ \A i \in Sources : 0 < last'[i] /\ last'[i] <= length[i]
    <2>1. \A i \in Sources : next'[i] <= pos'[i] /\ pos'[i] <= length'[i]
      BY DEF IInv, TypeOK, InFlight
    <2> QED
      BY <2>1 DEF Yields, IInv, TypeOK
  <1>2. last' # last
    BY DEF Yields, IInv, TypeOK
  <1>3. interrupts \in Nat
    BY DEF IInv, TypeOK
  <1> QED
    BY <1>1, <1>2, <1>3 DEF Yields, Promise!Yield

(* An end of the source is a step of the promise. *)
Ends ==
  /\ ended' = TRUE
  /\ \/ \A i \in Sources : last[i] = length[i]
     \/ \E i \in Sources : length[i] = 0
     \/ interrupts # 0 \/ cancelled
     \/ ended
  /\ UNCHANGED <<length, last, interrupts, cancelled>>

(* A call that returns ErrEndOfSource is an End of the promise. *)
LEMMA EndsStep ==
  ASSUME IInv, Ends
  PROVE  Promise!End \/ UNCHANGED Promise!vars
  <1>1. CASE ended
    BY <1>1 DEF Ends, Promise!vars
  <1>2. CASE \A i \in Sources : last[i] = length[i]
    <2>1. last = length
      BY <1>2 DEF IInv, TypeOK
    <2> QED
      BY <2>1 DEF Ends, Promise!End
  <1>3. CASE (\E i \in Sources : length[i] = 0) \/ interrupts # 0 \/ cancelled
    BY <1>3 DEF Ends, Promise!End, IInv, TypeOK
  <1> QED
    BY <1>1, <1>2, <1>3 DEF Ends

Quiet == UNCHANGED <<length, last, ended, interrupts, cancelled>>

(* Whatever returns nothing to the caller is a stutter of the promise. *)
LEMMA QuietStep ==
  ASSUME Quiet
  PROVE  UNCHANGED Promise!vars
  BY DEF Quiet, Promise!vars

(* Every step is a step of the promise or a stutter. *)
LEMMA StepsKeepPromise ==
  ASSUME IInv, IInv', [Next]_vars
  PROVE  [Promise!Next]_(Promise!vars)
  <1> DEFINE Goal == [Promise!Next]_(Promise!vars)
  <1> USE DEF IInv
  <1>1. ASSUME Yields PROVE Goal
    BY <1>1, YieldsStep DEF Promise!Next
  <1>2. ASSUME Ends PROVE Goal
    BY <1>2, EndsStep DEF Promise!Next
  <1>3. ASSUME Quiet PROVE Goal
    BY <1>3, QuietStep
  <1>4. ASSUME NEW i \in Sources, Updates(i) PROVE Quiet
    BY <1>4 DEF Updates, Reads, Closes, Leaves, histVars, Quiet
  <1>5. ASSUME Cancel PROVE Goal
    BY <1>5 DEF Cancel, histVars, Promise!Next, Promise!Cancel
  <1>6. ASSUME Interrupt PROVE Goal
    BY <1>6 DEF Interrupt, updateVars, histVars, TypeOK, Promise!Next, Promise!Interrupt
  <1>7. ASSUME Call PROVE Ends \/ Quiet
    BY <1>7 DEF Call, updateVars, Ends, Quiet, Sources
  <1>8. ASSUME NEW i \in Sources, FillReceives(i) \/ PollReceives(i) PROVE Quiet
    BY <1>8 DEF FillReceives, PollReceives, Received, histVars, Quiet
  <1>9. ASSUME NEW i \in Sources, FillEnds(i) PROVE Ends
    BY <1>9 DEF FillEnds, Missing, ReturnEnd, updateVars, TypeOK, InFlight, Ends
  <1>10. ASSUME SelectInterrupted \/ \E i \in Sources : FillInterrupted(i) PROVE Quiet
    BY <1>10 DEF SelectInterrupted, FillInterrupted, ReturnInterrupted, updateVars,
                 histVars, Quiet
  <1>11. ASSUME Filled PROVE Yields \/ Quiet
    <2>1. CASE updated
      BY <1>11, <2>1
      DEF Filled, ReturnList, updateVars, TypeOK, InFlight, Behind, Locals, NoneLost,
          EndIsFinal, Yields
    <2>2. CASE ~updated
      BY <1>11, <2>2 DEF Filled, updateVars, histVars, Quiet
    <2> QED
      BY <2>1, <2>2 DEF TypeOK
  <1>12. ASSUME SelectDefault PROVE Yields \/ Quiet
    <2>1. CASE hasNew
      BY <1>12, <2>1
      DEF SelectDefault, ReturnList, updateVars, TypeOK, InFlight, Behind, Locals, NoneLost,
          EndIsFinal, Yields
    <2>2. CASE ~hasNew
      BY <1>12, <2>2 DEF SelectDefault, updateVars, histVars, Quiet
    <2> QED
      BY <2>1, <2>2 DEF TypeOK
  <1>13. ASSUME NEW i \in Sources, SelectClosed(i) PROVE Ends \/ Quiet
    <2>1. CASE exhausted' = N
      <3>1. ~hasNew /\ \A j \in Sources : update[j] = "closed"
        BY <1>13, <2>1, AllClosed
      <3>2. interrupts # 0 \/ ended \/ next = last
        BY <1>13, <3>1 DEF SelectClosed, NoneLost
      <3> QED
        BY <1>13, <2>1, <3>1, <3>2
        DEF SelectClosed, ReturnEnd, updateVars, TypeOK, InFlight, Ends
    <2>2. CASE exhausted' # N
      BY <1>13, <2>2 DEF SelectClosed, updateVars, histVars, Quiet
    <2> QED
      BY <2>1, <2>2
  <1>14. ASSUME NEW i \in Sources, BlockReceives(i) PROVE Yields
    BY <1>14
    DEF BlockReceives, Ready, Received, ReturnList, TypeOK, InFlight, Behind, Locals,
        NoneLost, EndIsFinal, Yields
  <1>15. ASSUME UNCHANGED vars PROVE Quiet
    BY <1>15 DEF vars, updateVars, histVars, Quiet
  <1> QED
    BY <1>1, <1>2, <1>3, <1>4, <1>5, <1>6, <1>7, <1>8, <1>9, <1>10, <1>11, <1>12, <1>13,
       <1>14, <1>15 DEF Next, NextStep

-----------------------------------------------------------------------------
(* What the channels, the goroutines and the locals of Next have to do     *)
(* with each other, at every step of across.go.                            *)
THEOREM InductiveInvariant == Spec => []IInv
  BY InitIInv, NextIInv, PTL DEF Spec

(* The variables of Next and its goroutines keep their types: above all no *)
(* goroutine reads past the end of its source.                             *)
THEOREM TypeCorrect == Spec => []TypeOK
  <1>1. IInv => TypeOK
    BY DEF IInv
  <1> QED
    BY <1>1, InductiveInvariant, PTL

(* CrossSource.Next keeps the promise of the docs of (across): it returns  *)
(* lists in which every source advances by at most one value, skips none   *)
(* as long as no call is interrupted, and ends only after the last one.    *)
THEOREM ImplementsLatestValues == Spec => KeepsPromise
  <1>1. Init => Promise!Init
    BY DEF Init, Promise!Init
  <1> QED
    BY <1>1, InductiveInvariant, StepsKeepPromise, PTL
    DEF Spec, KeepsPromise, Promise!Spec
=============================================================================
