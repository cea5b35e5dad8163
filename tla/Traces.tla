------------------------------- MODULE Traces -------------------------------
(***************************************************************************)
(* pkg/bass/trace.go: the ring of the frames of the calls under way.       *)
(***************************************************************************)
EXTENDS Naturals, Sequences

CONSTANT TraceSize
ASSUME TraceSizeAssumption == TraceSize \in Nat \ {0}

NoFrame == [is |-> "nil"]   \* of a slot that is not set

NewTrace == [frames |-> [i \in 0..(TraceSize - 1) |-> NoFrame], depth |-> 0]

Record(trace, frame) ==
  [trace EXCEPT !.frames[trace.depth % TraceSize] = frame, !.depth = @ + 1]

(* Mutant: the slots of the frames are not cleared. *)
PopDepth(trace, n) == [trace EXCEPT !.depth = @ - n]

Pop(trace, n) ==
  LET popped == {(trace.depth - i) % TraceSize : i \in 1..n}
  IN  [frames |-> [i \in DOMAIN trace.frames |->
                     IF i \in popped THEN NoFrame ELSE trace.frames[i]],
       depth  |-> trace.depth - n]

Reset(trace) == [trace EXCEPT !.depth = 0]

IsEmptyTrace(trace) == trace.depth = 0

(* The slots that are set, the oldest first: once around the ring. *)
FramesFrom(frames, trace, place) ==
  LET frame == trace.frames[(trace.depth + (place - 1)) % TraceSize]
  IN  IF place > TraceSize THEN <<>>
      ELSE (IF frame = NoFrame THEN <<>> ELSE <<frame>>) \o frames[place + 1]

Frames(trace) ==
  LET frames[place \in 1..(TraceSize + 1)] == FramesFrom(frames, trace, place)
  IN  frames[1]
=============================================================================
