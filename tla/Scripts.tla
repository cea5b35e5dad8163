------------------------------- MODULE Scripts -------------------------------
(***************************************************************************)
(* Scripts and the prompt: forms are read from a stream and evaluated one  *)
(* by one, by EvalReader (pkg/bass/eval.go), which ends at an error, or by *)
(* ReplSession.ReadLine (pkg/cli/repl.go), which shows it and goes on.     *)
(***************************************************************************)
EXTENDS Ground, EvalReference

CONSTANTS Lines,     (* the lines that are typed, which are scripts as well *)
          Programs,  (* the scripts that are not typed *)
          MaxLines   (* how many of them are typed *)

VARIABLES prompt,     (* whether it is the prompt *)
          phase,      (* what the loop is at *)
          stream,     (* the text *)
          offset,     (* how much of it was read *)
          pending,    (* what was typed and is to be read again *)
          typed,      (* how many lines were typed *)
          evaluation, (* the machine, between evaluations as the last one left it *)
          subject,    (* the form that is evaluated, or a sequence of none *)
          saved,      (* the scopes when it was begun *)
          lost,       (* whether frames were left in the trace by an error *)
          deepest     (* the most calls that were under way *)

scriptVars == <<prompt, phase, stream, offset, pending, typed, evaluation, subject, saved,
                lost, deepest>>

(* How deep the trace was, before what is called was popped. *)
Depth(m) == m.trace.depth + IF m.err = "" THEN Len(m.cont.traced) ELSE 0

-----------------------------------------------------------------------------
ScriptsInit ==
  /\ prompt \in BOOLEAN
  /\ phase = IF prompt THEN "prompt" ELSE "reading"
  /\ \E script \in Lines \cup Programs : stream = IF prompt THEN <<>> ELSE script
  /\ offset = 0 /\ pending = <<>> /\ typed = 0
  /\ evaluation = Idle(ScriptScopes)
  /\ subject = <<>> /\ saved = evaluation.scopes
  /\ lost = FALSE /\ deepest = 0

(* ReadLine: what was not read of the lines before is read once more. *)
TypeLine(line) ==
  /\ phase = "prompt" /\ typed < MaxLines
  /\ typed' = typed + 1
  /\ pending' = Append(pending \o line, Tok("newline"))
  /\ stream' = stream \o pending'
  /\ phase' = "reading"
  /\ UNCHANGED <<prompt, offset, evaluation, subject, saved, lost, deepest>>

Reading(r) ==
  /\ offset' = r.at
  /\ UNCHANGED <<prompt, stream, typed>>

(* reader.Next *)
ReadForm(r) ==
  /\ Reading(r) /\ r.err = ""
  /\ phase' = "evaluating"
  /\ subject' = r.forms
  /\ saved' = evaluation.scopes
  /\ evaluation' = Start(evaluation.scopes, evaluation.trace, r.forms[1], ScriptScope)
  /\ deepest' = Max({deepest, Depth(evaluation')})
  /\ UNCHANGED <<pending, lost>>

(* The end of the text, where a script ends and a prompt waits. *)
ReadEnd(r) ==
  /\ Reading(r) /\ r.err = "EOF"
  /\ phase' = IF prompt THEN "prompt" ELSE "over"
  /\ pending' = <<>>
  /\ UNCHANGED <<evaluation, subject, saved, lost, deepest>>

(* The end in the middle of a form, which a prompt reads again. *)
ReadUnclosed(r) ==
  /\ Reading(r) /\ r.err = "unclosed"
  /\ phase' = IF prompt THEN "prompt" ELSE "failed"
  /\ UNCHANGED <<pending, evaluation, subject, saved, lost, deepest>>

(* WriteError: the frames of the trace are shown, and its depth reset. *)
Shown(m) == [m EXCEPT !.trace = Reset(@)]

ReadFails(r) ==
  /\ Reading(r) /\ r.err \notin {"", "EOF", "unclosed"}
  /\ phase' = IF prompt THEN "reading" ELSE "failed"
  /\ evaluation' = Shown(evaluation)
  /\ UNCHANGED <<pending, subject, saved, lost, deepest>>

(* What the reader makes of the rest of the text. *)
ReadNext ==
  /\ phase = "reading"
  /\ \E r \in {ReadAnnotate(stream, offset)} :
       ReadForm(r) \/ ReadEnd(r) \/ ReadUnclosed(r) \/ ReadFails(r)

(* The frames that were recorded for what a continuation waits for. *)
RECURSIVE FramesUnder(_)
FramesUnder(k) == (IF k.op = "identity" THEN <<>> ELSE FramesUnder(k.next)) \o k.traced

(* An error that a (bind) catches leaves the frames recorded since. *)
Leaves(m) ==
  /\ m.err # ""
  /\ FramesUnder(m.cont) # FramesUnder(CatcherOf(m.cont).next)

(* Trampoline, once around. *)
Bounce ==
  /\ phase = "evaluating" /\ ~Finished(evaluation)
  /\ evaluation' = Go(evaluation)
  /\ lost' = (lost \/ Leaves(evaluation))
  /\ deepest' = Max({deepest, Depth(evaluation')})
  /\ UNCHANGED <<prompt, phase, stream, offset, pending, typed, subject, saved>>

Evaluated ==
  /\ phase = "evaluating" /\ Finished(evaluation) /\ evaluation.err = ""
  /\ phase' = "reading" /\ subject' = <<>>
  /\ UNCHANGED <<prompt, stream, offset, pending, typed, evaluation, saved, lost, deepest>>

(* An error ends a script, and is shown at the prompt or by the command.   *)
EvalFails ==
  /\ phase = "evaluating" /\ Finished(evaluation) /\ evaluation.err # ""
  /\ phase' = IF prompt THEN "reading" ELSE "failed"
  /\ subject' = <<>>
  /\ evaluation' = [Shown(evaluation) EXCEPT !.err = ""]
  /\ lost' = TRUE
  /\ UNCHANGED <<prompt, stream, offset, pending, typed, saved, deepest>>

(* The context is cancelled: nothing is evaluated any more. *)
Interrupt ==
  /\ phase = "evaluating" /\ ~Finished(evaluation)
  /\ phase' = "interrupted"
  /\ UNCHANGED <<prompt, stream, offset, pending, typed, evaluation, subject, saved, lost, deepest>>

ScriptsNext ==
  \/ \E line \in Lines : TypeLine(line)
  \/ ReadNext
  \/ Bounce \/ Evaluated \/ EvalFails \/ Interrupt

-----------------------------------------------------------------------------
(* Those of the continuation that is called with a value were popped. *)
UnderWay(m) ==
  IF m.err # "" THEN FramesUnder(m.cont)
  ELSE IF m.cont.op = "identity" THEN <<>> ELSE FramesUnder(m.cont.next)

(* The trace never counts fewer frames than there are calls under way, and *)
(* until an error has left frames behind, what it shows are calls under    *)
(* way, the newest, in their order and none that has returned, and all of  *)
(* them if the ring was never full: Record, Pop and Frames of trace.go,    *)
(* with the counts that Continuation.traced and Call keep.                 *)
TraceShowsCalls ==
  phase = "evaluating" =>
    LET under == UnderWay(evaluation)
        trace == evaluation.trace
    IN  /\ trace.depth >= Len(under)
        /\ ~lost => /\ trace.depth = Len(under)
                    /\ IsSuffix(Frames(trace), under)
                    /\ deepest <= TraceSize => Frames(trace) = under

EndsAs(r) ==
  /\ evaluation.err = r.err
  /\ evaluation.scopes = r.scopes
  /\ r.err = "" => evaluation.res = r.val

(* Whatever the machine of continuations ends with, a value or an error,   *)
(* and all that it did to the scopes, is what the form means: Eval, Call   *)
(* and Bind of pkg/bass with the continuations they make.                  *)
MatchesReference ==
  phase = "evaluating" /\ Finished(evaluation) =>
    EndsAs(Means(saved, subject[1], ScriptScope))
=============================================================================
