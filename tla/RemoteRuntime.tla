---------------------------- MODULE RemoteRuntime ----------------------------
(***************************************************************************)
(* pkg/runtimes/grpc.go: a call of the Client, the runtime of a pool that  *)
(* asks another program, and the handler of the Server there, which runs   *)
(* the operation with a runtime of its own.  The stream between them is    *)
(* external: it keeps the order, blocks the sender when the receiver is    *)
(* behind, and ends with the status of the handler, or with its own when   *)
(* the connection fails or the call is cancelled.  Calls share nothing but *)
(* the connection, so the model has one.  A thunk crosses as its message.  *)
(***************************************************************************)
EXTENDS Protocols

CONSTANTS Produces,   \* what the runtime of the server may send: kinds, in order
          Window      \* bound: messages that are under way

Kinds == Bytes \cup {"progress"}

ASSUME RemoteAssumption == Produces \subseteq Seq(Kinds) /\ Window \in Nat

VARIABLES calling,    \* of the client: the operation, whether it waits, what it returned
          serving,    \* of the handler: what it still has to send, what it returned
          replies,    \* the messages under way
          severed,    \* whether the server's end of the stream is dead
          produced,   \* what the runtime of the server has written
          delivered   \* what the client has written to its own writer

remoteVars == <<calling, serving, replies, severed, produced, delivered>>

Methods    == {"resolve", "run", "read", "export", "export-path", "publish"}
Written    == {"read", "export", "export-path"}   \* the operations that have a writer

RemoteInit ==
  /\ calling = [op |-> "none", at |-> "idle", result |-> "none"]
  /\ serving = [at |-> "none", rest |-> <<>>, result |-> "none"]
  /\ replies = <<>> /\ severed = FALSE
  /\ produced = <<>> /\ delivered = <<>>

Message(kind, of) == [kind |-> kind, of |-> of]

Return(result) == calling' = [calling EXCEPT !.at = "returned", !.result = result]

-----------------------------------------------------------------------------
(* The client.  A thunk that has no message is not sent.  Publish takes    *)
(* the message of the ref for that of the thunk, which panics.             *)
Ask == \E op \in Methods \ {"publish"} :
  /\ calling.at = "idle"
  /\ \/ calling' = [op |-> op, at |-> "waiting", result |-> "none"]
     \/ calling' = [op |-> op, at |-> "returned", result |-> "marshal"]
  /\ UNCHANGED <<serving, replies, severed, produced, delivered>>

Publish ==
  /\ calling.at = "idle"
  /\ calling' = [op |-> "publish", at |-> "returned", result |-> "panic"]
  /\ UNCHANGED <<serving, replies, severed, produced, delivered>>

(* Mutant: whatever ends the stream is its end. *)
ErrOfAny(status) == "ok"

(* What the loop makes of the status: io.EOF of "ok", or else an error. *)
ErrOf(status) == status

(* One turn of the loop: progress is recorded, output is written, and the  *)
(* call ends with the stream or with the writer.  What is left in the      *)
(* stream then is not read.                                                *)
Recv ==
  /\ calling.at = "waiting" /\ replies # <<>>
  /\ replies' = Tail(replies)
  /\ \/ Head(replies).kind = "progress" /\ UNCHANGED <<calling, delivered>>
     \/ /\ Head(replies).kind = "output"
        /\ \/ delivered' = Append(delivered, Head(replies).of) /\ UNCHANGED calling
           \/ Return("write") /\ UNCHANGED delivered
     \/ Head(replies).kind = "status" /\ Return(ErrOf(Head(replies).of)) /\ UNCHANGED delivered
  /\ UNCHANGED <<serving, severed, produced>>

-----------------------------------------------------------------------------
(* The server: a handler with the context of the server, not of the call.  *)
(* Run has no writer, and Resolve no stream: its answer is its result.     *)
OnlyFrom(only, sent, kinds, from) ==
  IF from > Len(sent) THEN <<>>
  ELSE (IF sent[from] \in kinds THEN <<sent[from]>> ELSE <<>>) \o only[from + 1]

Only(sent, kinds) ==
  LET only[from \in Places(sent)] == OnlyFrom(only, sent, kinds, from) IN only[1]

AnswerTo(op, answer) ==
  CASE op \in Written  -> answer
    [] op = "run"      -> Only(answer, {"progress"})
    [] op = "resolve"  -> <<>>

Handle == \E answer \in Produces :
  /\ calling.at = "waiting" /\ serving.at = "none" /\ ~severed
  /\ serving' = [serving EXCEPT !.at = "running", !.rest = AnswerTo(calling.op, answer)]
  /\ UNCHANGED <<calling, replies, severed, produced, delivered>>

Finish(result) ==
  /\ serving' = [serving EXCEPT !.at = "ended", !.result = result]
  /\ replies' = IF severed THEN replies ELSE Append(replies, Message("status", result))

(* A recorder sends progress, and its errors are dropped. *)
WriteStatus ==
  /\ serving.at = "running" /\ serving.rest # <<>> /\ Head(serving.rest) = "progress"
  /\ severed \/ Len(replies) < Window
  /\ serving' = [serving EXCEPT !.rest = Tail(@)]
  /\ replies' = IF severed THEN replies ELSE Append(replies, Message("progress", "none"))
  /\ UNCHANGED <<calling, severed, produced, delivered>>

(* A writer sends output, and the runtime fails with it. *)
Write ==
  /\ serving.at = "running" /\ serving.rest # <<>> /\ Head(serving.rest) # "progress"
  /\ \/ /\ ~severed /\ Len(replies) < Window
        /\ replies' = Append(replies, Message("output", Head(serving.rest)))
        /\ produced' = Append(produced, Head(serving.rest))
        /\ serving' = [serving EXCEPT !.rest = Tail(@)]
     \/ severed /\ Finish("send") /\ UNCHANGED produced
  /\ UNCHANGED <<calling, severed, delivered>>

(* The runtime has done it all, or it fails before. *)
Respond ==
  /\ serving.at = "running"
  /\ \/ serving.rest = <<>> /\ Finish("ok")
     \/ Finish("runtime")
  /\ UNCHANGED <<calling, severed, produced, delivered>>

-----------------------------------------------------------------------------
(* The connection fails, or the caller cancels: of what was under way the  *)
(* client may get some, and then the error.  The handler goes on, until it *)
(* is done or sends output.                                                *)
Sever(status) ==
  /\ calling.at = "waiting" /\ ~severed
  /\ severed' = TRUE
  /\ \E k \in 0..Len(replies) : replies' = Append(SubSeq(replies, 1, k), Message("status", status))
  /\ UNCHANGED <<calling, serving, produced, delivered>>

LinkFails  == Sever("unavailable")
CancelCall == Sever("canceled")

RemoteNext == Ask \/ Publish \/ Recv \/ Handle \/ WriteStatus \/ Write \/ Respond \/ LinkFails \/ CancelCall

RemoteSpec == RemoteInit /\ [][RemoteNext]_remoteVars

-----------------------------------------------------------------------------
(* What the operation writes if nothing fails. *)
WholeOutput == produced \o Only(serving.rest, Bytes)

(* What a script reads of a call that has returned, through a pipe that    *)
(* Thunk.Open closes with its error.                                       *)
ReadBy(name) == DecodeProto(name, delivered, IF calling.result = "ok" THEN "EOF" ELSE calling.result)

(* The last line that is read may be a part of one, if an error follows. *)
CutsLine(name) ==
  name \in ByLines /\ calling.result # "ok" /\ delivered # <<>> /\ Last(delivered) # "nl"

Certain(name, vals) == IF CutsLine(name) /\ vals # <<>> THEN Front(vals) ELSE vals

IsReadOf(name, source, whole) ==
  /\ IsPrefix(Certain(name, source.vals), whole.vals)
  /\ source.end = "end" => source = whole

(* A call that returns without an error has had the operation done at the  *)
(* other end, without an error there, and has written exactly what that    *)
(* wrote, in order; one that fails has written a beginning of it, whatever *)
(* failed and when.  And with any protocol, the values a script reads of   *)
(* it are those of the whole output from the first on, and all of them if  *)
(* it reads to the end of the source: but for a last line, no value is a   *)
(* part of one.                                                            *)
AnswersAreWhole ==
  /\ IsPrefix(delivered, produced)
  /\ calling.at = "returned" /\ calling.result = "ok" =>
       serving.at = "ended" /\ serving.result = "ok" /\ delivered = produced
  /\ calling.at = "returned" =>
       \A name \in Protocols :
         IsReadOf(name, ReadBy(name), DecodeProto(name, WholeOutput, "EOF"))
=============================================================================
