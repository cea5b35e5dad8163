----------------------------- MODULE MemoTable -----------------------------
(***************************************************************************)
(* What a lock file promises to the scripts that share it: a table whose   *)
(* operations take effect one at a time, each between its call and its     *)
(* return (linearizability), or return an error and change nothing.  A     *)
(* fault, a save cut short or a file rewritten behind the locks, may leave *)
(* any table behind; a client may die at any time.                         *)
(***************************************************************************)
EXTENDS Naturals

CONSTANTS
  Clients,   \* who calls
  Keys,      \* what memos are stored under
  Outputs,   \* what is stored
  NoOutput,  \* nothing is stored
  NoReq,     \* no operation is under way
  Failed     \* the outcome of an operation that is refused

VARIABLES
  table,   \* the memos
  req,     \* the operation of each client
  effect,  \* the clients whose operation has taken effect
  out,     \* what the operation of each client found, or Failed
  dead,    \* the clients that died
  faults   \* the number of faults so far

vars == <<table, req, effect, out, dead, faults>>

Requests == [kind : {"recall", "remove"}, key : Keys]
              \cup [kind : {"store"}, key : Keys, output : Outputs]

Init ==
  /\ table \in [Keys -> Outputs \cup {NoOutput}]
  /\ req = [c \in Clients |-> NoReq]
  /\ effect = {}
  /\ out = [c \in Clients |-> NoOutput]
  /\ dead = {}
  /\ faults = 0

Call(c) ==
  /\ c \notin dead
  /\ req[c] = NoReq
  /\ \E r \in Requests : req' = [req EXCEPT ![c] = r]
  /\ out' = [out EXCEPT ![c] = NoOutput]
  /\ UNCHANGED <<table, effect, dead, faults>>

Recall(c) ==
  /\ req[c].kind = "recall"
  /\ out' = [out EXCEPT ![c] = table[req[c].key]]
  /\ UNCHANGED table

Store(c) ==
  /\ req[c].kind = "store"
  /\ table' = [table EXCEPT ![req[c].key] = req[c].output]
  /\ UNCHANGED out

Remove(c) ==
  /\ req[c].kind = "remove"
  /\ table' = [table EXCEPT ![req[c].key] = NoOutput]
  /\ UNCHANGED out

TakeEffect(c) ==
  /\ req[c] # NoReq
  /\ c \notin effect \cup dead
  /\ effect' = effect \cup {c}
  /\ Recall(c) \/ Store(c) \/ Remove(c)
  /\ UNCHANGED <<req, dead, faults>>

Return(c) ==
  /\ c \in effect \ dead
  /\ req' = [req EXCEPT ![c] = NoReq]
  /\ effect' = effect \ {c}
  /\ UNCHANGED <<table, out, dead, faults>>

(* An error is returned, and nothing else has happened. *)
Refuse(c) ==
  /\ req[c] # NoReq
  /\ c \notin effect \cup dead
  /\ req' = [req EXCEPT ![c] = NoReq]
  /\ out' = [out EXCEPT ![c] = Failed]
  /\ UNCHANGED <<table, effect, dead, faults>>

(* Clients die together: their operation is abandoned, whether or not it   *)
(* has taken effect.                                                       *)
Die(cs) ==
  /\ dead' = dead \cup cs
  /\ req' = [c \in Clients |-> IF c \in cs THEN NoReq ELSE req[c]]
  /\ effect' = effect \ cs
  /\ UNCHANGED <<table, out, faults>>

(* Whoever damages the table may die of it, and may be an operation that   *)
(* takes effect just then.                                                 *)
Fault(cs, es) ==
  /\ faults' = faults + 1
  /\ table' \in [Keys -> Outputs \cup {NoOutput}]
  /\ dead' = dead \cup cs
  /\ req' = [c \in Clients |-> IF c \in cs THEN NoReq ELSE req[c]]
  /\ effect' = (effect \cup es) \ cs
  /\ UNCHANGED out

Next ==
  \/ \E c \in Clients : Call(c) \/ TakeEffect(c) \/ Return(c) \/ Refuse(c)
  \/ \E cs \in SUBSET Clients : Die(cs)
  \/ \E cs, es \in SUBSET Clients : Fault(cs, es)

Spec == Init /\ [][Next]_vars
=============================================================================
