---------------------------- MODULE MemoContent ----------------------------
(***************************************************************************)
(* The content of a bass.lock file (proto.Memosphere) and what the methods *)
(* of pkg/bass/memo.go do with it in memory: memos by module, in each its  *)
(* calls by binding, in each its results by input.  Merging two branches   *)
(* of a lock file that is under version control may leave several memos of *)
(* one module, several calls of one binding and several results of one     *)
(* input, so nothing here takes them to be unique.                         *)
(*                                                                         *)
(* A key is what a memo is stored under.  Modules, inputs and outputs are  *)
(* compared by proto.Equal: they are model values.                         *)
(***************************************************************************)
EXTENDS Naturals, Sequences, FiniteSets

CONSTANTS
  Modules,   \* the thunks that memoized functions are loaded from
  Bindings,  \* the names of those functions
  Inputs,    \* the argument lists
  Outputs,   \* the results
  NoOutput,  \* no result is found
  Contents   \* what a lock file may hold at the start

Keys == [module : Modules, binding : Bindings, input : Inputs]

ResultRecs == [input : Inputs, output : Outputs]
CallRecs   == [binding : Bindings, results : Seq(ResultRecs)]
MemoRecs   == [module : Modules, calls : Seq(CallRecs)]

ASSUME MemoAssumption == NoOutput \notin Outputs /\ Contents \subseteq Seq(MemoRecs)

ResultOf(key, out) == [input |-> key.input, output |-> out]
CallOf(key, out)   == [binding |-> key.binding, results |-> <<ResultOf(key, out)>>]
MemoOf(key, out)   == [module |-> key.module, calls |-> <<CallOf(key, out)>>]

Has(call, key) == /\ call.binding = key.binding
                  /\ \E n \in DOMAIN call.results : call.results[n].input = key.input

(* Mutant: a call is recognised only if it has the input. *)
CallsBindingWithResults(memo, key) ==
  \E j \in DOMAIN memo.calls : Has(memo.calls[j], key)

CallsBinding(memo, key) ==
  \E j \in DOMAIN memo.calls : memo.calls[j].binding = key.binding

-----------------------------------------------------------------------------
(* retrieveMemo: the first matching result of the first matching call of   *)
(* the first matching memo that have one.                                  *)

HasIn(memo, key) == /\ memo.module = key.module
                    /\ \E j \in DOMAIN memo.calls : Has(memo.calls[j], key)

FirstOf(call, key, out) ==
  \E n \in DOMAIN call.results :
    /\ call.results[n] = ResultOf(key, out)
    /\ \A before \in 1..(n - 1) : call.results[before].input # key.input

FirstIn(memo, key, out) ==
  \E j \in DOMAIN memo.calls :
    /\ FirstOf(memo.calls[j], key, out) /\ Has(memo.calls[j], key)
    /\ \A before \in 1..(j - 1) : ~Has(memo.calls[before], key)

Retrieved(memos, key) ==
  IF \E i \in DOMAIN memos : HasIn(memos[i], key)
  THEN CHOOSE out \in Outputs :
         \E i \in DOMAIN memos :
           /\ HasIn(memos[i], key) /\ FirstIn(memos[i], key, out)
           /\ \A before \in 1..(i - 1) : ~HasIn(memos[before], key)
  ELSE NoOutput

(* All that is stored under a key, seen or not. *)
Known(memos, key) ==
  {out \in Outputs :
     \E i \in DOMAIN memos : \E j \in DOMAIN memos[i].calls :
       /\ memos[i].module = key.module
       /\ memos[i].calls[j].binding = key.binding
       /\ \E n \in DOMAIN memos[i].calls[j].results :
            memos[i].calls[j].results[n] = ResultOf(key, out)}

(* Only the first result with a matching key is ever seen. *)
AsTable(memos) == [key \in Keys |-> Retrieved(memos, key)]

-----------------------------------------------------------------------------
(* Lockfile.Store.  Its flags foundMod, foundCall and updated are set in   *)
(* the first loop that finds something and never reset: a call with the    *)
(* binding gets a new result only if neither it nor a matching call before *)
(* it has the input, and a memo with the module gets a new call only if    *)
(* neither it nor a matching memo before it calls the binding.             *)

(* Mutant: the loop over a call's results breaks after its last one. *)
OverwrittenLast(call, key, out) ==
  [call EXCEPT !.results[Len(call.results)] =
     IF @.input = key.input THEN ResultOf(key, out) ELSE @]

(* Mutant: the check of the input is left out. *)
OverwrittenAll(call, key, out) ==
  [call EXCEPT !.results = [n \in DOMAIN @ |-> [@[n] EXCEPT !.output = out]]]

Overwritten(call, key, out) ==
  [call EXCEPT !.results =
     [n \in DOMAIN @ |-> IF @[n].input = key.input THEN ResultOf(key, out) ELSE @[n]]]

(* Mutant: a result is always appended. *)
AppendedTo(memos, key, out) == Append(memos, MemoOf(key, out))

Updated(memos, key, i, j) ==
  \E i2 \in 1..i : /\ memos[i2].module = key.module
                   /\ \E j2 \in DOMAIN memos[i2].calls :
                        /\ i2 < i \/ j2 <= j
                        /\ Has(memos[i2].calls[j2], key)

FoundCall(memos, key, i) ==
  \E i2 \in 1..i : memos[i2].module = key.module /\ CallsBinding(memos[i2], key)

StoredInCall(memos, key, out, i, j) ==
  LET call == memos[i].calls[j]
  IN IF call.binding # key.binding THEN call
     ELSE IF Updated(memos, key, i, j) THEN Overwritten(call, key, out)
     ELSE [call EXCEPT !.results = Append(@, ResultOf(key, out))]

StoredInCalls(memos, key, out, i) ==
  LET calls == [j \in DOMAIN memos[i].calls |-> StoredInCall(memos, key, out, i, j)]
  IN IF FoundCall(memos, key, i) THEN calls ELSE Append(calls, CallOf(key, out))

StoredIn(memos, key, out) ==
  IF \E i \in DOMAIN memos : memos[i].module = key.module
  THEN [i \in DOMAIN memos |->
          IF memos[i].module = key.module
          THEN [memos[i] EXCEPT !.calls = StoredInCalls(memos, key, out, i)]
          ELSE memos[i]]
  ELSE Append(memos, MemoOf(key, out))

(* The elements of seq at the places kept, in their order. *)
Rank(kept, i) == Cardinality({j \in kept : j <= i})

Place(kept, n) == CHOOSE i \in kept : Rank(kept, i) = n

Kept(seq, kept) == [n \in 1..Cardinality(kept) |-> seq[Place(kept, n)]]

(* Lockfile.Remove: matching results go, calls of the binding that are     *)
(* left without results go, and so do memos of the module without calls.   *)
OtherResults(call, key) ==
  {n \in DOMAIN call.results : call.results[n].input # key.input}

CallWithout(call, key) ==
  IF call.binding = key.binding
  THEN [call EXCEPT !.results = Kept(@, OtherResults(call, key))] ELSE call

CallsWithout(memo, key) ==
  [j \in DOMAIN memo.calls |-> CallWithout(memo.calls[j], key)]

CallsLeft(calls, key) ==
  {j \in DOMAIN calls : calls[j].binding # key.binding \/ calls[j].results # <<>>}

MemoWithout(memo, key) ==
  LET calls == CallsWithout(memo, key)
  IN  IF memo.module = key.module
      THEN [memo EXCEPT !.calls = Kept(calls, CallsLeft(calls, key))] ELSE memo

MemosWithout(memos, key) == [i \in DOMAIN memos |-> MemoWithout(memos[i], key)]

MemosLeft(memos, key) ==
  {i \in DOMAIN memos : memos[i].module # key.module \/ memos[i].calls # <<>>}

RemovedFrom(memos, key) ==
  LET edited == MemosWithout(memos, key) IN Kept(edited, MemosLeft(edited, key))

(* bumpLockfile: every result of every call is computed afresh; recomputed *)
(* gives what each key's function returns now.                             *)
BumpedCall(module, call, recomputed) ==
  [call EXCEPT !.results =
     [n \in DOMAIN @ |->
        ResultOf(@[n], recomputed[[module |-> module, binding |-> call.binding,
                                   input |-> @[n].input]])]]

Bumped(memos, recomputed) ==
  [i \in DOMAIN memos |->
     [memos[i] EXCEPT !.calls =
        [j \in DOMAIN @ |-> BumpedCall(memos[i].module, @[j], recomputed)]]]
=============================================================================
