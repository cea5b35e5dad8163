---------------------------- MODULE MCMemoEdits ----------------------------
(* MemoEdits on every content of at most two memos, of at most two calls   *)
(* each, of at most two results each, and at most MaxResults in all.       *)
EXTENDS MemoEdits

CONSTANTS m1, m2, b1, b2, i1, i2, old, new, MaxResults

MCModules == {m1, m2}
MCBindings == {b1, b2}
MCInputs == {i1, i2}
MCOutputs == {old, new}

UpTo(n, S) == UNION {[1..l -> S] : l \in 1..n}

MCResults == UpTo(2, [input : MCInputs, output : {old}])
MCCalls == UpTo(2, [binding : MCBindings, results : MCResults])
MCMemos == [module : MCModules, calls : MCCalls]

Size(memo) == LET c == memo.calls
              IN Len(c[1].results) + IF Len(c) = 1 THEN 0 ELSE Len(c[2].results)

Small == {m \in MCMemos : Size(m) < MaxResults}

MCContents ==
  {<<>>} \cup {<<m>> : m \in {x \in MCMemos : Size(x) <= MaxResults}}
         \cup {mn \in Small \X Small : Size(mn[1]) + Size(mn[2]) <= MaxResults}
=============================================================================
