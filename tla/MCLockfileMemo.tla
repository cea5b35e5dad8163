--------------------------- MODULE MCLockfileMemo ---------------------------
(* Two bass processes with a goroutine each, or one with several.          *)
EXTENDS LockfileMemo

CONSTANTS h1, p1, p2, t1, t2, t3, m1, b1, i1, i2, null, v1

MCKeys == [module : {m1}, binding : {b1}, input : {i1, i2}]
K(i) == [module |-> m1, binding |-> b1, input |-> i]

(* Nothing yet; or a lock file that a merge left with two memos of m1.     *)
MCContents == {<<>>, <<MemoOf(K(i1), v1), MemoOf(K(i1), null)>>}

MCEmpty == {<<>>}

MCOwnLockfiles == [t \in Threads |-> t]
MCOneEach == [t \in {t1, t2} |-> IF t = t1 THEN p1 ELSE p2]
MCAlone == [t \in {t1} |-> p1]
MCAllInOne == [t \in {t1, t2, t3} |-> p1]
MCOneLockfile == [t \in {t1, t2, t3} |-> h1]
=============================================================================
