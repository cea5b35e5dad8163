--------------------------- MODULE ProgramProofs ---------------------------
(***************************************************************************)
(* Four parts of a program that runs scripts, for all values of their      *)
(* constants.  First the runtime that is asked for over gRPC: what a call  *)
(* has written, and what a script reads of it through each protocol,       *)
(* whatever the runtime at the other end writes and wherever the stream    *)
(* breaks.  Then the sessions: what one keeps and what the custodians      *)
(* close, for any number of goroutines and modules and any text of them.   *)
(* Then the trace: which calls the ring of frames holds; and what the      *)
(* slices of thunks that share arrays read.                                *)
(***************************************************************************)
EXTENDS Sessions, RemoteRuntime, Traces, Slices, SequenceTheorems, WellFoundedInduction, TLAPS

(* Every set of natural numbers that is not empty has a least one.  This   *)
(* takes the place of induction.                                           *)
LEMMA LeastNat ==
  ASSUME NEW T, T \subseteq Nat, T # {}
  PROVE  \E n \in T : \A m \in T : n <= m
<1>1. IsWellFoundedOn(OpToRel(<, Nat), Nat)
  BY NatLessThanWellFounded
<1>2. PICK n \in T : \A m \in T : ~ (<<m, n>> \in OpToRel(<, Nat))
  BY <1>1, WFMin
<1>3. \A m \in T : ~ (m < n)
  BY <1>2, Zenon DEF OpToRel
<1>4. \A m \in T : n <= m
  BY <1>3
<1> QED
  BY <1>4

(* What each place has if all places after it have it, all places have.    *)
LEMMA Downwards ==
  ASSUME NEW M \in Nat, NEW T,
         \A x \in 1..M : (\A y \in (x + 1)..M : y \in T) => x \in T
  PROVE  \A x \in 1..M : x \in T
<1> DEFINE From == {n \in 0..M : \A y \in (n + 1)..M : y \in T}
<1>1. M \in From /\ From \subseteq Nat
  OBVIOUS
<1> HIDE DEF From
<1>2. PICK n \in From : \A m \in From : n <= m
  BY <1>1, LeastNat
<1>3. n \in 0..M /\ \A y \in (n + 1)..M : y \in T
  BY <1>2 DEF From
<1>4. n = 0
  <2>1. SUFFICES ASSUME n \in 1..M
                 PROVE  n - 1 \in From
    BY <1>2, <1>3
  <2>2. n \in T
    BY <1>3, <2>1
  <2>3. \A y \in ((n - 1) + 1)..M : y = n \/ y \in (n + 1)..M
    BY <2>1
  <2> QED
    BY <1>3, <2>1, <2>2, <2>3 DEF From
<1> QED
  BY <1>3, <1>4

(* A function of the places whose value at each depends on those after it  *)
(* alone has a fixed point: what a recursion over the places defines.      *)
LEMMA FixedPoint ==
  ASSUME NEW M \in Nat, NEW V, NEW F, F \subseteq [1..M -> V], F # {},
         \A f, g \in F : \A k \in 1..M : [f EXCEPT ![k] = g[k]] \in F,
         NEW G \in [F -> F],
         \A f, g \in F : \A k \in 1..M :
           (\A j \in (k + 1)..M : f[j] = g[j]) => G[f][k] = G[g][k]
  PROVE  \E f \in F : G[f] = f
<1> DEFINE From == {n \in 0..M : \E f \in F : \A k \in (n + 1)..M : G[f][k] = f[k]}
<1>1. M \in From /\ From \subseteq Nat
  OBVIOUS
<1> HIDE DEF From
<1>2. PICK n \in From : \A m \in From : n <= m
  BY <1>1, LeastNat
<1>3. n \in 0..M
  BY <1>2 DEF From
<1>4. PICK f \in F : \A k \in (n + 1)..M : G[f][k] = f[k]
  BY <1>2 DEF From
<1>5. f \in [1..M -> V] /\ G[f] \in F /\ G[f] \in [1..M -> V]
  OBVIOUS
<1>6. n = 0
  <2>1. SUFFICES ASSUME n \in 1..M
                 PROVE  n - 1 \in From
    BY <1>2, <1>3
  <2> DEFINE next == [f EXCEPT ![n] = G[f][n]]
  <2>2. next \in F
    BY <1>5, <2>1
  <2>3. next[n] = G[f][n] /\ \A k \in 1..M : k # n => next[k] = f[k]
    BY <1>5, <2>1
  <2> HIDE DEF next
  <2>4. ASSUME NEW k \in ((n - 1) + 1)..M PROVE G[next][k] = next[k]
    <3>1. k \in n..M /\ k \in 1..M
      BY <2>1
    <3>2. \A j \in (k + 1)..M : next[j] = f[j]
      BY <2>1, <2>3, <3>1
    <3>3. G[next][k] = G[f][k]
      BY <2>2, <3>1, <3>2
    <3>4. k # n => G[f][k] = f[k]
      BY <1>4, <2>1, <3>1
    <3> QED
      BY <2>3, <3>1, <3>3, <3>4
  <2> QED
    BY <2>1, <2>2, <2>4 DEF From
<1>7. \A k \in 1..M : G[f][k] = f[k]
  BY <1>4, <1>6
<1> QED
  BY <1>5, <1>7

-----------------------------------------------------------------------------
(* Texts and their beginnings. *)
Texts == Seq(Bytes)

Begins(s, t) == Len(s) <= Len(t) /\ \A i \in 1..Len(s) : s[i] = t[i]

(* IsPrefix of the community modules, place by place. *)
LEMMA PrefixMeans ==
  ASSUME NEW S, NEW s \in Seq(S), NEW t \in Seq(S)
  PROVE  IsPrefix(s, t) <=> Begins(s, t)
<1>1. Len(s) \in Nat /\ Len(t) \in Nat /\ SubSeq(s, 1, Len(s)) = s
  BY LenProperties, SubSeqFull
<1>2. CASE Len(s) <= Len(t)
  <2>1. /\ SubSeq(t, 1, Len(s)) \in Seq(S) /\ Len(SubSeq(t, 1, Len(s))) = Len(s)
        /\ \A i \in 1..Len(s) : SubSeq(t, 1, Len(s))[i] = t[i]
    BY <1>1, <1>2, SubSeqProperties
  <2>2. SubSeq(t, 1, Len(s)) = s <=> \A i \in 1..Len(s) : s[i] = t[i]
    BY <1>1, <2>1, SeqEqual
  <2> QED
    BY <1>1, <1>2, <2>2, Zenon DEF IsPrefix, Begins
<1> QED
  BY <1>1, <1>2 DEF IsPrefix, Begins

(* A piece of a sequence, place by place. *)
LEMMA SubText ==
  ASSUME NEW S, NEW s \in Seq(S), NEW m \in 1..(Len(s) + 1), NEW n \in (m - 1)..Len(s)
  PROVE  /\ SubSeq(s, m, n) \in Seq(S) /\ Len(SubSeq(s, m, n)) = n - m + 1
         /\ \A i \in 1..(n - m + 1) : SubSeq(s, m, n)[i] = s[m + i - 1]
<1>1. Len(s) \in Nat /\ \A i \in 1..Len(s) : s[i] \in S
  BY LenProperties
<1>2. m \in Int /\ n \in Int /\ \A i \in m..n : s[i] \in S
  BY <1>1
<1>3. (IF m <= n THEN n - m + 1 ELSE 0) = n - m + 1
  BY <1>1, <1>2
<1> QED
  BY <1>2, <1>3, SubSeqProperties

(* The same of a text, as Protocols cuts pieces: up to a place. *)
LEMMA Piece ==
  ASSUME NEW s \in Texts, NEW m \in 1..(Len(s) + 1), NEW p \in m..(Len(s) + 1)
  PROVE  /\ SubSeq(s, m, p - 1) \in Texts /\ Len(SubSeq(s, m, p - 1)) = p - m
         /\ \A i \in 1..(p - m) : SubSeq(s, m, p - 1)[i] = s[m + i - 1]
<1>1. Len(s) \in Nat /\ s \in Seq(Bytes)
  BY LenProperties DEF Texts
<1>2. p - 1 \in (m - 1)..Len(s) /\ (p - 1) - m + 1 = p - m
  BY <1>1
<1> QED
  BY <1>1, <1>2, SubText DEF Texts

(* What Past returns: all up to there is of the kind, and that is not. *)
LEMMA PastFacts ==
  ASSUME NEW b \in Texts, NEW from \in Places(b), NEW kind
  PROVE  /\ Past(b, from, kind) \in from..(Len(b) + 1)
         /\ Past(b, from, kind) \in Places(b)
         /\ Past(b, from, kind) <= Len(b) => b[Past(b, from, kind)] \notin kind
         /\ \A i \in from..(Past(b, from, kind) - 1) : i <= Len(b) /\ b[i] \in kind
<1> DEFINE T == {i \in from..Len(b) : b[i] \notin kind} \cup {Len(b) + 1}
<1>1. Len(b) \in Nat /\ from \in 1..(Len(b) + 1)
  BY LenProperties DEF Texts, Places
<1>2. T \subseteq Nat /\ T # {}
  BY <1>1
<1>3. PICK n \in T : \A m \in T : n <= m
  BY <1>2, LeastNat
<1>4. Min(T) \in T /\ \A m \in T : Min(T) <= m
  BY <1>3, Zenon DEF Min
<1>5. Past(b, from, kind) = Min(T)
  BY DEF Past
<1>6. Past(b, from, kind) \in T /\ \A m \in T : Past(b, from, kind) <= m
  BY <1>4, <1>5, Zenon
<1>7. ASSUME NEW i \in from..(Past(b, from, kind) - 1)
      PROVE  i <= Len(b) /\ b[i] \in kind
  <2>1. Past(b, from, kind) \in Nat /\ Past(b, from, kind) <= Len(b) + 1
    BY <1>1, <1>6
  <2>2. i \in from..Len(b) /\ ~(Past(b, from, kind) <= i)
    BY <1>1, <2>1
  <2> QED
    BY <1>6, <2>2
<1> QED
  BY <1>1, <1>6, <1>7 DEF Places

(* What a text and a longer one have alike. *)
LEMMA PastSame ==
  ASSUME NEW d \in Texts, NEW w \in Texts, Begins(d, w), NEW from \in Places(d), NEW kind
  PROVE  /\ from \in Places(w)
         /\ Past(d, from, kind) <= Len(d) => Past(w, from, kind) = Past(d, from, kind)
         /\ Past(d, from, kind) > Len(d) => Past(w, from, kind) > Len(d)
<1>1. Len(d) \in Nat /\ Len(w) \in Nat /\ Len(d) <= Len(w)
      /\ \A i \in 1..Len(d) : d[i] = w[i]
  BY LenProperties DEF Texts, Begins
<1>2. from \in Places(w) /\ from \in 1..(Len(d) + 1)
  BY <1>1 DEF Places
<1> DEFINE pd == Past(d, from, kind)
           pw == Past(w, from, kind)
<1>3. /\ pd \in from..(Len(d) + 1) /\ (pd <= Len(d) => d[pd] \notin kind)
      /\ \A i \in from..(pd - 1) : i <= Len(d) /\ d[i] \in kind
  BY PastFacts
<1>4. /\ pw \in from..(Len(w) + 1) /\ (pw <= Len(w) => w[pw] \notin kind)
      /\ \A i \in from..(pw - 1) : i <= Len(w) /\ w[i] \in kind
  BY <1>2, PastFacts
<1> HIDE DEF pd, pw
<1>5. ASSUME pw <= Len(d) PROVE pw >= pd
  <2>1. SUFFICES ASSUME pw < pd PROVE FALSE
    BY <1>2, <1>3, <1>4
  <2>2. pw \in from..(pd - 1) /\ pw \in 1..Len(d)
    BY <1>1, <1>2, <1>3, <1>4, <1>5, <2>1
  <2> QED
    BY <1>1, <1>3, <1>4, <1>5, <2>2
<1>6. ASSUME pd <= Len(d) PROVE pw <= pd
  <2>1. SUFFICES ASSUME pd < pw PROVE FALSE
    BY <1>2, <1>3, <1>4
  <2>2. pd \in from..(pw - 1) /\ pd \in 1..Len(d)
    BY <1>1, <1>2, <1>3, <1>4, <1>6, <2>1
  <2> QED
    BY <1>1, <1>3, <1>4, <1>6, <2>2
<1>7. pd <= Len(d) => pw = pd
  BY <1>1, <1>2, <1>3, <1>4, <1>5, <1>6
<1>8. pd > Len(d) => pw > Len(d)
  BY <1>1, <1>2, <1>3, <1>4, <1>5
<1> QED
  BY <1>2, <1>7, <1>8 DEF pd, pw
-----------------------------------------------------------------------------
(* Lines.  What LinesFrom makes of a place depends on the places after it. *)
LinesAt(text) == CHOOSE lines : lines = [from \in Places(text) |-> LinesFrom(lines, text, from)]

LEMMA LinesAgree ==
  ASSUME NEW text \in Texts, NEW x \in Places(text), NEW f, NEW g,
         \A y \in (x + 1)..(Len(text) + 1) : f[y] = g[y]
  PROVE  LinesFrom(f, text, x) = LinesFrom(g, text, x)
<1> DEFINE nl == Past(text, x, Bytes \ {"nl"})
<1>1. nl \in x..(Len(text) + 1) /\ Len(text) \in Nat /\ x \in Nat
  BY PastFacts, LenProperties DEF Texts, Places
<1>2. ~(nl > Len(text)) => f[nl + 1] = g[nl + 1]
  BY <1>1
<1> QED
  BY <1>2, Zenon DEF LinesFrom

(* It is a sequence of texts. *)
LEMMA LinesTyped ==
  ASSUME NEW text \in Texts, NEW x \in Places(text), NEW f \in [Places(text) -> Seq(Texts)]
  PROVE  LinesFrom(f, text, x) \in Seq(Texts)
<1> DEFINE nl   == Past(text, x, Bytes \ {"nl"})
           line == SubSeq(text, x, nl - 1)
           rest == IF nl > Len(text) THEN <<>> ELSE f[nl + 1]
<1>1. nl \in x..(Len(text) + 1) /\ Len(text) \in Nat /\ x \in 1..(Len(text) + 1)
  BY PastFacts, LenProperties DEF Texts, Places
<1>2. CASE x <= Len(text)
  <2>1. line \in Texts
    <3>1. nl - 1 \in (x - 1)..Len(text) /\ text \in Seq(Bytes)
      BY <1>1 DEF Texts
    <3> HIDE DEF nl
    <3> QED
      BY <1>1, <3>1, SubText DEF Texts
  <2>2. nl <= Len(text) => nl + 1 \in Places(text)
    BY <1>1 DEF Places
  <2>3. rest \in Seq(Texts)
    <3>1. CASE nl > Len(text)
      BY <3>1
    <3>2. CASE ~(nl > Len(text))
      <4>1. nl + 1 \in Places(text)
        BY <1>1, <2>2, <3>2
      <4> HIDE DEF nl
      <4>2. f[nl + 1] \in Seq(Texts)
        BY <4>1
      <4> QED
        BY <3>2, <4>2
    <3> QED
      BY <3>1, <3>2
  <2>4. LinesFrom(f, text, x) = <<line>> \o rest
    BY <1>1, <1>2 DEF LinesFrom
  <2> HIDE DEF line, rest
  <2>5. <<line>> \in Seq(Texts)
    BY <2>1
  <2> QED
    BY <2>3, <2>4, <2>5, ConcatProperties
<1>3. CASE x > Len(text)
  BY <1>3 DEF LinesFrom
<1> QED
  BY <1>1, <1>2, <1>3

(* So the recursion defines a function, and LinesOf has its equation. *)
LEMMA LinesFacts ==
  ASSUME NEW text \in Texts
  PROVE  /\ LinesAt(text) \in [Places(text) -> Seq(Texts)]
         /\ \A x \in Places(text) : LinesAt(text)[x] = LinesFrom(LinesAt(text), text, x)
         /\ LinesOf(text) = LinesAt(text)[1] /\ LinesOf(text) \in Seq(Texts)
<1> DEFINE M == Len(text) + 1
           F == [1..M -> Seq(Texts)]
           G == [f \in F |-> [x \in 1..M |-> LinesFrom(f, text, x)]]
<1>1. M \in Nat /\ M >= 1 /\ Places(text) = 1..M
  BY LenProperties DEF Texts, Places
<1>2. G \in [F -> F] /\ \A f \in F : \A x \in 1..M : G[f][x] = LinesFrom(f, text, x)
  BY <1>1, LinesTyped
<1>3. ASSUME NEW f \in F, NEW g \in F, NEW x \in 1..M, \A y \in (x + 1)..M : f[y] = g[y]
      PROVE  G[f][x] = G[g][x]
  <2>1. LinesFrom(f, text, x) = LinesFrom(g, text, x)
    BY <1>1, <1>3, LinesAgree
  <2> HIDE DEF F, G
  <2> QED
    BY <1>2, <1>3, <2>1
<1>4. \A f, g \in F : \A x \in 1..M : [f EXCEPT ![x] = g[x]] \in F
  OBVIOUS
<1>5. F # {}
  <2>1. [x \in 1..M |-> <<>>] \in F
    OBVIOUS
  <2> QED
    BY <2>1
<1>6. PICK f \in F : G[f] = f
  <2>1. F \subseteq [1..M -> Seq(Texts)]
    OBVIOUS
  <2> HIDE DEF G, M, F
  <2> QED
    BY <1>1, <1>2, <1>3, <1>4, <1>5, <2>1, FixedPoint
<1>7. f = [x \in Places(text) |-> LinesFrom(f, text, x)]
  BY <1>1, <1>6
<1>8. LinesAt(text) = [x \in Places(text) |-> LinesFrom(LinesAt(text), text, x)]
  BY <1>7, Zenon DEF LinesAt
<1> DEFINE T == {x \in 1..M : LinesAt(text)[x] = f[x]}
<1>9. ASSUME NEW x \in 1..M, \A y \in (x + 1)..M : y \in T
      PROVE  x \in T
  <2>1. LinesFrom(LinesAt(text), text, x) = LinesFrom(f, text, x)
    BY <1>1, <1>9, LinesAgree
  <2>2. LinesAt(text)[x] = LinesFrom(LinesAt(text), text, x) /\ f[x] = LinesFrom(f, text, x)
    BY <1>1, <1>7, <1>8
  <2> QED
    BY <2>1, <2>2
<1>10. \A x \in 1..M : x \in T
  <2> HIDE DEF T, M
  <2> QED
    BY <1>1, <1>9, Downwards
<1>11. LinesAt(text) \in [Places(text) -> Seq(Texts)]
  BY <1>1, <1>8, <1>10
<1>12. LinesOf(text) = LinesAt(text)[1]
  BY Zenon DEF LinesOf, LinesAt
<1>13. \A x \in Places(text) : LinesAt(text)[x] = LinesFrom(LinesAt(text), text, x)
  BY <1>8
<1> QED
  BY <1>1, <1>11, <1>12, <1>13

(* What the lines of a text are to those of a longer one: the same, but    *)
(* that the last may be a part of one.                                     *)
LinesLike(s, t, whole) ==
  /\ Len(s) <= Len(t)
  /\ \A i \in 1..Len(s) :
       Len(s[i]) <= Len(t[i]) /\ (i < Len(s) \/ whole => s[i] = t[i])

EndsLine(text) == text = <<>> \/ Last(text) = "nl"

(* A sequence with one element before it. *)
LEMMA ConsFacts ==
  ASSUME NEW S, NEW e \in S, NEW s \in Seq(S)
  PROVE  /\ <<e>> \o s \in Seq(S) /\ Len(<<e>> \o s) = Len(s) + 1
         /\ (<<e>> \o s)[1] = e
         /\ \A i \in 2..(Len(s) + 1) : (<<e>> \o s)[i] = s[i - 1]
<1>1. <<e>> \in Seq(S) /\ Len(<<e>>) = 1 /\ <<e>>[1] = e /\ Len(s) \in Nat
  BY LenProperties
<1>2. /\ <<e>> \o s \in Seq(S) /\ Len(<<e>> \o s) = 1 + Len(s)
      /\ \A i \in 1..(1 + Len(s)) :
           (<<e>> \o s)[i] = IF i <= 1 THEN <<e>>[1] ELSE s[i - 1]
  <2>1. \A i \in 1..(1 + Len(s)) :
           (<<e>> \o s)[i] = IF i <= Len(<<e>>) THEN <<e>>[i] ELSE s[i - Len(<<e>>)]
    BY <1>1, ConcatProperties
  <2>2. \A i \in 1..(1 + Len(s)) : i <= 1 => i = 1
    BY <1>1
  <2> QED
    BY <1>1, <2>1, <2>2, ConcatProperties
<1> QED
  BY <1>1, <1>2

(* The same line before both keeps what they have alike. *)
LEMMA ConsLike ==
  ASSUME NEW line \in Texts, NEW s \in Seq(Texts), NEW t \in Seq(Texts), NEW whole,
         LinesLike(s, t, whole)
  PROVE  LinesLike(<<line>> \o s, <<line>> \o t, whole)
<1> DEFINE ls == <<line>> \o s
           lt == <<line>> \o t
<1>1. Len(s) \in Nat /\ Len(t) \in Nat /\ Len(line) \in Nat /\ Len(s) <= Len(t)
  BY LenProperties DEF LinesLike, Texts
<1>2. /\ Len(ls) = Len(s) + 1 /\ Len(lt) = Len(t) + 1 /\ ls[1] = line /\ lt[1] = line
      /\ \A i \in 2..(Len(s) + 1) : ls[i] = s[i - 1] /\ lt[i] = t[i - 1]
  <2>1. \A i \in 2..(Len(s) + 1) : i \in 2..(Len(t) + 1)
    BY <1>1
  <2> QED
    BY <2>1, ConsFacts
<1> HIDE DEF ls, lt
<1>3. ASSUME NEW i \in 1..Len(ls)
      PROVE  Len(ls[i]) <= Len(lt[i]) /\ (i < Len(ls) \/ whole => ls[i] = lt[i])
  <2>1. CASE i = 1
    BY <1>1, <1>2, <2>1
  <2>2. CASE i # 1
    <3>1. i \in 2..(Len(s) + 1) /\ i - 1 \in 1..Len(s) /\ (i < Len(ls) => i - 1 < Len(s))
      BY <1>1, <1>2, <2>2
    <3> QED
      BY <1>2, <3>1 DEF LinesLike
  <2> QED
    BY <2>1, <2>2
<1>4. LinesLike(ls, lt, whole)
  BY <1>1, <1>2, <1>3 DEF LinesLike
<1> QED
  BY <1>4 DEF ls, lt

(* From a place on, if it holds from every later place on. *)
LEMMA LinesStep ==
  ASSUME NEW d \in Texts, NEW w \in Texts, Begins(d, w), NEW x \in Places(d),
         \A y \in (x + 1)..(Len(d) + 1) :
           LinesLike(LinesAt(d)[y], LinesAt(w)[y], EndsLine(d))
  PROVE  LinesLike(LinesAt(d)[x], LinesAt(w)[x], EndsLine(d))
<1> DEFINE nd == Past(d, x, Bytes \ {"nl"})
           nw == Past(w, x, Bytes \ {"nl"})
<1>1. /\ Len(d) \in Nat /\ Len(w) \in Nat /\ Len(d) <= Len(w)
      /\ x \in 1..(Len(d) + 1) /\ x \in Places(w)
      /\ \A i \in 1..Len(d) : d[i] = w[i]
  BY LenProperties DEF Texts, Places, Begins
<1>2. /\ \A y \in Places(d) : LinesAt(d)[y] \in Seq(Texts)
      /\ \A y \in Places(w) : LinesAt(w)[y] \in Seq(Texts)
  BY LinesFacts
<1>3. LinesAt(d)[x] = LinesFrom(LinesAt(d), d, x) /\ LinesAt(w)[x] = LinesFrom(LinesAt(w), w, x)
  BY <1>1, LinesFacts
<1>4. nd \in x..(Len(d) + 1) /\ nw \in x..(Len(w) + 1)
      /\ (\A i \in x..(nd - 1) : i <= Len(d) /\ d[i] \in Bytes \ {"nl"})
      /\ (nd <= Len(d) => nw = nd) /\ (nd > Len(d) => nw > Len(d))
  BY <1>1, PastFacts, PastSame
<1>5. CASE x > Len(d)
  <2>1. LinesAt(d)[x] = <<>>
    BY <1>3, <1>5, Zenon DEF LinesFrom
  <2>2. Len(LinesAt(w)[x]) \in Nat
    BY <1>1, <1>2, LenProperties
  <2> QED
    BY <2>1, <2>2 DEF LinesLike
<1>6. CASE x <= Len(d)
  <2> DEFINE ld == SubSeq(d, x, nd - 1)
             lw == SubSeq(w, x, nw - 1)
             rd == IF nd > Len(d) THEN <<>> ELSE LinesAt(d)[nd + 1]
             rw == IF nw > Len(w) THEN <<>> ELSE LinesAt(w)[nw + 1]
  <2>1. LinesAt(d)[x] = <<ld>> \o rd /\ LinesAt(w)[x] = <<lw>> \o rw
    <3>1. ~(x > Len(d)) /\ ~(x > Len(w))
      BY <1>1, <1>6
    <3> QED
      BY <1>3, <3>1, Zenon DEF LinesFrom
  <2>2. rd \in Seq(Texts) /\ rw \in Seq(Texts)
    <3>1. ~(nd > Len(d)) => nd + 1 \in Places(d)
      BY <1>1, <1>4 DEF Places
    <3>2. ~(nw > Len(w)) => nw + 1 \in Places(w)
      BY <1>1, <1>4 DEF Places
    <3> QED
      BY <1>2, <3>1, <3>2
  <2>3. /\ ld \in Texts /\ lw \in Texts /\ Len(ld) = nd - x /\ Len(lw) = nw - x
        /\ \A i \in 1..(nd - x) : ld[i] = d[x + i - 1]
        /\ \A i \in 1..(nw - x) : lw[i] = w[x + i - 1]
    <3>1. nd \in x..(Len(d) + 1) /\ nw \in x..(Len(w) + 1) /\ x \in 1..(Len(w) + 1)
      BY <1>1, <1>4
    <3> HIDE DEF nd, nw
    <3> QED
      BY <1>1, <3>1, Piece
  <2>4. CASE nd <= Len(d)
    <3>1. ld = lw
      <4>1. \A i \in 1..(nd - x) : x + i - 1 \in 1..Len(d)
        BY <1>1, <1>4, <2>4
      <4>2. \A i \in 1..Len(ld) : ld[i] = lw[i]
        BY <1>1, <1>4, <2>3, <2>4, <4>1
      <4>3. ld \in Seq(Bytes) /\ lw \in Seq(Bytes) /\ Len(ld) = Len(lw)
        BY <1>1, <1>4, <2>3, <2>4 DEF Texts
      <4> HIDE DEF ld, lw
      <4> QED
        BY <4>2, <4>3, SeqEqual
    <3>2. LinesLike(rd, rw, EndsLine(d))
      BY <1>1, <1>4, <2>4
    <3> HIDE DEF ld, lw, rd, rw
    <3> QED
      BY <2>1, <2>2, <2>3, <3>1, <3>2, ConsLike
  <2>5. CASE nd > Len(d)
    <3>1. nd = Len(d) + 1 /\ nw >= nd
      BY <1>1, <1>4, <2>5
    <3>2. ~EndsLine(d)
      <4>1. Len(d) \in x..(nd - 1)
        BY <1>1, <1>6, <3>1
      <4>2. d[Len(d)] # "nl"
        BY <1>4, <4>1
      <4>3. d # <<>>
        BY <1>1, <1>6
      <4> QED
        BY <4>2, <4>3 DEF EndsLine, Last
    <3>3. rd = <<>>
      BY <2>5
    <3> HIDE DEF rd, rw, ld, lw
    <3>4. LinesAt(d)[x] = <<ld>>
      BY <2>1, <2>3, <3>3
    <3>5. /\ Len(LinesAt(w)[x]) \in Nat /\ Len(LinesAt(w)[x]) >= 1
          /\ LinesAt(w)[x][1] = lw
      <4>1. Len(<<lw>> \o rw) = Len(rw) + 1 /\ (<<lw>> \o rw)[1] = lw /\ Len(rw) \in Nat
        BY <2>2, <2>3, ConsFacts, LenProperties
      <4> QED
        BY <2>1, <4>1
    <3>6. Len(ld) <= Len(lw)
      BY <1>1, <1>4, <2>3, <3>1
    <3>7. Len(<<ld>>) = 1 /\ <<ld>>[1] = ld
      OBVIOUS
    <3> QED
      BY <3>2, <3>4, <3>5, <3>6, <3>7 DEF LinesLike
  <2> QED
    BY <1>1, <1>4, <2>4, <2>5
<1> QED
  BY <1>1, <1>5, <1>6

(* So the lines of a beginning are those of the whole. *)
LEMMA LinesBegin ==
  ASSUME NEW d \in Texts, NEW w \in Texts, Begins(d, w)
  PROVE  LinesLike(LinesOf(d), LinesOf(w), EndsLine(d))
<1> DEFINE M == Len(d) + 1
           T == {x \in 1..M : LinesLike(LinesAt(d)[x], LinesAt(w)[x], EndsLine(d))}
<1>1. M \in Nat /\ 1 \in 1..M /\ Places(d) = 1..M
  BY LenProperties DEF Texts, Places
<1>2. ASSUME NEW x \in 1..M, \A y \in (x + 1)..M : y \in T PROVE x \in T
  BY <1>1, <1>2, LinesStep
<1>3. \A x \in 1..M : x \in T
  <2> HIDE DEF T, M
  <2> QED
    BY <1>1, <1>2, Downwards
<1>4. LinesLike(LinesAt(d)[1], LinesAt(w)[1], EndsLine(d))
  BY <1>1, <1>3
<1> QED
  BY <1>4, LinesFacts

-----------------------------------------------------------------------------
(* What a source of a part has read, but for what may be cut off at its    *)
(* end, the source of the whole has too; and it does not end well.         *)
Nearly(s, t, whole) ==
  \A i \in 1..Len(s) : i < Len(s) \/ whole => i <= Len(t) /\ s[i] = t[i]

ReadsAs(part, all, whole) ==
  /\ part.end # "end"
  /\ Nearly(part.vals, all.vals, whole)

(* The lines before the first that is too long. *)
LEMMA ScannedFacts ==
  ASSUME NEW lines \in Seq(Texts), NEW end
  PROVE  \E n \in 0..Len(lines), e \in {EndOf(end), "ErrTooLong"} :
           /\ Scanned(lines, end) = [vals |-> SubSeq(lines, 1, n), end |-> e]
           /\ \A i \in 1..n : Len(lines[i]) < MaxToken
           /\ n < Len(lines) => Len(lines[n + 1]) >= MaxToken
<1> DEFINE long == {i \in DOMAIN lines : Len(lines[i]) >= MaxToken}
<1>1. Len(lines) \in Nat /\ DOMAIN lines = 1..Len(lines)
      /\ \A i \in 1..Len(lines) : Len(lines[i]) \in Nat
  <2>1. Len(lines) \in Nat /\ DOMAIN lines = 1..Len(lines) /\ \A i \in 1..Len(lines) : lines[i] \in Texts
    BY LenProperties
  <2> QED
    BY <2>1, LenProperties DEF Texts
<1>2. CASE long # {}
  <2>1. PICK m \in long : \A i \in long : m <= i
    <3>1. long \subseteq Nat
      BY <1>1
    <3> QED
      BY <1>2, <3>1, LeastNat
  <2>2. Min(long) \in long /\ \A i \in long : Min(long) <= i
    BY <2>1, Zenon DEF Min
  <2> DEFINE n == Min(long) - 1
  <2>3. Scanned(lines, end) = [vals |-> SubSeq(lines, 1, n), end |-> "ErrTooLong"]
    BY <1>2, Zenon DEF Scanned, Source
  <2>4. Min(long) \in 1..Len(lines) /\ Len(lines[Min(long)]) >= MaxToken
    BY <1>1, <2>2
  <2>5. ASSUME NEW i \in 1..n PROVE Len(lines[i]) < MaxToken
    <3>1. i \in DOMAIN lines /\ ~(Min(long) <= i)
      BY <1>1, <2>4
    <3>2. ~(Len(lines[i]) >= MaxToken)
      BY <2>2, <3>1
    <3> QED
      BY <1>1, <2>4, <3>2, ProtocolsAssumption
  <2>6. n \in 0..Len(lines) /\ n + 1 = Min(long)
    BY <1>1, <2>4
  <2> HIDE DEF n
  <2> QED
    BY <2>3, <2>4, <2>5, <2>6
<1>3. CASE long = {}
  <2>1. Scanned(lines, end) = [vals |-> lines, end |-> EndOf(end)]
    BY <1>3, Zenon DEF Scanned, Source
  <2>2. SubSeq(lines, 1, Len(lines)) = lines
    BY SubSeqFull
  <2>3. \A i \in 1..Len(lines) : Len(lines[i]) < MaxToken
    BY <1>1, <1>3, ProtocolsAssumption
  <2>4. Scanned(lines, end) = [vals |-> SubSeq(lines, 1, Len(lines)), end |-> EndOf(end)]
    BY <2>1, <2>2, Zenon
  <2>5. Len(lines) \in 0..Len(lines) /\ ~(Len(lines) < Len(lines))
    BY <1>1
  <2> QED
    BY <2>3, <2>4, <2>5, Zenon
<1> QED
  BY <1>2, <1>3

(* The first elements of a sequence. *)
LEMMA FirstOnes ==
  ASSUME NEW S, NEW s \in Seq(S), NEW n \in 0..Len(s)
  PROVE  /\ SubSeq(s, 1, n) \in Seq(S) /\ Len(SubSeq(s, 1, n)) = n
         /\ \A i \in 1..n : SubSeq(s, 1, n)[i] = s[i]
<1>1. Len(s) \in Nat
  BY LenProperties
<1>2. 1 \in 1..(Len(s) + 1) /\ n \in (1 - 1)..Len(s) /\ n - 1 + 1 = n /\ \A i \in 1..n : 1 + i - 1 = i
  BY <1>1
<1> QED
  BY <1>2, SubText

(* The limit on a line cuts both at the same line, or the part before. *)
LEMMA ScannedBegins ==
  ASSUME NEW s \in Seq(Texts), NEW t \in Seq(Texts), NEW whole, LinesLike(s, t, whole),
         NEW err, err # "end", err # "EOF"
  PROVE  /\ Scanned(s, err).vals \in Seq(Texts) /\ Scanned(t, "EOF").vals \in Seq(Texts)
         /\ ReadsAs(Scanned(s, err), Scanned(t, "EOF"), whole)
<1>1. /\ Len(s) \in Nat /\ Len(t) \in Nat /\ Len(s) <= Len(t)
      /\ \A i \in 1..Len(s) : i < Len(s) \/ whole => s[i] = t[i]
  BY LenProperties DEF LinesLike
<1>2. PICK n \in 0..Len(s), e \in {EndOf(err), "ErrTooLong"} :
        /\ Scanned(s, err) = [vals |-> SubSeq(s, 1, n), end |-> e]
        /\ \A i \in 1..n : Len(s[i]) < MaxToken
  BY ScannedFacts
<1>3. PICK m \in 0..Len(t), f \in {EndOf("EOF"), "ErrTooLong"} :
        /\ Scanned(t, "EOF") = [vals |-> SubSeq(t, 1, m), end |-> f]
        /\ m < Len(t) => Len(t[m + 1]) >= MaxToken
  BY ScannedFacts
<1>t. n \in 0..Len(s) /\ m \in 0..Len(t) /\ n \in Nat /\ m \in Nat
  BY <1>1, <1>2, <1>3
<1>4. /\ SubSeq(s, 1, n) \in Seq(Texts) /\ Len(SubSeq(s, 1, n)) = n
      /\ \A i \in 1..n : SubSeq(s, 1, n)[i] = s[i]
  BY <1>t, FirstOnes
<1>5. /\ SubSeq(t, 1, m) \in Seq(Texts) /\ Len(SubSeq(t, 1, m)) = m
      /\ \A i \in 1..m : SubSeq(t, 1, m)[i] = t[i]
  BY <1>t, FirstOnes
<1>6. ASSUME NEW i \in 1..n, i < n \/ whole
      PROVE  i <= m /\ s[i] = t[i]
  <2>1. \A j \in 1..i : s[j] = t[j]
    BY <1>t, <1>1, <1>6
  <2>2. i <= m
    <3>1. SUFFICES ASSUME m < i PROVE FALSE
      BY <1>t
    <3>2. m + 1 \in 1..i /\ m + 1 \in 1..n /\ m + 1 \in 1..Len(s) /\ m < Len(t)
      BY <1>t, <1>1, <3>1
    <3>3. Len(s[m + 1]) < MaxToken /\ Len(s[m + 1]) >= MaxToken
      BY <1>2, <1>3, <2>1, <3>2
    <3>4. s[m + 1] \in Texts
      BY <3>2, ElementOfSeq
    <3>5. Len(s[m + 1]) \in Nat
      BY <3>4, LenProperties DEF Texts
    <3> QED
      BY <3>3, <3>5, ProtocolsAssumption
  <2> QED
    BY <1>6, <2>1, <2>2
<1>7. e # "end"
  BY <1>2 DEF EndOf
<1>8. \A i \in 1..n : i < n \/ whole => i <= m /\ SubSeq(s, 1, n)[i] = SubSeq(t, 1, m)[i]
  BY <1>t, <1>4, <1>5, <1>6
<1>9. Scanned(s, err).vals = SubSeq(s, 1, n) /\ Scanned(t, "EOF").vals = SubSeq(t, 1, m)
      /\ Scanned(s, err).end = e
  <2>1. Scanned(s, err) = [vals |-> SubSeq(s, 1, n), end |-> e]
    BY <1>2
  <2>2. Scanned(t, "EOF") = [vals |-> SubSeq(t, 1, m), end |-> f]
    BY <1>3
  <2> QED
    BY <2>1, <2>2
<1> QED
  BY <1>4, <1>5, <1>7, <1>8, <1>9, Zenon DEF ReadsAs, Nearly

(* A function over a sequence, element by element. *)
LEMMA Mapped ==
  ASSUME NEW S, NEW T, NEW g \in [S -> T], NEW s \in Seq(S)
  PROVE  /\ [i \in DOMAIN s |-> g[s[i]]] \in Seq(T)
         /\ Len([i \in DOMAIN s |-> g[s[i]]]) = Len(s)
         /\ \A i \in 1..Len(s) : [j \in DOMAIN s |-> g[s[j]]][i] = g[s[i]]
<1> DEFINE f == [i \in DOMAIN s |-> g[s[i]]]
<1>1. Len(s) \in Nat /\ DOMAIN s = 1..Len(s) /\ \A i \in 1..Len(s) : s[i] \in S
  BY LenProperties
<1>2. f \in [1..Len(s) -> T] /\ \A i \in 1..Len(s) : f[i] = g[s[i]]
  BY <1>1
<1>3. \A n \in Nat : \A h \in [1..n -> T] : h \in Seq(T) /\ Len(h) = n
  OBVIOUS
<1> HIDE DEF f
<1>4. f \in Seq(T) /\ Len(f) = Len(s)
  BY <1>1, <1>2, <1>3
<1> QED
  BY <1>2, <1>4 DEF f

(* Lines, and rows of lines. *)
LEMMA LineSourceBegins ==
  ASSUME NEW d \in Texts, NEW w \in Texts, Begins(d, w), NEW err, err # "end", err # "EOF"
  PROVE  /\ LineSource(d, err).vals \in Seq(Texts) /\ LineSource(w, "EOF").vals \in Seq(Texts)
         /\ ReadsAs(LineSource(d, err), LineSource(w, "EOF"), EndsLine(d))
BY LinesFacts, LinesBegin, ScannedBegins DEF LineSource

(* The fields of a line. *)
Rows == {Fields(line) : line \in Texts}

(* The fields of each line. *)
LEMMA RowsOf ==
  ASSUME NEW text, NEW end, LineSource(text, end).vals \in Seq(Texts),
         NEW v, NEW e, LineSource(text, end) = [vals |-> v, end |-> e]
  PROVE  /\ UnixTableSource(text, end).vals \in Seq(Rows)
         /\ UnixTableSource(text, end).end = LineSource(text, end).end
         /\ Len(UnixTableSource(text, end).vals) = Len(LineSource(text, end).vals)
         /\ \A i \in 1..Len(LineSource(text, end).vals) :
              UnixTableSource(text, end).vals[i] = Fields(LineSource(text, end).vals[i])
<1> DEFINE g == [line \in Texts |-> Fields(line)]
           row == [i \in DOMAIN v |-> g[v[i]]]
<1>1. v \in Seq(Texts) /\ g \in [Texts -> Rows]
  BY DEF Rows
<1>2. \A i \in DOMAIN v : v[i] \in Texts
  BY <1>1, LenProperties
<1>3. UnixTableSource(text, end) = [vals |-> row, end |-> e]
  <2>1. row = [i \in DOMAIN v |-> Fields(v[i])]
    BY <1>2
  <2>2. LineSource(text, end).vals = v
    OBVIOUS
  <2>3. UnixTableSource(text, end) = [[vals |-> v, end |-> e] EXCEPT !.vals = [i \in DOMAIN v |-> Fields(v[i])]]
    BY <2>2, Zenon DEF UnixTableSource
  <2> HIDE DEF row
  <2> QED
    BY <2>1, <2>3
<1>4. row \in Seq(Rows) /\ Len(row) = Len(v) /\ \A i \in 1..Len(v) : row[i] = g[v[i]]
  <2> HIDE DEF g
  <2> QED
    BY <1>1, Mapped
<1>5. \A i \in 1..Len(v) : g[v[i]] = Fields(v[i])
  BY <1>1, <1>2, LenProperties
<1> HIDE DEF g, row
<1> QED
  BY <1>3, <1>4, <1>5

-----------------------------------------------------------------------------
(* JSON.  What decoding returns of a place: a place after it, or why not.  *)
Parts       == {"value", "more"}
Tokens(end) == [at : Nat, val : Texts, err : {"nil", "syntax", end}]

OutcomeAt(r, x, text, end) ==
  r \in Tokens(end) /\ (r.err = "nil" => r.at \in (x + 1)..(Len(text) + 1))

DecodesAfter(f, x, text, end) ==
  \A y \in (x + 1)..(Len(text) + 1) : \A part \in Parts : OutcomeAt(f[y][part], y, text, end)

(* A text before what is read. *)
LEMMA PrefixedFacts ==
  ASSUME NEW text \in Texts, NEW end, NEW r \in Tokens(end)
  PROVE  /\ Prefixed(text, r) \in Tokens(end)
         /\ Prefixed(text, r).err = r.err /\ (r.err = "nil" => Prefixed(text, r).at = r.at)
<1>1. CASE r.err # "nil"
  BY <1>1 DEF Prefixed
<1>2. CASE r.err = "nil"
  <2>1. text \o r.val \in Texts
    BY ConcatProperties DEF Texts, Tokens
  <2>2. Prefixed(text, r) = [r EXCEPT !.val = text \o r.val]
    BY <1>2 DEF Prefixed
  <2> QED
    BY <1>2, <2>1, <2>2 DEF Tokens
<1> QED
  BY <1>1, <1>2

(* An item of a list is read past its place, or not at all. *)
LEMMA ItemFacts ==
  ASSUME NEW text \in Texts, NEW x \in Places(text), NEW end, end # "nil", NEW f,
         DecodesAfter(f, x, text, end), NEW at \in (x + 1)..(Len(text) + 1)
  PROVE  OutcomeAt(DecodeItem(f, at), x, text, end)
<1> DEFINE item == f[at]["value"]
           more == f[item.at]["more"]
<1>1. x \in Nat /\ Len(text) \in Nat
  BY LenProperties DEF Texts, Places
<1>2. OutcomeAt(item, at, text, end)
  BY DEF DecodesAfter, Parts
<1>3. CASE item.err # "nil"
  <2>1. DecodeItem(f, at) = item
    BY <1>3, Zenon DEF DecodeItem
  <2> QED
    BY <1>2, <1>3, <2>1, Zenon DEF OutcomeAt
<1>4. CASE item.err = "nil"
  <2>1. DecodeItem(f, at) = Prefixed(item.val, more)
    BY <1>4, Zenon DEF DecodeItem
  <2>2. item.val \in Texts /\ item.at \in (at + 1)..(Len(text) + 1)
    BY <1>2, <1>4 DEF OutcomeAt, Tokens
  <2> HIDE DEF item
  <2>3. OutcomeAt(more, item.at, text, end)
    <3>1. item.at \in (x + 1)..(Len(text) + 1)
      BY <1>1, <2>2
    <3> QED
      BY <3>1 DEF DecodesAfter, Parts
  <2> HIDE DEF more
  <2>4. /\ Prefixed(item.val, more) \in Tokens(end) /\ Prefixed(item.val, more).err = more.err
        /\ more.err = "nil" => Prefixed(item.val, more).at = more.at
    BY <2>2, <2>3, PrefixedFacts DEF OutcomeAt
  <2>5. more.err = "nil" => more.at \in (x + 1)..(Len(text) + 1)
    BY <1>1, <2>2, <2>3 DEF OutcomeAt
  <2> QED
    BY <2>1, <2>4, <2>5 DEF OutcomeAt
<1> QED
  BY <1>3, <1>4

(* What stops has its reason. *)
LEMMA StopsFacts ==
  ASSUME NEW text, NEW x, NEW end, NEW err \in {"syntax", end}, end # "nil"
  PROVE  OutcomeAt(Stops(err), x, text, end) /\ Stops(err).err # "nil"
<1>1. Stops(err) \in [at : Nat, val : Texts, err : {"nil", "syntax", end}] /\ Stops(err).err = err
  BY DEF Stops, Texts
<1>2. err # "nil"
  OBVIOUS
<1> QED
  BY <1>1, <1>2, Zenon DEF OutcomeAt, Tokens

(* What is read has a place and a text. *)
LEMMA ReadFacts ==
  ASSUME NEW text, NEW x, NEW end, NEW at \in Nat, at \in (x + 1)..(Len(text) + 1), NEW val \in Texts
  PROVE  OutcomeAt(Read(at, val), x, text, end)
BY DEF OutcomeAt, Read, Tokens

(* A list is read past its bracket. *)
LEMMA ListFacts ==
  ASSUME NEW text \in Texts, NEW x \in Places(text), NEW end, end # "nil", NEW f,
         DecodesAfter(f, x, text, end), NEW from \in (x + 1)..(Len(text) + 1)
  PROVE  OutcomeAt(DecodeList(f, text, from), x, text, end)
<1> DEFINE at == Past(text, from, BlankBytes)
<1>1. x \in Nat /\ Len(text) \in Nat /\ from \in Places(text)
  BY LenProperties DEF Texts, Places
<1>2. at \in from..(Len(text) + 1)
  BY <1>1, PastFacts
<1>3. CASE at <= Len(text) /\ text[at] = "]"
  <2>1. DecodeList(f, text, from) = Read(at + 1, <<"[", "]">>)
    BY <1>3, Zenon DEF DecodeList
  <2>2. at + 1 \in Nat /\ at + 1 \in (x + 1)..(Len(text) + 1)
    BY <1>1, <1>2, <1>3
  <2>3. <<"[", "]">> \in Texts
    BY DEF Texts, Bytes
  <2> HIDE DEF at
  <2> QED
    BY <2>1, <2>2, <2>3, ReadFacts
<1>4. CASE ~(at <= Len(text) /\ text[at] = "]")
  <2>1. DecodeList(f, text, from) = Prefixed(<<"[">>, DecodeItem(f, at))
    BY <1>4, Zenon DEF DecodeList
  <2>2. at \in (x + 1)..(Len(text) + 1)
    BY <1>1, <1>2
  <2>3. <<"[">> \in Texts
    BY DEF Texts, Bytes
  <2> HIDE DEF at
  <2>4. OutcomeAt(DecodeItem(f, at), x, text, end)
    BY <2>2, ItemFacts
  <2> QED
    BY <2>1, <2>3, <2>4, PrefixedFacts DEF OutcomeAt
<1> QED
  BY <1>3, <1>4

(* A number is read past its first digit. *)
LEMMA NumberFacts ==
  ASSUME NEW text \in Texts, NEW x \in Places(text), NEW end, end # "nil",
         NEW at \in x..Len(text), text[at] \in Digits
  PROVE  OutcomeAt(DecodeNumber(text, at, end), x, text, end)
<1> DEFINE after == Past(text, at, Digits)
<1>1. x \in 1..(Len(text) + 1) /\ Len(text) \in Nat /\ at \in Places(text) /\ at \in 1..(Len(text) + 1)
  BY LenProperties DEF Texts, Places
<1>2. after \in at..(Len(text) + 1) /\ (after <= Len(text) => text[after] \notin Digits)
  BY <1>1, PastFacts
<1>3. after \in (x + 1)..(Len(text) + 1)
  BY <1>1, <1>2
<1>4. SubSeq(text, at, after - 1) \in Texts
  <2> HIDE DEF after
  <2> QED
    BY <1>1, <1>2, Piece
<1>5. CASE after > Len(text) /\ end # "EOF"
  <2>1. DecodeNumber(text, at, end) = Stops(end)
    BY <1>5, Zenon DEF DecodeNumber
  <2> QED
    BY <2>1, StopsFacts
<1>6. CASE ~(after > Len(text) /\ end # "EOF")
  <2>1. DecodeNumber(text, at, end) = Read(after, SubSeq(text, at, after - 1))
    BY <1>6, Zenon DEF DecodeNumber
  <2>2. after \in Nat
    BY <1>1, <1>3
  <2> HIDE DEF after
  <2> QED
    BY <1>3, <1>4, <2>1, <2>2, ReadFacts
<1> QED
  BY <1>5, <1>6

(* A value, and what follows one, is read past the place it begins at. *)
LEMMA DecodeFacts ==
  ASSUME NEW text \in Texts, NEW x \in Places(text), NEW end, end # "nil", NEW f,
         DecodesAfter(f, x, text, end)
  PROVE  \A part \in Parts : OutcomeAt(Decode(f, text, x, end)[part], x, text, end)
<1> DEFINE at == Past(text, x, BlankBytes)
<1>1. x \in 1..(Len(text) + 1) /\ Len(text) \in Nat
  BY LenProperties DEF Texts, Places
<1>2. at \in x..(Len(text) + 1)
  BY <1>1, PastFacts
<1>3. OutcomeAt(Stops("syntax"), x, text, end) /\ OutcomeAt(Stops(end), x, text, end)
  BY StopsFacts
<1>4. at <= Len(text) => at + 1 \in (x + 1)..(Len(text) + 1) /\ at \in x..Len(text)
  BY <1>1, <1>2
<1> HIDE DEF at
<1>5. OutcomeAt(DecodeValue(f, text, x, end), x, text, end)
  <2>1. CASE at > Len(text)
    <3>1. DecodeValue(f, text, x, end) = Stops(end)
      BY <2>1, Zenon DEF DecodeValue, at
    <3> QED
      BY <1>3, <3>1
  <2>2. CASE ~(at > Len(text)) /\ text[at] = "["
    <3>1. DecodeValue(f, text, x, end) = DecodeList(f, text, at + 1)
      BY <2>2 DEF DecodeValue, at, Digits
    <3>2. OutcomeAt(DecodeList(f, text, at + 1), x, text, end)
      BY <1>1, <1>2, <1>4, <2>2, ListFacts
    <3> QED
      BY <3>1, <3>2
  <2>3. CASE ~(at > Len(text)) /\ text[at] \in Digits
    <3>1. DecodeValue(f, text, x, end) = DecodeNumber(text, at, end)
      BY <2>3 DEF DecodeValue, at, Digits
    <3>2. OutcomeAt(DecodeNumber(text, at, end), x, text, end)
      BY <1>1, <1>2, <1>4, <2>3, NumberFacts
    <3> QED
      BY <3>1, <3>2
  <2>4. CASE ~(at > Len(text)) /\ text[at] # "[" /\ text[at] \notin Digits
    <3>1. DecodeValue(f, text, x, end) = Stops("syntax")
      BY <2>4 DEF DecodeValue, at
    <3> QED
      BY <1>3, <3>1
  <2> QED
    BY <2>1, <2>2, <2>3, <2>4
<1>6. OutcomeAt(DecodeMore(f, text, x, end), x, text, end)
  <2>1. CASE at > Len(text)
    <3>1. DecodeMore(f, text, x, end) = Stops(end)
      BY <2>1, Zenon DEF DecodeMore, at
    <3> QED
      BY <1>3, <3>1
  <2>2. CASE ~(at > Len(text)) /\ text[at] = "]"
    <3>1. DecodeMore(f, text, x, end) = Read(at + 1, <<"]">>)
      BY <2>2 DEF DecodeMore, at
    <3>2. <<"]">> \in Texts /\ at + 1 \in Nat /\ at + 1 \in (x + 1)..(Len(text) + 1)
      BY <1>1, <1>2, <1>4, <2>2 DEF Texts, Bytes
    <3>3. OutcomeAt(Read(at + 1, <<"]">>), x, text, end)
      BY <3>2, ReadFacts
    <3> QED
      BY <3>1, <3>3
  <2>3. CASE ~(at > Len(text)) /\ text[at] = "comma"
    <3>1. DecodeMore(f, text, x, end) = Prefixed(<<"comma">>, DecodeItem(f, at + 1))
      BY <2>3 DEF DecodeMore, at
    <3>2. <<"comma">> \in Texts /\ at + 1 \in (x + 1)..(Len(text) + 1)
      BY <1>1, <1>2, <1>4, <2>3 DEF Texts, Bytes
    <3>3. OutcomeAt(DecodeItem(f, at + 1), x, text, end)
      BY <3>2, ItemFacts
    <3> QED
      BY <3>1, <3>2, <3>3, PrefixedFacts DEF OutcomeAt
  <2>4. CASE ~(at > Len(text)) /\ text[at] # "]" /\ text[at] # "comma"
    <3>1. DecodeMore(f, text, x, end) = Stops("syntax")
      BY <2>4 DEF DecodeMore, at
    <3> QED
      BY <1>3, <3>1
  <2> QED
    BY <2>1, <2>2, <2>3, <2>4
<1>7. Decode(f, text, x, end)["value"] = DecodeValue(f, text, x, end)
      /\ Decode(f, text, x, end)["more"] = DecodeMore(f, text, x, end)
  BY DEF Decode
<1> QED
  BY <1>5, <1>6, <1>7 DEF Parts

(* What decoding returns of a part of a text that it does not stop in, it  *)
(* returns of the whole.                                                   *)
Continues(f, g, x, text) ==
  \A y \in (x + 1)..(Len(text) + 1) : \A part \in Parts :
    f[y][part].err = "nil" => g[y][part] = f[y][part]

(* An item of a list does. *)
LEMMA ItemContinues ==
  ASSUME NEW d \in Texts, NEW x \in Places(d), NEW err, NEW f, NEW g,
         DecodesAfter(f, x, d, err), Continues(f, g, x, d),
         NEW at \in (x + 1)..(Len(d) + 1), DecodeItem(f, at).err = "nil"
  PROVE  DecodeItem(g, at) = DecodeItem(f, at) /\ at <= Len(d)
<1> DEFINE item == f[at]["value"]
           more == f[item.at]["more"]
<1>1. x \in Nat /\ Len(d) \in Nat
  BY LenProperties DEF Texts, Places
<1>2. OutcomeAt(item, at, d, err)
  BY DEF DecodesAfter, Parts
<1>3. item.err = "nil"
  BY Zenon DEF DecodeItem
<1>4. g[at]["value"] = item
  BY <1>3 DEF Continues, Parts
<1>5. DecodeItem(f, at) = Prefixed(item.val, more)
  BY <1>3, Zenon DEF DecodeItem
<1>6. DecodeItem(g, at) = Prefixed(item.val, g[item.at]["more"])
  BY <1>3, <1>4, Zenon DEF DecodeItem
<1>7. item.at \in (at + 1)..(Len(d) + 1)
  BY <1>2, <1>3, Zenon DEF OutcomeAt
<1> HIDE DEF item
<1>8. item.at \in (x + 1)..(Len(d) + 1) /\ at <= Len(d)
  BY <1>1, <1>7
<1>9. more.err = "nil"
  BY <1>5, Zenon DEF Prefixed
<1>10. g[item.at]["more"] = more
  BY <1>8, <1>9 DEF Continues, Parts
<1> QED
  BY <1>5, <1>6, <1>8, <1>10, Zenon

(* A list does. *)
LEMMA ListContinues ==
  ASSUME NEW d \in Texts, NEW w \in Texts, Begins(d, w), NEW x \in Places(d), NEW err,
         NEW f, NEW g, DecodesAfter(f, x, d, err), Continues(f, g, x, d),
         NEW from \in (x + 1)..(Len(d) + 1), DecodeList(f, d, from).err = "nil"
  PROVE  DecodeList(g, w, from) = DecodeList(f, d, from)
<1> DEFINE at == Past(d, from, BlankBytes)
           aw == Past(w, from, BlankBytes)
<1>1. /\ x \in Nat /\ x >= 1 /\ Len(d) \in Nat /\ Len(w) \in Nat /\ Len(d) <= Len(w)
      /\ from \in Places(d) /\ \A i \in 1..Len(d) : d[i] = w[i]
  BY LenProperties DEF Texts, Places, Begins
<1>2. at \in from..(Len(d) + 1) /\ (at <= Len(d) => aw = at)
  BY <1>1, PastFacts, PastSame
<1>3. at <= Len(d) => aw <= Len(w) /\ w[aw] = d[at]
  BY <1>1, <1>2
<1>4. CASE at <= Len(d) /\ d[at] = "]"
  <2>1. DecodeList(f, d, from) = Read(at + 1, <<"[", "]">>)
    BY <1>4, Zenon DEF DecodeList
  <2>2. DecodeList(g, w, from) = Read(aw + 1, <<"[", "]">>)
    BY <1>3, <1>4, Zenon DEF DecodeList
  <2> QED
    BY <1>2, <1>4, <2>1, <2>2
<1>5. CASE ~(at <= Len(d) /\ d[at] = "]")
  <2>1. DecodeList(f, d, from) = Prefixed(<<"[">>, DecodeItem(f, at))
    BY <1>5, Zenon DEF DecodeList
  <2>2. DecodeItem(f, at).err = "nil"
    BY <2>1, Zenon DEF Prefixed
  <2>3. at \in (x + 1)..(Len(d) + 1)
    BY <1>1, <1>2
  <2>4. DecodeItem(g, at) = DecodeItem(f, at) /\ at <= Len(d)
    <3> HIDE DEF at
    <3> QED
      BY <2>2, <2>3, ItemContinues
  <2>5. ~(aw <= Len(w) /\ w[aw] = "]") /\ aw = at
    BY <1>2, <1>3, <1>5, <2>4
  <2>6. DecodeList(g, w, from) = Prefixed(<<"[">>, DecodeItem(g, aw))
    BY <2>5, Zenon DEF DecodeList
  <2> QED
    BY <2>1, <2>4, <2>5, <2>6
<1> QED
  BY <1>4, <1>5

(* A number does, for it is not read before the byte after it is. *)
LEMMA NumberContinues ==
  ASSUME NEW d \in Texts, NEW w \in Texts, Begins(d, w), NEW at \in 1..Len(d),
         NEW err, err # "nil", err # "EOF", DecodeNumber(d, at, err).err = "nil"
  PROVE  DecodeNumber(w, at, "EOF") = DecodeNumber(d, at, err)
<1> DEFINE after == Past(d, at, Digits)
           aw    == Past(w, at, Digits)
<1>1. /\ Len(d) \in Nat /\ Len(w) \in Nat /\ Len(d) <= Len(w)
      /\ at \in Places(d) /\ at \in 1..(Len(d) + 1) /\ \A i \in 1..Len(d) : d[i] = w[i]
  BY LenProperties DEF Texts, Places, Begins
<1>2. after \in at..(Len(d) + 1) /\ (after <= Len(d) => aw = after)
  BY <1>1, PastFacts, PastSame
<1>3. ~(after > Len(d))
  <2>1. SUFFICES ASSUME after > Len(d) PROVE FALSE
    OBVIOUS
  <2>2. DecodeNumber(d, at, err) = Stops(err)
    BY <2>1, Zenon DEF DecodeNumber
  <2>3. Stops(err).err = err
    BY DEF Stops
  <2> QED
    BY <2>2, <2>3
<1>4. aw = after /\ after \in at..Len(d)
  BY <1>1, <1>2, <1>3
<1>5. DecodeNumber(d, at, err) = Read(after, SubSeq(d, at, after - 1))
  BY <1>3, Zenon DEF DecodeNumber
<1>6. DecodeNumber(w, at, "EOF") = Read(aw, SubSeq(w, at, aw - 1))
  BY Zenon DEF DecodeNumber
<1> HIDE DEF after, aw
<1>7. SubSeq(d, at, after - 1) = SubSeq(w, at, after - 1)
  <2> DEFINE sd == SubSeq(d, at, after - 1)
             sw == SubSeq(w, at, after - 1)
  <2>1. /\ sd \in Texts /\ Len(sd) = after - at
        /\ \A i \in 1..(after - at) : sd[i] = d[at + i - 1]
    BY <1>1, <1>2, Piece
  <2>2. /\ sw \in Texts /\ Len(sw) = after - at
        /\ \A i \in 1..(after - at) : sw[i] = w[at + i - 1]
    <3>1. at \in 1..(Len(w) + 1) /\ after \in at..(Len(w) + 1)
      BY <1>1, <1>4
    <3> QED
      BY <3>1, Piece
  <2> HIDE DEF sd, sw
  <2>3. \A i \in 1..Len(sd) : sd[i] = sw[i]
    <3>1. \A i \in 1..(after - at) : at + i - 1 \in 1..Len(d)
      BY <1>1, <1>4
    <3> QED
      BY <1>1, <2>1, <2>2, <3>1
  <2>4. sd = sw
    BY <2>1, <2>2, <2>3, SeqEqual DEF Texts
  <2> QED
    BY <2>4 DEF sd, sw
<1> QED
  BY <1>4, <1>5, <1>6, <1>7

(* So a value does, and what follows one. *)
LEMMA DecodeContinues ==
  ASSUME NEW d \in Texts, NEW w \in Texts, Begins(d, w), NEW x \in Places(d),
         NEW err, err # "nil", err # "EOF", NEW f, NEW g,
         DecodesAfter(f, x, d, err), Continues(f, g, x, d), NEW part \in Parts,
         Decode(f, d, x, err)[part].err = "nil"
  PROVE  Decode(g, w, x, "EOF")[part] = Decode(f, d, x, err)[part]
<1> DEFINE at == Past(d, x, BlankBytes)
           aw == Past(w, x, BlankBytes)
<1>1. /\ x \in 1..(Len(d) + 1) /\ Len(d) \in Nat /\ Len(w) \in Nat /\ Len(d) <= Len(w)
      /\ \A i \in 1..Len(d) : d[i] = w[i]
  BY LenProperties DEF Texts, Places, Begins
<1>2. at \in x..(Len(d) + 1) /\ (at <= Len(d) => aw = at)
  BY <1>1, PastFacts, PastSame
<1>3. \A b \in {"syntax", err} : Stops(b).err # "nil"
  BY DEF Stops
<1>4. Decode(f, d, x, err)["value"] = DecodeValue(f, d, x, err)
      /\ Decode(f, d, x, err)["more"] = DecodeMore(f, d, x, err)
      /\ Decode(g, w, x, "EOF")["value"] = DecodeValue(g, w, x, "EOF")
      /\ Decode(g, w, x, "EOF")["more"] = DecodeMore(g, w, x, "EOF")
  BY DEF Decode
<1>5. ~(at > Len(d))
  <2>1. at > Len(d) => DecodeValue(f, d, x, err) = Stops(err) /\ DecodeMore(f, d, x, err) = Stops(err)
    BY Zenon DEF DecodeValue, DecodeMore
  <2> QED
    BY <1>3, <1>4, <2>1 DEF Parts
<1>6. /\ aw = at /\ ~(aw > Len(w)) /\ w[at] = d[at] /\ at \in 1..Len(d)
      /\ at + 1 \in (x + 1)..(Len(d) + 1)
  BY <1>1, <1>2, <1>5
<1> HIDE DEF at, aw
<1>7. CASE part = "value"
  <2>1. DecodeValue(f, d, x, err).err = "nil"
    BY <1>4, <1>7
  <2>2. CASE d[at] = "["
    <3>1. DecodeValue(f, d, x, err) = DecodeList(f, d, at + 1)
      BY <1>5, <2>2 DEF DecodeValue, at, Digits
    <3>2. DecodeValue(g, w, x, "EOF") = DecodeList(g, w, at + 1)
      BY <1>6, <2>2 DEF DecodeValue, aw, Digits
    <3>3. DecodeList(g, w, at + 1) = DecodeList(f, d, at + 1)
      BY <1>6, <2>1, <3>1, ListContinues
    <3> QED
      BY <1>4, <1>7, <3>1, <3>2, <3>3
  <2>3. CASE d[at] \in Digits
    <3>1. DecodeValue(f, d, x, err) = DecodeNumber(d, at, err)
      BY <1>5, <2>3 DEF DecodeValue, at, Digits
    <3>2. DecodeValue(g, w, x, "EOF") = DecodeNumber(w, at, "EOF")
      BY <1>6, <2>3 DEF DecodeValue, aw, Digits
    <3>3. DecodeNumber(w, at, "EOF") = DecodeNumber(d, at, err)
      BY <1>6, <2>1, <3>1, NumberContinues
    <3> QED
      BY <1>4, <1>7, <3>1, <3>2, <3>3
  <2>4. CASE d[at] # "[" /\ d[at] \notin Digits
    <3>1. DecodeValue(f, d, x, err) = Stops("syntax")
      BY <1>5, <2>4 DEF DecodeValue, at
    <3> QED
      BY <1>3, <2>1, <3>1
  <2> QED
    BY <2>2, <2>3, <2>4
<1>8. CASE part = "more"
  <2>1. DecodeMore(f, d, x, err).err = "nil"
    BY <1>4, <1>8
  <2>2. CASE d[at] = "]"
    <3>1. DecodeMore(f, d, x, err) = Read(at + 1, <<"]">>)
      BY <1>5, <2>2 DEF DecodeMore, at
    <3>2. DecodeMore(g, w, x, "EOF") = Read(at + 1, <<"]">>)
      BY <1>6, <2>2 DEF DecodeMore, aw
    <3> QED
      BY <1>4, <1>8, <3>1, <3>2
  <2>3. CASE d[at] = "comma"
    <3>1. DecodeMore(f, d, x, err) = Prefixed(<<"comma">>, DecodeItem(f, at + 1))
      BY <1>5, <2>3 DEF DecodeMore, at
    <3>2. DecodeMore(g, w, x, "EOF") = Prefixed(<<"comma">>, DecodeItem(g, at + 1))
      BY <1>6, <2>3 DEF DecodeMore, aw
    <3>3. DecodeItem(f, at + 1).err = "nil"
      BY <2>1, <3>1, Zenon DEF Prefixed
    <3>4. DecodeItem(g, at + 1) = DecodeItem(f, at + 1)
      BY <1>6, <3>3, ItemContinues
    <3> QED
      BY <1>4, <1>8, <3>1, <3>2, <3>4
  <2>4. CASE d[at] # "]" /\ d[at] # "comma"
    <3>1. DecodeMore(f, d, x, err) = Stops("syntax")
      BY <1>5, <2>4 DEF DecodeMore, at
    <3> QED
      BY <1>3, <2>1, <3>1
  <2> QED
    BY <2>2, <2>3, <2>4
<1> QED
  BY <1>7, <1>8 DEF Parts

(* Decode depends on the places after its own, as LinesFrom does.          *)
LEMMA ItemAgrees ==
  ASSUME NEW text \in Texts, NEW x \in Places(text), NEW end, NEW f, NEW g,
         DecodesAfter(f, x, text, end), \A y \in (x + 1)..(Len(text) + 1) : f[y] = g[y],
         NEW at \in (x + 1)..(Len(text) + 1)
  PROVE  DecodeItem(f, at) = DecodeItem(g, at)
<1> DEFINE item == f[at]["value"]
<1>1. x \in Nat /\ Len(text) \in Nat
  BY LenProperties DEF Texts, Places
<1>2. OutcomeAt(item, at, text, end) /\ g[at]["value"] = item
  BY DEF DecodesAfter, Parts
<1>3. item.err = "nil" => item.at \in (at + 1)..(Len(text) + 1)
  BY <1>2, Zenon DEF OutcomeAt
<1> HIDE DEF item
<1>4. item.err = "nil" => f[item.at] = g[item.at]
  BY <1>1, <1>3
<1>5. g[at]["value"] = f[at]["value"]
  BY <1>2 DEF item
<1>6. f[at]["value"].err # "nil" \/ f[f[at]["value"].at] = g[f[at]["value"].at]
  BY <1>4 DEF item
<1> QED
  BY <1>5, <1>6, Zenon DEF DecodeItem

(* So does what is decoded at a place. *)
LEMMA DecodeAgrees ==
  ASSUME NEW text \in Texts, NEW x \in Places(text), NEW end, NEW f, NEW g,
         DecodesAfter(f, x, text, end), \A y \in (x + 1)..(Len(text) + 1) : f[y] = g[y]
  PROVE  Decode(f, text, x, end) = Decode(g, text, x, end)
<1> DEFINE at   == Past(text, x, BlankBytes)
           next == Past(text, at + 1, BlankBytes)
<1>1. x \in 1..(Len(text) + 1) /\ Len(text) \in Nat
  BY LenProperties DEF Texts, Places
<1>2. at \in x..(Len(text) + 1)
  BY <1>1, PastFacts
<1>3. at <= Len(text) => at + 1 \in Places(text) /\ at + 1 \in (x + 1)..(Len(text) + 1)
  BY <1>1, <1>2 DEF Places
<1>4. at <= Len(text) => next \in (x + 1)..(Len(text) + 1)
  <2>1. at <= Len(text) => next \in (at + 1)..(Len(text) + 1)
    <3> HIDE DEF at
    <3> QED
      BY <1>3, PastFacts
  <2> QED
    BY <1>1, <1>2, <2>1
<1> HIDE DEF next
<1>5. at <= Len(text) => /\ DecodeItem(f, next) = DecodeItem(g, next)
                         /\ DecodeItem(f, at + 1) = DecodeItem(g, at + 1)
  <2> HIDE DEF at
  <2> QED
    BY <1>3, <1>4, ItemAgrees
<1>6. at <= Len(text) => DecodeList(f, text, at + 1) = DecodeList(g, text, at + 1)
  BY <1>5, Zenon DEF DecodeList, next
<1>7. at > Len(text) \/ at <= Len(text)
  BY <1>1, <1>2
<1>8. CASE at > Len(text)
  <2>1. DecodeValue(f, text, x, end) = DecodeValue(g, text, x, end)
    BY <1>8, Zenon DEF DecodeValue
  <2>2. DecodeMore(f, text, x, end) = DecodeMore(g, text, x, end)
    BY <1>8, Zenon DEF DecodeMore
  <2> QED
    BY <2>1, <2>2, Zenon DEF Decode
<1>9. CASE at <= Len(text)
  <2>1. DecodeValue(f, text, x, end) = DecodeValue(g, text, x, end)
    <3> DEFINE list(h) == DecodeList(h, text, at + 1)
               other   == IF text[at] \in Digits THEN DecodeNumber(text, at, end) ELSE Stops("syntax")
    <3>1. \A h : DecodeValue(h, text, x, end) = IF text[at] = "[" THEN list(h) ELSE other
      <4>1. ~(at > Len(text))
        BY <1>1, <1>2, <1>9
      <4> QED
        BY <4>1 DEF DecodeValue, Digits
    <3> QED
      BY <1>6, <1>9, <3>1
  <2>2. DecodeMore(f, text, x, end) = DecodeMore(g, text, x, end)
    BY <1>5, <1>9, Zenon DEF DecodeMore
  <2> QED
    BY <2>1, <2>2, Zenon DEF Decode
<1> QED
  BY <1>7, <1>8, <1>9

(* So the recursion defines a function that is typed. *)
LEMMA DecodingsFacts ==
  ASSUME NEW text \in Texts, NEW end, end # "nil"
  PROVE  \A x \in Places(text) :
           /\ Decodings(text, end)[x] = Decode(Decodings(text, end), text, x, end)
           /\ \A part \in Parts : OutcomeAt(Decodings(text, end)[x][part], x, text, end)
<1> DEFINE M == Len(text) + 1
           V == [Parts -> Tokens(end)]
           F == {f \in [1..M -> V] :
                   \A x \in 1..M : \A part \in Parts : OutcomeAt(f[x][part], x, text, end)}
           G == [f \in F |-> [x \in 1..M |-> Decode(f, text, x, end)]]
           D == Decodings(text, end)
<1>1. M \in Nat /\ M >= 1 /\ Places(text) = 1..M /\ M = Len(text) + 1
  BY LenProperties DEF Texts, Places
<1> HIDE DEF M
<1>2. ASSUME NEW f \in F, NEW x \in 1..M
      PROVE  /\ Decode(f, text, x, end) \in V
             /\ DecodesAfter(f, x, text, end)
             /\ \A part \in Parts : OutcomeAt(Decode(f, text, x, end)[part], x, text, end)
  <2>1. DecodesAfter(f, x, text, end)
    BY <1>1 DEF DecodesAfter
  <2>2. \A part \in Parts : OutcomeAt(Decode(f, text, x, end)[part], x, text, end)
    BY <1>1, <2>1, DecodeFacts
  <2>3. \A part \in Parts : Decode(f, text, x, end)[part] \in Tokens(end)
    BY <2>2 DEF OutcomeAt
  <2>4. Decode(f, text, x, end) = [part \in Parts |-> Decode(f, text, x, end)[part]]
    BY DEF Decode, Parts
  <2> QED
    BY <2>1, <2>2, <2>3, <2>4
<1>3. G \in [F -> F] /\ \A f \in F : \A x \in 1..M : G[f][x] = Decode(f, text, x, end)
  <2>1. \A f \in F : [x \in 1..M |-> Decode(f, text, x, end)] \in F
    BY <1>2
  <2> HIDE DEF F
  <2> QED
    BY <2>1
<1>4. ASSUME NEW f \in F, NEW g \in F, NEW x \in 1..M, \A y \in (x + 1)..M : f[y] = g[y]
      PROVE  G[f][x] = G[g][x]
  <2>1. DecodesAfter(f, x, text, end)
    BY <1>2
  <2>2. Decode(f, text, x, end) = Decode(g, text, x, end)
    BY <1>1, <1>4, <2>1, DecodeAgrees
  <2> HIDE DEF F, G
  <2> QED
    BY <1>3, <2>2
<1>5. \A f, g \in F : \A x \in 1..M : [f EXCEPT ![x] = g[x]] \in F
  OBVIOUS
<1>6. F # {} /\ F \subseteq [1..M -> V]
  <2> DEFINE h == [x \in 1..M |-> [part \in Parts |-> Stops("syntax")]]
  <2>1. \A x \in 1..M : OutcomeAt(Stops("syntax"), x, text, end)
    BY StopsFacts
  <2>2. 1 \in 1..M
    BY <1>1
  <2>3. Stops("syntax") \in Tokens(end)
    BY <2>1, <2>2 DEF OutcomeAt
  <2>4. h \in F
    BY <2>1, <2>3
  <2> QED
    BY <2>4
<1>7. PICK f \in F : G[f] = f
  <2> HIDE DEF F, G, V
  <2> QED
    BY <1>1, <1>3, <1>4, <1>5, <1>6, FixedPoint, ZenonT(40)
<1>8. f = [x \in Places(text) |-> Decode(f, text, x, end)]
  BY <1>1, <1>7
<1>9. D = [x \in Places(text) |-> Decode(D, text, x, end)]
  BY <1>8, Zenon DEF Decodings
<1> HIDE DEF D
<1>10. \A x \in 1..M : DecodesAfter(f, x, text, end)
  BY <1>2
<1> DEFINE T == {x \in 1..M : D[x] = f[x]}
<1>11. ASSUME NEW x \in 1..M, \A y \in (x + 1)..M : y \in T
       PROVE  x \in T
  <2>1. Decode(f, text, x, end) = Decode(D, text, x, end)
    BY <1>1, <1>10, <1>11, DecodeAgrees
  <2>2. D[x] = Decode(D, text, x, end) /\ f[x] = Decode(f, text, x, end)
    BY <1>1, <1>8, <1>9
  <2> QED
    BY <2>1, <2>2
<1>12. \A x \in 1..M : x \in T
  <2> HIDE DEF T
  <2> QED
    BY <1>1, <1>11, Downwards
<1>13. ASSUME NEW x \in Places(text)
       PROVE  /\ D[x] = Decode(D, text, x, end)
              /\ \A part \in Parts : OutcomeAt(D[x][part], x, text, end)
  <2>1. D[x] = f[x]
    BY <1>1, <1>12
  <2>2. \A part \in Parts : OutcomeAt(f[x][part], x, text, end)
    BY <1>1, <1>7
  <2> QED
    BY <1>9, <2>1, <2>2
<1> QED
  BY <1>13 DEF D

(* What is decoded of a beginning is what is decoded of the whole. *)
LEMMA DecodingsContinue ==
  ASSUME NEW d \in Texts, NEW w \in Texts, Begins(d, w), NEW err, err # "nil", err # "EOF"
  PROVE  \A x \in Places(d) : \A part \in Parts :
           Decodings(d, err)[x][part].err = "nil" =>
             Decodings(w, "EOF")[x][part] = Decodings(d, err)[x][part]
<1> DEFINE f == Decodings(d, err)
           g == Decodings(w, "EOF")
           M == Len(d) + 1
           T == {x \in 1..M : \A part \in Parts : f[x][part].err = "nil" => g[x][part] = f[x][part]}
<1>1. M \in Nat /\ Places(d) = 1..M /\ M = Len(d) + 1
  BY LenProperties DEF Texts, Places
<1>2. \A x \in Places(d) : x \in Places(w)
  BY LenProperties DEF Texts, Places, Begins
<1>3. /\ \A x \in Places(d) : /\ f[x] = Decode(f, d, x, err)
                              /\ \A part \in Parts : OutcomeAt(f[x][part], x, d, err)
      /\ \A x \in Places(d) : g[x] = Decode(g, w, x, "EOF")
  BY <1>2, DecodingsFacts
<1> HIDE DEF f, g, M
<1>4. ASSUME NEW x \in 1..M, \A y \in (x + 1)..M : y \in T
      PROVE  x \in T
  <2>1. \A y \in (x + 1)..M : y \in 1..M
    BY <1>1
  <2>2. DecodesAfter(f, x, d, err)
    BY <1>1, <1>3, <2>1 DEF DecodesAfter
  <2>3. Continues(f, g, x, d)
    BY <1>1, <1>4 DEF Continues
  <2>4. \A part \in Parts : f[x][part].err = "nil" => g[x][part] = f[x][part]
    BY <1>1, <1>3, <2>2, <2>3, DecodeContinues
  <2> QED
    BY <2>4
<1>5. \A x \in 1..M : x \in T
  <2> HIDE DEF T
  <2> QED
    BY <1>1, <1>4, Downwards
<1> QED
  BY <1>1, <1>5 DEF f, g

-----------------------------------------------------------------------------
(* The values of a text from a place on, and what ends them.               *)
JSONAt(text, end) ==
  CHOOSE source : source = [from \in Places(text) |->
                              JSONFrom(source, Decodings(text, end)[from]["value"])]

ValuesTo(end) == [vals : Seq(Texts), end : {"end", "syntax", end}]

(* JSONFrom depends on the places after its own. *)
LEMMA JSONAgrees ==
  ASSUME NEW text \in Texts, NEW x \in Places(text), NEW end, NEW next,
         OutcomeAt(next, x, text, end), NEW f, NEW g,
         \A y \in (x + 1)..(Len(text) + 1) : f[y] = g[y]
  PROVE  JSONFrom(f, next) = JSONFrom(g, next)
<1>1. next.err # "nil" \/ f[next.at] = g[next.at]
  BY DEF OutcomeAt
<1> QED
  BY <1>1, Zenon DEF JSONFrom

(* It is a sequence of texts, and what ends it. *)
LEMMA JSONTyped ==
  ASSUME NEW text \in Texts, NEW x \in Places(text), NEW end, NEW next,
         OutcomeAt(next, x, text, end), NEW f \in [Places(text) -> ValuesTo(end)]
  PROVE  /\ JSONFrom(f, next) \in ValuesTo(end)
         /\ next.err = "nil" =>
              /\ next.at \in Places(text) /\ next.at > x /\ next.val \in Texts
              /\ JSONFrom(f, next).end = f[next.at].end
              /\ JSONFrom(f, next).vals = <<next.val>> \o f[next.at].vals
<1>1. x \in 1..(Len(text) + 1) /\ Len(text) \in Nat
  BY LenProperties DEF Texts, Places
<1>2. CASE next.err # "nil"
  <2>1. JSONFrom(f, next) = [vals |-> <<>>, end |-> EndOf(next.err)]
    BY <1>2, Zenon DEF JSONFrom, Source
  <2>2. EndOf(next.err) \in {"end", "syntax", end}
    BY <1>2 DEF EndOf, OutcomeAt, Tokens
  <2>3. [vals |-> <<>>, end |-> EndOf(next.err)] \in ValuesTo(end)
    BY <2>2 DEF ValuesTo
  <2> QED
    BY <1>2, <2>1, <2>3
<1>3. CASE next.err = "nil"
  <2>1. next.at \in (x + 1)..(Len(text) + 1) /\ next.val \in Texts
    BY <1>3 DEF OutcomeAt, Tokens
  <2>2. next.at \in Places(text) /\ next.at > x
    BY <1>1, <2>1 DEF Places
  <2> DEFINE r == f[next.at]
  <2>3. r \in ValuesTo(end)
    BY <2>2
  <2>4. JSONFrom(f, next) = [r EXCEPT !.vals = <<next.val>> \o r.vals]
    BY <1>3 DEF JSONFrom
  <2>5. <<next.val>> \o r.vals \in Seq(Texts)
    BY <2>1, <2>3, ConsFacts DEF ValuesTo
  <2> HIDE DEF r
  <2>6. /\ JSONFrom(f, next) \in ValuesTo(end) /\ JSONFrom(f, next).end = r.end
        /\ JSONFrom(f, next).vals = <<next.val>> \o r.vals
    BY <2>3, <2>4, <2>5 DEF ValuesTo
  <2> QED
    BY <1>3, <2>1, <2>2, <2>6 DEF r
<1> QED
  BY <1>2, <1>3

(* So the recursion defines a function, and JSONSource has its equation. *)
LEMMA JSONFacts ==
  ASSUME NEW text \in Texts, NEW end, end # "nil"
  PROVE  /\ JSONAt(text, end) \in [Places(text) -> ValuesTo(end)]
         /\ \A x \in Places(text) :
              JSONAt(text, end)[x] = JSONFrom(JSONAt(text, end), Decodings(text, end)[x]["value"])
         /\ JSONSource(text, end) = JSONAt(text, end)[1]
<1> DEFINE M == Len(text) + 1
           next(x) == Decodings(text, end)[x]["value"]
           F == [1..M -> ValuesTo(end)]
           G == [f \in F |-> [x \in 1..M |-> JSONFrom(f, next(x))]]
           J == JSONAt(text, end)
<1>1. M \in Nat /\ M >= 1 /\ Places(text) = 1..M /\ M = Len(text) + 1
  BY LenProperties DEF Texts, Places
<1> HIDE DEF M
<1>2. \A x \in 1..M : OutcomeAt(next(x), x, text, end)
  BY <1>1, DecodingsFacts DEF Parts
<1> HIDE DEF next
<1>3. G \in [F -> F] /\ \A f \in F : \A x \in 1..M : G[f][x] = JSONFrom(f, next(x))
  <2>1. \A f \in F : \A x \in 1..M : JSONFrom(f, next(x)) \in ValuesTo(end)
    BY <1>1, <1>2, JSONTyped
  <2> QED
    BY <2>1
<1>4. ASSUME NEW f \in F, NEW g \in F, NEW x \in 1..M, \A y \in (x + 1)..M : f[y] = g[y]
      PROVE  G[f][x] = G[g][x]
  <2>1. JSONFrom(f, next(x)) = JSONFrom(g, next(x))
    <3>1. /\ x \in Places(text) /\ OutcomeAt(next(x), x, text, end)
          /\ \A y \in (x + 1)..(Len(text) + 1) : f[y] = g[y]
      BY <1>1, <1>2, <1>4
    <3> HIDE DEF F
    <3> QED
      BY <3>1, JSONAgrees
  <2> HIDE DEF F, G
  <2> QED
    BY <1>3, <2>1
<1>5. \A f, g \in F : \A x \in 1..M : [f EXCEPT ![x] = g[x]] \in F
  OBVIOUS
<1>6. F # {} /\ F \subseteq [1..M -> ValuesTo(end)]
  <2>1. [vals |-> <<>>, end |-> "end"] \in ValuesTo(end)
    BY DEF ValuesTo
  <2>2. [x \in 1..M |-> [vals |-> <<>>, end |-> "end"]] \in F
    BY <2>1
  <2> QED
    BY <2>2
<1>7. PICK f \in F : G[f] = f
  <2> HIDE DEF F, G
  <2> QED
    BY <1>1, <1>3, <1>4, <1>5, <1>6, FixedPoint, ZenonT(40)
<1>8. f = [x \in Places(text) |-> JSONFrom(f, Decodings(text, end)[x]["value"])]
  BY <1>1, <1>7 DEF next
<1>9. J = [x \in Places(text) |-> JSONFrom(J, Decodings(text, end)[x]["value"])]
  BY <1>8, Zenon DEF JSONAt
<1>10. JSONSource(text, end) = J[1]
  BY Zenon DEF JSONSource, JSONAt
<1> HIDE DEF J
<1> DEFINE T == {x \in 1..M : J[x] = f[x]}
<1>11. ASSUME NEW x \in 1..M, \A y \in (x + 1)..M : y \in T
       PROVE  x \in T
  <2>1. JSONFrom(f, next(x)) = JSONFrom(J, next(x))
    <3>1. /\ x \in Places(text) /\ OutcomeAt(next(x), x, text, end)
          /\ \A y \in (x + 1)..(Len(text) + 1) : f[y] = J[y]
      BY <1>1, <1>2, <1>11
    <3> HIDE DEF F, T
    <3> QED
      BY <3>1, JSONAgrees
  <2>2. J[x] = JSONFrom(J, next(x)) /\ f[x] = JSONFrom(f, next(x))
    BY <1>1, <1>8, <1>9 DEF next
  <2> QED
    BY <2>1, <2>2
<1>12. \A x \in 1..M : x \in T
  <2> HIDE DEF T
  <2> QED
    BY <1>1, <1>11, Downwards
<1>13. J \in [Places(text) -> ValuesTo(end)]
  BY <1>1, <1>9, <1>12
<1>14. \A x \in Places(text) : J[x] = JSONFrom(J, Decodings(text, end)[x]["value"])
  BY <1>9
<1> QED
  BY <1>10, <1>13, <1>14 DEF J

(* The same value before both keeps a beginning one. *)
LEMMA ConsBegins ==
  ASSUME NEW S, NEW e \in S, NEW s \in Seq(S), NEW t \in Seq(S), Begins(s, t)
  PROVE  Begins(<<e>> \o s, <<e>> \o t)
<1> DEFINE es == <<e>> \o s
           et == <<e>> \o t
<1>1. Len(s) \in Nat /\ Len(t) \in Nat /\ Len(s) <= Len(t) /\ \A i \in 1..Len(s) : s[i] = t[i]
  BY LenProperties DEF Begins
<1>2. /\ Len(es) = Len(s) + 1 /\ Len(et) = Len(t) + 1 /\ es[1] = e /\ et[1] = e
      /\ \A i \in 2..(Len(s) + 1) : es[i] = s[i - 1] /\ et[i] = t[i - 1]
  <2>1. \A i \in 2..(Len(s) + 1) : i \in 2..(Len(t) + 1)
    BY <1>1
  <2> QED
    BY <2>1, ConsFacts
<1> HIDE DEF es, et
<1>3. \A i \in 1..Len(es) : es[i] = et[i]
  BY <1>1, <1>2
<1> QED
  BY <1>1, <1>2, <1>3 DEF Begins, es, et

(* The values of a beginning are those that the whole begins with. *)
LEMMA JSONBegins ==
  ASSUME NEW d \in Texts, NEW w \in Texts, Begins(d, w),
         NEW err, err # "nil", err # "EOF", err # "end"
  PROVE  /\ JSONSource(d, err).vals \in Seq(Texts) /\ JSONSource(w, "EOF").vals \in Seq(Texts)
         /\ JSONSource(d, err).end # "end"
         /\ Begins(JSONSource(d, err).vals, JSONSource(w, "EOF").vals)
<1> DEFINE f == JSONAt(d, err)
           g == JSONAt(w, "EOF")
           M == Len(d) + 1
           nd(x) == Decodings(d, err)[x]["value"]
           nw(x) == Decodings(w, "EOF")[x]["value"]
           T == {x \in 1..M : f[x].end # "end" /\ Begins(f[x].vals, g[x].vals)}
<1>1. M \in Nat /\ Places(d) = 1..M /\ M = Len(d) + 1 /\ 1 \in 1..M
  BY LenProperties DEF Texts, Places
<1>2. \A x \in Places(d) : x \in Places(w)
  BY LenProperties DEF Texts, Places, Begins
<1>3. /\ \A x \in Places(d) : OutcomeAt(nd(x), x, d, err)
      /\ \A x \in Places(w) : OutcomeAt(nw(x), x, w, "EOF")
  BY DecodingsFacts DEF Parts
<1>4. \A x \in Places(d) : nd(x).err = "nil" => nw(x) = nd(x)
  BY DecodingsContinue DEF Parts
<1>5. /\ f \in [Places(d) -> ValuesTo(err)] /\ \A x \in Places(d) : f[x] = JSONFrom(f, nd(x))
      /\ JSONSource(d, err) = f[1]
  BY JSONFacts
<1>6. /\ g \in [Places(w) -> ValuesTo("EOF")] /\ \A x \in Places(w) : g[x] = JSONFrom(g, nw(x))
      /\ JSONSource(w, "EOF") = g[1]
  BY JSONFacts
<1> HIDE DEF f, g, M, nd, nw
<1>7. ASSUME NEW x \in 1..M, \A y \in (x + 1)..M : y \in T
      PROVE  x \in T
  <2>1. x \in Places(d) /\ x \in Places(w) /\ x \in Nat
    BY <1>1, <1>2
  <2>2. g[x].vals \in Seq(Texts)
    BY <1>6, <2>1 DEF ValuesTo
  <2>3. CASE nd(x).err # "nil"
    <3>1. f[x] = [vals |-> <<>>, end |-> EndOf(nd(x).err)]
      <4>1. OutcomeAt(nd(x), x, d, err) /\ f[x] = JSONFrom(f, nd(x))
        BY <1>3, <1>5, <2>1
      <4>2. JSONFrom(f, nd(x)) = [vals |-> <<>>, end |-> EndOf(nd(x).err)]
        BY <2>3, Zenon DEF JSONFrom, Source
      <4> QED
        BY <4>1, <4>2
    <3>2. nd(x).err \in {"syntax", err}
      BY <1>3, <2>1, <2>3 DEF OutcomeAt, Tokens
    <3>3. f[x].end # "end"
      BY <3>1, <3>2 DEF EndOf
    <3>4. Begins(<<>>, g[x].vals)
      BY <2>2, LenProperties DEF Begins
    <3> QED
      BY <3>1, <3>3, <3>4
  <2>4. CASE nd(x).err = "nil"
    <3> DEFINE y == nd(x).at
    <3>1. /\ y \in Places(d) /\ y > x /\ nd(x).val \in Texts
          /\ f[x].end = f[y].end /\ f[x].vals = <<nd(x).val>> \o f[y].vals
      BY <1>3, <1>5, <2>1, <2>4, JSONTyped
    <3>2. nw(x) = nd(x)
      BY <1>4, <2>1, <2>4
    <3>3. g[x].vals = <<nd(x).val>> \o g[y].vals
      BY <1>3, <1>6, <2>1, <2>4, <3>2, JSONTyped
    <3> HIDE DEF y
    <3>4. y \in T
      BY <1>1, <1>7, <2>1, <3>1
    <3>5. f[y].vals \in Seq(Texts) /\ g[y].vals \in Seq(Texts)
      BY <1>2, <1>5, <1>6, <3>1 DEF ValuesTo
    <3>6. Begins(f[x].vals, g[x].vals)
      BY <3>1, <3>3, <3>4, <3>5, ConsBegins
    <3> QED
      BY <3>1, <3>4, <3>6
  <2> QED
    BY <2>3, <2>4
<1>8. \A x \in 1..M : x \in T
  <2> HIDE DEF T
  <2> QED
    BY <1>1, <1>7, Downwards
<1>9. f[1].vals \in Seq(Texts) /\ g[1].vals \in Seq(Texts)
  BY <1>1, <1>2, <1>5, <1>6 DEF ValuesTo
<1> QED
  BY <1>1, <1>5, <1>6, <1>8, <1>9

-----------------------------------------------------------------------------
(* Any protocol.                                                           *)
LEMMA NearlyPrefix ==
  ASSUME NEW S, NEW s \in Seq(S), NEW t \in Seq(S), NEW whole, Nearly(s, t, whole)
  PROVE  IsPrefix(IF ~whole /\ s # <<>> THEN Front(s) ELSE s, t)
<1>1. Len(s) \in Nat /\ Len(t) \in Nat
  BY LenProperties
<1>2. CASE ~whole /\ s # <<>>
  <2>1. Len(s) >= 1
    BY <1>1, <1>2, EmptySeq
  <2>2. /\ Front(s) \in Seq(S) /\ Len(Front(s)) = Len(s) - 1
        /\ \A i \in 1..(Len(s) - 1) : Front(s)[i] = s[i]
    <3>1. Len(s) - 1 \in 0..Len(s)
      BY <1>1, <2>1
    <3> QED
      BY <3>1, FirstOnes DEF Front
  <2>3. \A i \in 1..(Len(s) - 1) : i <= Len(t) /\ s[i] = t[i]
    BY <1>1 DEF Nearly
  <2>4. Len(s) - 1 <= Len(t)
    <3>1. CASE Len(s) = 1
      BY <1>1, <3>1
    <3>2. CASE Len(s) # 1
      <4> DEFINE n == Len(s) - 1
      <4>1. n \in 1..n
        <5>1. \A k \in Nat : k >= 1 /\ k # 1 => k - 1 \in 1..(k - 1)
          OBVIOUS
        <5> QED
          BY <1>1, <2>1, <3>2, <5>1
      <4> HIDE DEF n
      <4>2. n <= Len(t)
        BY <2>3, <4>1 DEF n
      <4> QED
        BY <4>2 DEF n
    <3> QED
      BY <3>1, <3>2
  <2>5. Begins(Front(s), t)
    BY <2>2, <2>3, <2>4 DEF Begins
  <2>6. IsPrefix(Front(s), t)
    BY <2>2, <2>5, PrefixMeans
  <2> QED
    BY <1>2, <2>6
<1>3. CASE whole \/ s = <<>>
  <2>1. \A i \in 1..Len(s) : i <= Len(t) /\ s[i] = t[i]
    <3>1. s = <<>> => Len(s) = 0
      BY EmptySeq
    <3> QED
      BY <1>1, <1>3, <3>1 DEF Nearly
  <2>2. Len(s) <= Len(t)
    <3>1. CASE Len(s) = 0
      BY <1>1, <3>1
    <3>2. CASE Len(s) # 0
      <4>1. Len(s) \in 1..Len(s)
        BY <1>1, <3>2
      <4> QED
        BY <2>1, <4>1
    <3> QED
      BY <3>1, <3>2
  <2>3. IsPrefix(s, t)
    BY <2>1, <2>2, PrefixMeans DEF Begins
  <2> QED
    BY <1>3, <2>3
<1> QED
  BY <1>2, <1>3

(* A beginning is nearly one. *)
LEMMA BeginsNearly ==
  ASSUME NEW S, NEW s \in Seq(S), NEW t \in Seq(S), Begins(s, t), NEW whole
  PROVE  Nearly(s, t, whole)
<1>1. Len(s) \in Nat /\ Len(t) \in Nat
  BY LenProperties
<1>2. \A i \in 1..Len(s) : i <= Len(t) /\ s[i] = t[i]
  BY <1>1 DEF Begins
<1> QED
  BY <1>2, Zenon DEF Nearly

(* The rows of a beginning are those of the whole, but for the last. *)
LEMMA RowsBegin ==
  ASSUME NEW d \in Texts, NEW w \in Texts, Begins(d, w), NEW err, err # "end", err # "EOF"
  PROVE  /\ UnixTableSource(d, err).vals \in Seq(Rows)
         /\ UnixTableSource(w, "EOF").vals \in Seq(Rows)
         /\ ReadsAs(UnixTableSource(d, err), UnixTableSource(w, "EOF"), EndsLine(d))
<1> DEFINE s == LineSource(d, err).vals
           t == LineSource(w, "EOF").vals
<1>1. /\ s \in Seq(Texts) /\ t \in Seq(Texts)
      /\ LineSource(d, err).end # "end"
      /\ Nearly(s, t, EndsLine(d))
  BY LineSourceBegins DEF ReadsAs
<1>2. PICK v, e : LineSource(d, err) = [vals |-> v, end |-> e]
  BY Zenon DEF LineSource, Scanned, Source
<1>0. PICK u, f : LineSource(w, "EOF") = [vals |-> u, end |-> f]
  BY Zenon DEF LineSource, Scanned, Source
<1>3. /\ UnixTableSource(d, err).vals \in Seq(Rows)
      /\ UnixTableSource(d, err).end = LineSource(d, err).end
      /\ Len(UnixTableSource(d, err).vals) = Len(s)
      /\ \A i \in 1..Len(s) : UnixTableSource(d, err).vals[i] = Fields(s[i])
  BY <1>1, <1>2, RowsOf
<1>4. /\ UnixTableSource(w, "EOF").vals \in Seq(Rows)
      /\ Len(UnixTableSource(w, "EOF").vals) = Len(t)
      /\ \A i \in 1..Len(t) : UnixTableSource(w, "EOF").vals[i] = Fields(t[i])
  BY <1>1, <1>0, RowsOf
<1>5. Len(s) \in Nat /\ Len(t) \in Nat
  BY <1>1, LenProperties
<1> HIDE DEF s, t
<1>6. ASSUME NEW i \in 1..Len(s), i < Len(s) \/ EndsLine(d)
      PROVE  i <= Len(t) /\ UnixTableSource(d, err).vals[i] = UnixTableSource(w, "EOF").vals[i]
  <2>1. i <= Len(t) /\ s[i] = t[i]
    BY <1>1, <1>6 DEF Nearly
  <2>2. i \in 1..Len(t)
    BY <1>5, <2>1
  <2> QED
    BY <1>3, <1>4, <2>1, <2>2
<1>7. Nearly(UnixTableSource(d, err).vals, UnixTableSource(w, "EOF").vals, EndsLine(d))
  BY <1>3, <1>4, <1>6 DEF Nearly
<1> QED
  BY <1>1, <1>3, <1>4, <1>7 DEF ReadsAs

(* protocol.go: of a text that an error ends, each protocol reads values   *)
(* that it reads of every longer text, in the same places, but for a last  *)
(* line that is not ended; and it does not take the error for the end.     *)
THEOREM ProtoReads ==
  ASSUME NEW d \in Texts, NEW w \in Texts, Begins(d, w),
         NEW err, err # "nil", err # "EOF", err # "end", NEW name \in Protocols
  PROVE  \E S : /\ DecodeProto(name, d, err).vals \in Seq(S)
                /\ DecodeProto(name, w, "EOF").vals \in Seq(S)
                /\ ReadsAs(DecodeProto(name, d, err), DecodeProto(name, w, "EOF"),
                           name \in ByLines => EndsLine(d))
<1>1. CASE name = "raw"
  <2>1. DecodeProto(name, d, err) = [vals |-> <<>>, end |-> err]
    BY <1>1 DEF DecodeProto, RawSource, Source
  <2>2. DecodeProto(name, w, "EOF") = [vals |-> <<w>>, end |-> "end"]
    BY <1>1 DEF DecodeProto, RawSource, Source
  <2>3. <<>> \in Seq(Texts) /\ <<w>> \in Seq(Texts)
    OBVIOUS
  <2>4. Nearly(<<>>, <<w>>, name \in ByLines => EndsLine(d))
    BY DEF Nearly
  <2>5. /\ DecodeProto(name, d, err).vals = <<>> /\ DecodeProto(name, w, "EOF").vals = <<w>>
        /\ DecodeProto(name, d, err).end # "end"
    BY <2>1, <2>2
  <2> QED
    BY <2>3, <2>4, <2>5, Zenon DEF ReadsAs
<1>2. CASE name = "lines"
  <2>1. DecodeProto(name, d, err) = LineSource(d, err) /\ DecodeProto(name, w, "EOF") = LineSource(w, "EOF")
    BY <1>2 DEF DecodeProto
  <2>2. (name \in ByLines => EndsLine(d)) = EndsLine(d)
    BY <1>2 DEF ByLines, EndsLine
  <2> QED
    BY <2>1, <2>2, LineSourceBegins, Zenon
<1>3. CASE name = "unix-table"
  <2>1. /\ DecodeProto(name, d, err) = UnixTableSource(d, err)
        /\ DecodeProto(name, w, "EOF") = UnixTableSource(w, "EOF")
    BY <1>3 DEF DecodeProto
  <2>2. (name \in ByLines => EndsLine(d)) = EndsLine(d)
    BY <1>3 DEF ByLines, EndsLine
  <2> QED
    BY <2>1, <2>2, RowsBegin, Zenon
<1>4. CASE name = "json"
  <2>1. /\ DecodeProto(name, d, err) = JSONSource(d, err)
        /\ DecodeProto(name, w, "EOF") = JSONSource(w, "EOF")
    BY <1>4 DEF DecodeProto
  <2>2. Nearly(JSONSource(d, err).vals, JSONSource(w, "EOF").vals, name \in ByLines => EndsLine(d))
    BY JSONBegins, BeginsNearly
  <2> QED
    BY <2>1, <2>2, JSONBegins, Zenon DEF ReadsAs
<1> QED
  BY <1>1, <1>2, <1>3, <1>4 DEF Protocols, ByLines

-----------------------------------------------------------------------------
(* The messages of some kinds, and only those.                             *)
LEMMA OnlyAgrees ==
  ASSUME NEW S, NEW sent \in Seq(S), NEW kinds, NEW x \in Places(sent), NEW f, NEW g,
         \A y \in (x + 1)..(Len(sent) + 1) : f[y] = g[y]
  PROVE  OnlyFrom(f, sent, kinds, x) = OnlyFrom(g, sent, kinds, x)
<1>1. x \in 1..(Len(sent) + 1) /\ Len(sent) \in Nat
  BY LenProperties DEF Places
<1>2. x > Len(sent) \/ f[x + 1] = g[x + 1]
  BY <1>1
<1> QED
  BY <1>2, Zenon DEF OnlyFrom

(* They are of those kinds. *)
LEMMA OnlyTyped ==
  ASSUME NEW S, NEW sent \in Seq(S), NEW kinds, NEW x \in Places(sent),
         NEW f \in [Places(sent) -> Seq(kinds)]
  PROVE  OnlyFrom(f, sent, kinds, x) \in Seq(kinds)
<1>1. x \in 1..(Len(sent) + 1) /\ Len(sent) \in Nat
  BY LenProperties DEF Places
<1>2. CASE x > Len(sent)
  BY <1>2 DEF OnlyFrom
<1>3. CASE ~(x > Len(sent))
  <2> DEFINE one == IF sent[x] \in kinds THEN <<sent[x]>> ELSE <<>>
  <2>1. one \in Seq(kinds)
    OBVIOUS
  <2>2. x + 1 \in Places(sent)
    BY <1>1, <1>3 DEF Places
  <2>3. f[x + 1] \in Seq(kinds)
    BY <2>2
  <2>4. OnlyFrom(f, sent, kinds, x) = one \o f[x + 1]
    BY <1>3, Zenon DEF OnlyFrom
  <2> HIDE DEF one
  <2> QED
    BY <2>1, <2>3, <2>4, ConcatProperties
<1> QED
  BY <1>2, <1>3

(* So the recursion defines what Only returns. *)
LEMMA OnlyFacts ==
  ASSUME NEW S, NEW sent \in Seq(S), NEW kinds
  PROVE  Only(sent, kinds) \in Seq(kinds) /\ (sent = <<>> => Only(sent, kinds) = <<>>)
<1> DEFINE M == Len(sent) + 1
           F == [1..M -> Seq(kinds)]
           G == [f \in F |-> [x \in 1..M |-> OnlyFrom(f, sent, kinds, x)]]
           C == CHOOSE f : f = [x \in Places(sent) |-> OnlyFrom(f, sent, kinds, x)]
<1>1. M \in Nat /\ M >= 1 /\ Places(sent) = 1..M /\ M = Len(sent) + 1
  BY LenProperties DEF Places
<1> HIDE DEF M
<1>2. G \in [F -> F] /\ \A f \in F : \A x \in 1..M : G[f][x] = OnlyFrom(f, sent, kinds, x)
  <2>1. \A f \in F : \A x \in 1..M : OnlyFrom(f, sent, kinds, x) \in Seq(kinds)
    BY <1>1, OnlyTyped
  <2> QED
    BY <2>1
<1>3. ASSUME NEW f \in F, NEW g \in F, NEW x \in 1..M, \A y \in (x + 1)..M : f[y] = g[y]
      PROVE  G[f][x] = G[g][x]
  <2>1. OnlyFrom(f, sent, kinds, x) = OnlyFrom(g, sent, kinds, x)
    BY <1>1, <1>3, OnlyAgrees
  <2> HIDE DEF F, G
  <2> QED
    BY <1>2, <2>1
<1>4. \A f, g \in F : \A x \in 1..M : [f EXCEPT ![x] = g[x]] \in F
  OBVIOUS
<1>5. F # {} /\ F \subseteq [1..M -> Seq(kinds)]
  <2>1. [x \in 1..M |-> <<>>] \in F
    OBVIOUS
  <2> QED
    BY <2>1
<1>6. PICK f \in F : G[f] = f
  <2> HIDE DEF F, G
  <2> QED
    BY <1>1, <1>2, <1>3, <1>4, <1>5, FixedPoint, ZenonT(40)
<1>7. f = [x \in Places(sent) |-> OnlyFrom(f, sent, kinds, x)]
  BY <1>1, <1>6
<1>8. C = [x \in Places(sent) |-> OnlyFrom(C, sent, kinds, x)]
  <2> HIDE DEF F, G
  <2> QED
    BY <1>7, Zenon
<1>9. Only(sent, kinds) = C[1]
  BY Zenon DEF Only
<1> HIDE DEF C
<1> DEFINE T == {x \in 1..M : C[x] = f[x]}
<1>10. ASSUME NEW x \in 1..M, \A y \in (x + 1)..M : y \in T
       PROVE  x \in T
  <2>1. OnlyFrom(f, sent, kinds, x) = OnlyFrom(C, sent, kinds, x)
    BY <1>1, <1>10, OnlyAgrees
  <2>2. C[x] = OnlyFrom(C, sent, kinds, x) /\ f[x] = OnlyFrom(f, sent, kinds, x)
    BY <1>1, <1>7, <1>8
  <2> QED
    BY <2>1, <2>2
<1>11. \A x \in 1..M : x \in T
  <2> HIDE DEF T
  <2> QED
    BY <1>1, <1>10, Downwards
<1>12. 1 \in 1..M /\ C[1] = f[1] /\ f[1] \in Seq(kinds)
  BY <1>1, <1>11
<1>13. sent = <<>> => C[1] = <<>>
  <2>1. sent = <<>> => 1 > Len(sent)
    OBVIOUS
  <2>2. C[1] = OnlyFrom(C, sent, kinds, 1)
    <3>1. 1 \in Places(sent)
      BY <1>1
    <3> HIDE DEF F, G, T
    <3>2. [x \in Places(sent) |-> OnlyFrom(C, sent, kinds, x)][1] = OnlyFrom(C, sent, kinds, 1)
      BY <3>1
    <3> QED
      BY <1>8, <3>2, Zenon
  <2> QED
    BY <2>1, <2>2, Zenon DEF OnlyFrom
<1> QED
  BY <1>9, <1>12, <1>13

-----------------------------------------------------------------------------
(* The call and its handler.  Each output that is under way has a place in *)
(* what the runtime has produced, the next one after what is delivered,    *)
(* and nothing comes between; a stream that has not failed misses nothing.     *)
Statuses == {"ok", "runtime", "send", "unavailable", "canceled"}
Results  == Statuses \cup {"marshal", "panic", "write"}

RemoteMessages ==
  [kind : {"output"}, of : Bytes] \cup [kind : {"progress"}, of : {"none"}]
    \cup [kind : {"status"}, of : Statuses]

CallTypes ==
  /\ calling \in [op : Methods \cup {"none"}, at : {"idle", "waiting", "returned"},
                  result : Results \cup {"none"}]
  /\ serving \in [at : {"none", "running", "ended"}, rest : Seq(Kinds),
                  result : {"none", "ok", "runtime", "send"}]
  /\ replies \in Seq(RemoteMessages) /\ severed \in BOOLEAN
  /\ produced \in Texts /\ delivered \in Texts

HandlerInv ==
  /\ serving.at = "none" => produced = <<>>
  /\ serving.at # "ended" => serving.result = "none"
  /\ serving.result = "ok" => serving.rest = <<>>

(* The places of the messages: an output has the one after that of what    *)
(* comes before it, another message has none of its own.                   *)
Numbers(pos) ==
  /\ pos[0] = Len(delivered)
  /\ \A i \in 1..Len(replies) :
       /\ replies[i].kind = "output" => pos[i] = pos[i - 1] + 1 /\ replies[i].of = produced[pos[i]]
       /\ replies[i].kind # "output" => pos[i] = pos[i - 1]
       /\ replies[i].kind = "status" /\ replies[i].of = "ok" =>
            serving.result = "ok" /\ pos[i] = Len(produced)
  /\ \A i \in 0..Len(replies) : pos[i] <= Len(produced)
  /\ ~severed => pos[Len(replies)] = Len(produced)

StreamInv ==
  /\ Begins(delivered, produced)
  /\ calling.at # "returned" => \E pos \in [0..Len(replies) -> Nat] : Numbers(pos)

ClientInv ==
  /\ calling.at = "idle" => serving.at = "none"
  /\ calling.at = "waiting" => calling.op \in Methods \ {"publish"}
  /\ calling.at = "returned" => calling.result \in Results
  /\ calling.at = "returned" /\ calling.result = "ok" => serving.result = "ok" /\ delivered = produced

RInv == CallTypes /\ HandlerInv /\ StreamInv /\ ClientInv

(* Nothing is asked, under way or written at the start. *)
LEMMA RemoteStarts == RemoteInit => RInv
<1> SUFFICES ASSUME RemoteInit PROVE RInv
  OBVIOUS
<1> USE DEF RemoteInit
<1>1. CallTypes
  <2>1. severed \in BOOLEAN
    BY Zenon
  <2>2. replies \in Seq(RemoteMessages) /\ produced \in Texts /\ delivered \in Texts
    BY DEF Texts
  <2>3. calling \in [op : Methods \cup {"none"}, at : {"idle", "waiting", "returned"},
                    result : Results \cup {"none"}]
    OBVIOUS
  <2>4. serving \in [at : {"none", "running", "ended"}, rest : Seq(Kinds),
                    result : {"none", "ok", "runtime", "send"}]
    OBVIOUS
  <2> QED
    BY <2>1, <2>2, <2>3, <2>4, Zenon DEF CallTypes
<1>2. HandlerInv /\ ClientInv
  BY DEF HandlerInv, ClientInv
<1>3. StreamInv
  <2> DEFINE pos == [i \in 0..0 |-> 0]
  <2>1. pos \in [0..Len(replies) -> Nat] /\ Numbers(pos)
    BY DEF Numbers
  <2>2. Begins(delivered, produced)
    BY DEF Begins
  <2> QED
    BY <2>1, <2>2 DEF StreamInv
<1> QED
  BY <1>1, <1>2, <1>3 DEF RInv

(* What a message has. *)
LEMMA ReplyTypes ==
  ASSUME NEW m \in RemoteMessages
  PROVE  /\ m.kind \in {"output", "progress", "status"}
         /\ m.kind = "output" => m.of \in Bytes
         /\ m.kind = "status" => m.of \in Statuses
BY DEF RemoteMessages

(* A sequence with one element after it. *)
LEMMA AppendFacts ==
  ASSUME NEW S, NEW s \in Seq(S), NEW e \in S
  PROVE  /\ Append(s, e) \in Seq(S) /\ Len(Append(s, e)) = Len(s) + 1
         /\ Append(s, e)[Len(s) + 1] = e
         /\ \A i \in 1..Len(s) : Append(s, e)[i] = s[i]
OBVIOUS

(* What is appended keeps a beginning one. *)
LEMMA BeginsAppend ==
  ASSUME NEW S, NEW s \in Seq(S), NEW t \in Seq(S), NEW e \in S, Begins(s, t)
  PROVE  Begins(s, Append(t, e)) /\ Begins(t, Append(t, e))
<1>1. Len(s) \in Nat /\ Len(t) \in Nat /\ Len(s) <= Len(t) /\ \A i \in 1..Len(s) : s[i] = t[i]
  BY LenProperties DEF Begins
<1>2. Len(Append(t, e)) = Len(t) + 1 /\ \A i \in 1..Len(t) : Append(t, e)[i] = t[i]
  BY AppendFacts
<1> QED
  BY <1>1, <1>2 DEF Begins

(* What comes after some of the messages has the place after theirs.       *)
LEMMA NumbersNext ==
  ASSUME CallTypes, NEW pos \in [0..Len(replies) -> Nat], Numbers(pos),
         NEW k \in 0..Len(replies), NEW m \in RemoteMessages, NEW v \in Nat,
         replies' = Append(SubSeq(replies, 1, k), m),
         delivered' = delivered, Begins(produced, produced'), produced' \in Texts,
         serving.result = "ok" => serving'.result = "ok" /\ produced' = produced,
         m.kind = "output" => v = pos[k] + 1 /\ m.of = produced'[v],
         m.kind # "output" => v = pos[k],
         m.kind = "status" /\ m.of = "ok" => serving'.result = "ok" /\ v = Len(produced'),
         v <= Len(produced'), severed' \/ v = Len(produced')
  PROVE  \E q \in [0..Len(replies') -> Nat] : Numbers(q)'
<1> DEFINE q == [i \in 0..(k + 1) |-> IF i <= k THEN pos[i] ELSE v]
<1>1. /\ replies \in Seq(RemoteMessages) /\ Len(replies) \in Nat /\ k \in Nat /\ k <= Len(replies)
      /\ Len(produced) \in Nat /\ Len(produced') \in Nat /\ Len(produced) <= Len(produced')
      /\ \A i \in 1..Len(produced) : produced'[i] = produced[i]
  BY LenProperties DEF CallTypes, Texts, Begins
<1>2. /\ Len(replies') = k + 1 /\ replies'[k + 1] = m
      /\ \A i \in 1..k : replies'[i] = replies[i]
  <2>1. /\ SubSeq(replies, 1, k) \in Seq(RemoteMessages) /\ Len(SubSeq(replies, 1, k)) = k
        /\ \A i \in 1..k : SubSeq(replies, 1, k)[i] = replies[i]
    BY <1>1, FirstOnes
  <2> QED
    BY <2>1, AppendFacts
<1>3. q \in [0..Len(replies') -> Nat] /\ q[k + 1] = v /\ \A i \in 0..k : q[i] = pos[i]
  <2>1. \A i \in 0..(k + 1) : i <= k => i \in 0..Len(replies)
    BY <1>1
  <2>2. ~(k + 1 <= k) /\ k + 1 \in 0..(k + 1) /\ \A i \in 0..k : i <= k /\ i \in 0..(k + 1)
    BY <1>1
  <2> QED
    BY <1>1, <1>2, <2>1, <2>2
<1> HIDE DEF q
<1>4. \A i \in 0..k : pos[i] \in Nat /\ pos[i] <= Len(produced)
  <2>1. \A i \in 0..Len(replies) : pos[i] <= Len(produced)
    BY Zenon DEF Numbers
  <2>2. \A i \in 0..k : i \in 0..Len(replies)
    BY <1>1
  <2> QED
    BY <2>1, <2>2
<1>5. q[0] = Len(delivered')
  BY <1>1, <1>3 DEF Numbers
<1>6. \A i \in 0..Len(replies') : q[i] <= Len(produced')
  <2>1. \A i \in 0..(k + 1) : i \in 0..k \/ i = k + 1
    BY <1>1
  <2> QED
    BY <1>1, <1>2, <1>3, <1>4, <2>1
<1>7. ASSUME NEW i \in 1..k
      PROVE  /\ replies'[i].kind = "output" => q[i] = q[i - 1] + 1 /\ replies'[i].of = produced'[q[i]]
             /\ replies'[i].kind # "output" => q[i] = q[i - 1]
             /\ replies'[i].kind = "status" /\ replies'[i].of = "ok" =>
                  serving'.result = "ok" /\ q[i] = Len(produced')
  <2>1. /\ i \in 1..Len(replies) /\ replies'[i] = replies[i] /\ q[i] = pos[i] /\ q[i - 1] = pos[i - 1]
        /\ pos[i] \in Nat /\ pos[i] <= Len(produced) /\ pos[i - 1] \in Nat
    <3>1. i \in 1..Len(replies) /\ i \in 0..k /\ i - 1 \in 0..k
      BY <1>1
    <3> QED
      BY <1>2, <1>3, <1>4, <3>1
  <2>2. /\ replies[i].kind = "output" => pos[i] = pos[i - 1] + 1 /\ replies[i].of = produced[pos[i]]
        /\ replies[i].kind # "output" => pos[i] = pos[i - 1]
        /\ replies[i].kind = "status" /\ replies[i].of = "ok" =>
             serving.result = "ok" /\ pos[i] = Len(produced)
    BY <2>1, Zenon DEF Numbers
  <2>3. replies[i].kind = "output" => produced'[pos[i]] = produced[pos[i]]
    BY <1>1, <2>1, <2>2
  <2> QED
    BY <2>1, <2>2, <2>3
<1>8. /\ replies'[k + 1].kind = "output" =>
           q[k + 1] = q[(k + 1) - 1] + 1 /\ replies'[k + 1].of = produced'[q[k + 1]]
      /\ replies'[k + 1].kind # "output" => q[k + 1] = q[(k + 1) - 1]
      /\ replies'[k + 1].kind = "status" /\ replies'[k + 1].of = "ok" =>
           serving'.result = "ok" /\ q[k + 1] = Len(produced')
  <2>1. (k + 1) - 1 = k /\ k \in 0..k
    BY <1>1
  <2> QED
    BY <1>2, <1>3, <2>1
<1>9. \A i \in 1..Len(replies') :
        /\ replies'[i].kind = "output" => q[i] = q[i - 1] + 1 /\ replies'[i].of = produced'[q[i]]
        /\ replies'[i].kind # "output" => q[i] = q[i - 1]
        /\ replies'[i].kind = "status" /\ replies'[i].of = "ok" =>
             serving'.result = "ok" /\ q[i] = Len(produced')
  <2>1. \A i \in 1..Len(replies') : i \in 1..k \/ i = k + 1
    BY <1>1, <1>2
  <2> QED
    BY <1>7, <1>8, <2>1, Zenon
<1>10. ~severed' => q[Len(replies')] = Len(produced')
  BY <1>2, <1>3
<1>11. Numbers(q)'
  BY <1>5, <1>6, <1>9, <1>10, Zenon DEF Numbers
<1> QED
  BY <1>3, <1>11

(* The same, with nothing new. *)
LEMMA NumbersStay ==
  ASSUME CallTypes, NEW pos \in [0..Len(replies) -> Nat], Numbers(pos),
         replies' = replies, delivered' = delivered, produced' = produced,
         serving.result = "ok" => serving'.result = "ok", severed' = severed
  PROVE  \E q \in [0..Len(replies') -> Nat] : Numbers(q)'
<1>1. Numbers(pos)'
  BY Zenon DEF Numbers
<1> QED
  BY <1>1, Zenon

-----------------------------------------------------------------------------
(* The steps. *)
LEMMA PosExists ==
  ASSUME RInv, calling.at # "returned"
  PROVE  \E pos \in [0..Len(replies) -> Nat] : Numbers(pos)
BY DEF RInv, StreamInv

(* A call is asked, or fails before. *)
LEMMA AskKeeps ==
  ASSUME RInv, Ask \/ Publish
  PROVE  RInv'
<1>1. /\ calling.at = "idle"
      /\ \/ \E op \in Methods \ {"publish"} : calling' = [op |-> op, at |-> "waiting", result |-> "none"]
         \/ \E op \in Methods : \E r \in {"marshal", "panic"} :
              calling' = [op |-> op, at |-> "returned", result |-> r]
      /\ UNCHANGED <<serving, replies, severed, produced, delivered>>
  BY DEF Ask, Publish, Methods
<1>2. CallTypes'
  <2>1. calling' \in [op : Methods \cup {"none"}, at : {"idle", "waiting", "returned"},
                      result : Results \cup {"none"}]
    BY <1>1 DEF Results
  <2> QED
    BY <1>1, <2>1, Zenon DEF RInv, CallTypes
<1>3. HandlerInv'
  BY <1>1, Zenon DEF RInv, HandlerInv
<1>4. StreamInv'
  <2>1. Begins(delivered, produced)'
    BY <1>1, Zenon DEF RInv, StreamInv, Begins
  <2>2. PICK pos \in [0..Len(replies) -> Nat] : Numbers(pos)
    BY <1>1, PosExists
  <2>3. \E q \in [0..Len(replies') -> Nat] : Numbers(q)'
    BY <1>1, <2>2, NumbersStay, Zenon DEF RInv
  <2> QED
    BY <2>1, <2>3, Zenon DEF StreamInv
<1>5. ClientInv'
  BY <1>1 DEF ClientInv, Results
<1> QED
  BY <1>2, <1>3, <1>4, <1>5 DEF RInv

(* The client takes the first message: the others keep their places. *)
LEMMA RecvKeeps ==
  ASSUME RInv, Recv
  PROVE  RInv'
<1> DEFINE m == Head(replies)
<1>1. /\ calling.at = "waiting" /\ replies # <<>> /\ replies' = Tail(replies)
      /\ serving' = serving /\ severed' = severed /\ produced' = produced
  BY DEF Recv
<1>2. \/ m.kind = "progress" /\ calling' = calling /\ delivered' = delivered
      \/ m.kind = "output" /\ delivered' = Append(delivered, m.of) /\ calling' = calling
      \/ m.kind = "output" /\ Return("write") /\ delivered' = delivered
      \/ m.kind = "status" /\ Return(m.of) /\ delivered' = delivered
  BY DEF Recv, ErrOf
<1>3. /\ replies \in Seq(RemoteMessages) /\ Len(replies) \in Nat /\ Len(replies) >= 1
      /\ m = replies[1] /\ m \in RemoteMessages
      /\ Tail(replies) \in Seq(RemoteMessages) /\ Len(Tail(replies)) = Len(replies) - 1
      /\ \A i \in 1..(Len(replies) - 1) : Tail(replies)[i] = replies[i + 1]
  <2>1. replies \in Seq(RemoteMessages)
    BY Zenon DEF RInv, CallTypes
  <2> QED
    BY <1>1, <2>1, HeadTailProperties
<1>4. /\ m.kind \in {"output", "progress", "status"}
      /\ m.kind = "output" => m.of \in Bytes
      /\ m.kind = "status" => m.of \in Statuses
  BY <1>3, ReplyTypes
<1> HIDE DEF m
<1>5. /\ delivered \in Texts /\ produced \in Texts /\ Len(delivered) \in Nat /\ Len(produced) \in Nat
      /\ Begins(delivered, produced)
  <2>1. delivered \in Texts /\ produced \in Texts /\ Begins(delivered, produced)
    BY Zenon DEF RInv, CallTypes, StreamInv
  <2> QED
    BY <2>1, LenProperties DEF Texts
<1>6. PICK pos \in [0..Len(replies) -> Nat] : Numbers(pos)
  BY <1>1, PosExists
<1>7. /\ pos[0] = Len(delivered) /\ pos[1] \in Nat /\ pos[1] <= Len(produced)
      /\ m.kind = "output" => pos[1] = pos[0] + 1 /\ m.of = produced[pos[1]]
      /\ m.kind # "output" => pos[1] = pos[0]
      /\ m.kind = "status" /\ m.of = "ok" => serving.result = "ok" /\ pos[1] = Len(produced)
  <2>1. 1 \in 1..Len(replies) /\ 1 \in 0..Len(replies) /\ 1 - 1 = 0
    BY <1>3
  <2>2. pos[1] \in Nat
    BY <2>1
  <2>3. /\ pos[0] = Len(delivered) /\ pos[1] <= Len(produced)
        /\ m.kind = "output" => pos[1] = pos[1 - 1] + 1 /\ m.of = produced[pos[1]]
        /\ m.kind # "output" => pos[1] = pos[1 - 1]
        /\ m.kind = "status" /\ m.of = "ok" => serving.result = "ok" /\ pos[1] = Len(produced)
    BY <1>3, <1>6, <2>1, Zenon DEF Numbers
  <2> QED
    BY <2>1, <2>2, <2>3
<1>8. /\ delivered' \in Texts /\ Begins(delivered', produced)
      /\ Len(delivered') = pos[1] \/ \E r \in {"write", m.of} : Return(r)
  <2>1. CASE m.kind # "output" /\ delivered' = delivered
    BY <1>5, <1>7, <2>1
  <2>2. CASE m.kind = "output" /\ delivered' = Append(delivered, m.of)
    <3>1. m.of \in Bytes /\ delivered \in Seq(Bytes)
      BY <1>4, <1>5, <2>2 DEF Texts
    <3>2. /\ delivered' \in Seq(Bytes) /\ Len(delivered') = Len(delivered) + 1
          /\ delivered'[Len(delivered) + 1] = m.of
          /\ \A i \in 1..Len(delivered) : delivered'[i] = delivered[i]
      BY <2>2, <3>1, AppendFacts
    <3>3. Begins(delivered', produced)
      BY <1>5, <1>7, <2>2, <3>2 DEF Begins
    <3> QED
      BY <1>7, <2>2, <3>2, <3>3 DEF Texts
  <2>3. CASE Return("write") /\ delivered' = delivered
    BY <1>5, <2>3
  <2> QED
    BY <1>2, <2>1, <2>2, <2>3
<1>9. \/ calling' = calling
      \/ \E r \in Results :
           Return(r) /\ (r = "ok" => serving.result = "ok" /\ delivered' = produced)
  <2>1. CASE m.kind = "status" /\ Return(m.of) /\ delivered' = delivered
    <3>1. m.of = "ok" => delivered = produced
      <4>1. m.of = "ok" => Len(delivered) = Len(produced)
        BY <1>7, <2>1
      <4> QED
        BY <1>5, <4>1, SeqEqual DEF Begins, Texts
    <3>2. m.of \in Results
      BY <1>4, <2>1 DEF Results
    <3> QED
      BY <1>7, <2>1, <3>1, <3>2
  <2>2. CASE Return("write")
    BY <2>2 DEF Results
  <2> QED
    BY <1>2, <2>1, <2>2, Zenon
<1>10. /\ calling \in [op : Methods \cup {"none"}, at : {"idle", "waiting", "returned"},
                       result : Results \cup {"none"}]
       /\ calling.op \in Methods \ {"publish"}
  BY <1>1 DEF RInv, CallTypes, ClientInv
<1>11. \/ calling' = calling
       \/ /\ calling'.at = "returned" /\ calling'.result \in Results
          /\ calling'.result = "ok" => serving.result = "ok" /\ delivered' = produced
          /\ calling' \in [op : Methods \cup {"none"}, at : {"idle", "waiting", "returned"},
                           result : Results \cup {"none"}]
  BY <1>9, <1>10 DEF Return
<1>12. CallTypes'
  <2>1. serving \in [at : {"none", "running", "ended"}, rest : Seq(Kinds),
                     result : {"none", "ok", "runtime", "send"}] /\ severed \in BOOLEAN
    BY Zenon DEF RInv, CallTypes
  <2> QED
    BY <1>1, <1>3, <1>5, <1>8, <1>10, <1>11, <2>1, Zenon DEF CallTypes
<1>13. HandlerInv'
  BY <1>1, Zenon DEF RInv, HandlerInv
<1>14. ClientInv'
  BY <1>1, <1>10, <1>11 DEF ClientInv
<1>15. StreamInv'
  <2>1. ASSUME calling'.at # "returned"
        PROVE  \E q \in [0..Len(replies') -> Nat] : Numbers(q)'
    <3>1. PICK n \in Nat : /\ Len(replies') = n /\ Len(replies) = n + 1
                           /\ \A i \in 1..n : replies'[i] = replies[i + 1] /\ i + 1 \in 1..Len(replies)
      <4>1. Len(replies) - 1 \in Nat /\ Len(replies) = (Len(replies) - 1) + 1
            /\ \A i \in 1..(Len(replies) - 1) : i + 1 \in 1..Len(replies)
        BY <1>3
      <4> QED
        BY <1>1, <1>3, <4>1
    <3>2. PICK q \in [0..n -> Nat] : \A i \in 0..n : q[i] = pos[i + 1]
      <4> DEFINE q == [i \in 0..n |-> pos[i + 1]]
      <4>1. \A i \in 0..n : i + 1 \in 0..Len(replies)
        BY <3>1
      <4>2. q \in [0..n -> Nat] /\ \A i \in 0..n : q[i] = pos[i + 1]
        BY <4>1
      <4> HIDE DEF q
      <4> QED
        BY <4>2
    <3>3. q[0] = Len(delivered')
      <4>1. Len(delivered') = pos[1]
        BY <1>8, <1>10, <2>1 DEF Return
      <4>2. q[0] = pos[1]
        BY <3>1, <3>2
      <4> QED
        BY <4>1, <4>2
    <3>4. \A i \in 1..Len(replies') :
            /\ replies'[i].kind = "output" => q[i] = q[i - 1] + 1 /\ replies'[i].of = produced'[q[i]]
            /\ replies'[i].kind # "output" => q[i] = q[i - 1]
            /\ replies'[i].kind = "status" /\ replies'[i].of = "ok" =>
                 serving'.result = "ok" /\ q[i] = Len(produced')
      <4> SUFFICES ASSUME NEW i \in 1..Len(replies')
                   PROVE  /\ replies'[i].kind = "output" =>
                               q[i] = q[i - 1] + 1 /\ replies'[i].of = produced'[q[i]]
                          /\ replies'[i].kind # "output" => q[i] = q[i - 1]
                          /\ replies'[i].kind = "status" /\ replies'[i].of = "ok" =>
                               serving'.result = "ok" /\ q[i] = Len(produced')
        BY Zenon
      <4>1. /\ i + 1 \in 1..Len(replies) /\ replies'[i] = replies[i + 1] /\ q[i] = pos[i + 1]
            /\ q[i - 1] = pos[(i + 1) - 1]
        <5>1. i \in 1..n /\ i \in 0..n /\ i - 1 \in 0..n /\ (i - 1) + 1 = (i + 1) - 1
          BY <3>1
        <5> QED
          BY <3>1, <3>2, <5>1
      <4>2. /\ replies[i + 1].kind = "output" =>
                 pos[i + 1] = pos[(i + 1) - 1] + 1 /\ replies[i + 1].of = produced[pos[i + 1]]
            /\ replies[i + 1].kind # "output" => pos[i + 1] = pos[(i + 1) - 1]
            /\ replies[i + 1].kind = "status" /\ replies[i + 1].of = "ok" =>
                 serving.result = "ok" /\ pos[i + 1] = Len(produced)
        BY <1>6, <4>1, Zenon DEF Numbers
      <4> QED
        BY <1>1, <4>1, <4>2
    <3>5. \A i \in 0..Len(replies') : q[i] <= Len(produced')
      <4>1. \A i \in 0..Len(replies) : pos[i] <= Len(produced)
        BY <1>6, Zenon DEF Numbers
      <4>2. \A i \in 0..n : i + 1 \in 0..Len(replies)
        BY <3>1
      <4> QED
        BY <1>1, <3>1, <3>2, <4>1, <4>2
    <3>6. ~severed' => q[Len(replies')] = Len(produced')
      <4>1. ~severed => pos[Len(replies)] = Len(produced)
        BY <1>6, Zenon DEF Numbers
      <4>2. q[Len(replies')] = pos[Len(replies)]
        BY <3>1, <3>2
      <4> QED
        BY <1>1, <4>1, <4>2, Zenon
    <3>7. Numbers(q)'
      BY <3>3, <3>4, <3>5, <3>6, Zenon DEF Numbers
    <3>8. q \in [0..Len(replies') -> Nat]
      BY <3>1, <3>2
    <3> QED
      BY <3>7, <3>8, Zenon
  <2>2. Begins(delivered, produced)'
    BY <1>1, <1>8, Zenon DEF Begins
  <2> QED
    BY <2>1, <2>2, Zenon DEF StreamInv
<1> QED
  BY <1>12, <1>13, <1>14, <1>15, Zenon DEF RInv

(* A step of the handler: with nothing new on the stream, or one message.  *)
LEMMA RunningKeeps ==
  ASSUME RInv, serving.at = "running", calling' = calling, delivered' = delivered, severed' = severed,
         serving' \in [at : {"none", "running", "ended"}, rest : Seq(Kinds),
                       result : {"none", "ok", "runtime", "send"}],
         HandlerInv',
         \/ replies' = replies /\ produced' = produced
         \/ \E m \in RemoteMessages :
              /\ replies' = Append(replies, m)
              /\ ~severed
              /\ m.kind = "output" => produced' = Append(produced, m.of)
              /\ m.kind # "output" => produced' = produced
              /\ m.kind = "status" /\ m.of = "ok" => serving'.result = "ok"
  PROVE  RInv'
<1>1. /\ replies \in Seq(RemoteMessages) /\ Len(replies) \in Nat
      /\ produced \in Seq(Bytes) /\ delivered \in Seq(Bytes)
      /\ Len(produced) \in Nat /\ Begins(delivered, produced)
  <2>1. /\ replies \in Seq(RemoteMessages) /\ produced \in Seq(Bytes) /\ delivered \in Seq(Bytes)
        /\ Begins(delivered, produced)
    BY Zenon DEF RInv, CallTypes, StreamInv, Texts
  <2> QED
    BY <2>1, LenProperties
<1>2. serving.result = "none"
  BY DEF RInv, HandlerInv
<1>3. calling.at # "idle" /\ ~(calling.at = "returned" /\ calling.result = "ok")
  BY <1>2 DEF RInv, ClientInv
<1>4. Begins(produced, produced)
  BY <1>1 DEF Begins
<1>5. /\ replies' \in Seq(RemoteMessages) /\ produced' \in Seq(Bytes)
      /\ Begins(delivered, produced') /\ Begins(produced, produced')
  <2>1. CASE replies' = replies /\ produced' = produced
    BY <1>1, <1>4, <2>1
  <2>2. CASE \E m \in RemoteMessages :
               /\ replies' = Append(replies, m)
               /\ m.kind = "output" => produced' = Append(produced, m.of)
               /\ m.kind # "output" => produced' = produced
    <3>1. PICK m \in RemoteMessages :
            /\ replies' = Append(replies, m)
            /\ m.kind = "output" => produced' = Append(produced, m.of)
            /\ m.kind # "output" => produced' = produced
      BY <2>2
    <3>2. replies' \in Seq(RemoteMessages)
      BY <1>1, <3>1, AppendFacts
    <3>3. CASE m.kind = "output"
      <4>1. m.of \in Bytes
        BY <3>1, <3>3, ReplyTypes
      <4>2. produced' = Append(produced, m.of)
        BY <3>1, <3>3, Zenon
      <4>3. Append(produced, m.of) \in Seq(Bytes)
        BY <1>1, <4>1, AppendFacts
      <4>4. Begins(delivered, Append(produced, m.of)) /\ Begins(produced, Append(produced, m.of))
        BY <1>1, <4>1, BeginsAppend
      <4> QED
        BY <3>2, <4>2, <4>3, <4>4
    <3>4. CASE m.kind # "output"
      BY <1>1, <1>4, <3>1, <3>2, <3>4
    <3> QED
      BY <3>3, <3>4
  <2> QED
    BY <2>1, <2>2
<1>6. CallTypes'
  <2>1. /\ calling \in [op : Methods \cup {"none"}, at : {"idle", "waiting", "returned"},
                        result : Results \cup {"none"}]
        /\ severed \in BOOLEAN
    BY Zenon DEF RInv, CallTypes
  <2> QED
    BY <1>1, <1>5, <2>1, Zenon DEF CallTypes, Texts
<1>7. ClientInv'
  <2>1. /\ calling.at = "waiting" => calling.op \in Methods \ {"publish"}
        /\ calling.at = "returned" => calling.result \in Results
    BY Zenon DEF RInv, ClientInv
  <2> QED
    BY <1>3, <2>1, Zenon DEF ClientInv
<1>8. ASSUME calling.at # "returned"
      PROVE  \E q \in [0..Len(replies') -> Nat] : Numbers(q)'
  <2>1. PICK pos \in [0..Len(replies) -> Nat] : Numbers(pos)
    BY <1>8, PosExists
  <2>2. CallTypes
    BY Zenon DEF RInv
  <2>3. CASE replies' = replies /\ produced' = produced
    BY <1>2, <2>1, <2>2, <2>3, NumbersStay
  <2>4. CASE ~(replies' = replies /\ produced' = produced)
    <3>1. PICK m \in RemoteMessages :
            /\ replies' = Append(replies, m)
            /\ m.kind = "output" => produced' = Append(produced, m.of)
            /\ m.kind # "output" => produced' = produced
            /\ ~severed
            /\ m.kind = "status" /\ m.of = "ok" => serving'.result = "ok"
      BY <2>4
    <3>2. Len(replies) \in 0..Len(replies) /\ SubSeq(replies, 1, Len(replies)) = replies
      BY <1>1, SubSeqFull
    <3>3. pos[Len(replies)] = Len(produced)
      BY <2>1, <3>1, Zenon DEF Numbers
    <3>4. /\ m.kind = "output" => /\ Len(produced') = Len(produced) + 1
                                  /\ m.of = produced'[Len(produced')]
          /\ Len(produced') \in Nat
      <4>1. CASE m.kind = "output"
        <5>1. m.of \in Bytes
          BY <3>1, <4>1, ReplyTypes
        <5> QED
          BY <1>1, <3>1, <4>1, <5>1, AppendFacts
      <4>2. CASE m.kind # "output"
        BY <1>1, <3>1, <4>2
      <4> QED
        BY <4>1, <4>2
    <3>5. PICK v \in Nat : v = Len(produced')
      BY <3>4
    <3>7. replies' = Append(SubSeq(replies, 1, Len(replies)), m)
      BY <3>1, <3>2
    <3>8. /\ m.kind = "output" => v = pos[Len(replies)] + 1 /\ m.of = produced'[v]
          /\ m.kind # "output" => v = pos[Len(replies)]
          /\ v <= Len(produced') /\ v = Len(produced')
          /\ m.kind = "status" /\ m.of = "ok" => serving'.result = "ok" /\ v = Len(produced')
      BY <3>1, <3>3, <3>4, <3>5
    <3>6. produced' \in Texts
      BY <1>5 DEF Texts
    <3> QED
      BY <1>2, <1>5, <2>1, <2>2, <3>2, <3>5, <3>6, <3>7, <3>8, NumbersNext
  <2> QED
    BY <2>3, <2>4
<1>9. StreamInv'
  <2>1. Begins(delivered, produced)'
    BY <1>5, Zenon DEF Begins
  <2> QED
    BY <1>8, <2>1, Zenon DEF StreamInv
<1> QED
  BY <1>6, <1>7, <1>9, Zenon DEF RInv

(* What the handler has. *)
LEMMA ServingTypes ==
  ASSUME RInv
  PROVE  /\ serving \in [at : {"none", "running", "ended"}, rest : Seq(Kinds),
                         result : {"none", "ok", "runtime", "send"}]
         /\ serving.at \in {"none", "running", "ended"}
         /\ serving.rest \in Seq(Kinds)
         /\ serving.rest # <<>> => Head(serving.rest) \in Kinds /\ Tail(serving.rest) \in Seq(Kinds)
<1>1. serving \in [at : {"none", "running", "ended"}, rest : Seq(Kinds),
                   result : {"none", "ok", "runtime", "send"}]
  BY Zenon DEF RInv, CallTypes
<1>2. serving.rest \in Seq(Kinds) /\ serving.at \in {"none", "running", "ended"}
  BY <1>1
<1> QED
  BY <1>1, <1>2, HeadTailProperties

(* The handler begins. *)
LEMMA HandleKeeps ==
  ASSUME RInv, Handle
  PROVE  RInv'
<1>1. PICK answer \in Produces :
        /\ calling.at = "waiting" /\ serving.at = "none"
        /\ serving' = [serving EXCEPT !.at = "running", !.rest = AnswerTo(calling.op, answer)]
        /\ UNCHANGED <<calling, replies, severed, produced, delivered>>
  BY DEF Handle
<1>2. answer \in Seq(Kinds)
  BY RemoteAssumption
<1>3. AnswerTo(calling.op, answer) \in Seq(Kinds)
  <2>1. calling.op \in {"resolve", "run"} \cup Written
    BY <1>1 DEF RInv, ClientInv, Methods, Written
  <2>2. CASE calling.op \in Written
    BY <1>2, <2>2 DEF AnswerTo, Written
  <2>3. CASE calling.op = "run"
    <3>1. AnswerTo(calling.op, answer) = Only(answer, {"progress"})
      BY <2>3 DEF AnswerTo, Written
    <3>2. Only(answer, {"progress"}) \in Seq({"progress"})
      BY <1>2, OnlyFacts
    <3>3. {"progress"} \subseteq Kinds
      BY DEF Kinds
    <3> QED
      BY <3>1, <3>2, <3>3, SeqMonotonic
  <2>4. CASE calling.op = "resolve"
    BY <2>4 DEF AnswerTo, Written
  <2> QED
    BY <2>1, <2>2, <2>3, <2>4
<1>4. /\ serving.result = "none" /\ produced = <<>>
      /\ serving'.at = "running" /\ serving'.result = "none"
      /\ serving' \in [at : {"none", "running", "ended"}, rest : Seq(Kinds),
                       result : {"none", "ok", "runtime", "send"}]
  BY <1>1, <1>3, ServingTypes DEF RInv, HandlerInv
<1>5. CallTypes'
  <2>1. /\ calling \in [op : Methods \cup {"none"}, at : {"idle", "waiting", "returned"},
                        result : Results \cup {"none"}]
        /\ replies \in Seq(RemoteMessages) /\ severed \in BOOLEAN
        /\ produced \in Texts /\ delivered \in Texts
    BY Zenon DEF RInv, CallTypes
  <2> QED
    BY <1>1, <1>4, <2>1, Zenon DEF CallTypes
<1>6. HandlerInv'
  BY <1>4 DEF HandlerInv
<1>7. StreamInv'
  <2>1. Begins(delivered, produced)'
    BY <1>1, Zenon DEF RInv, StreamInv, Begins
  <2>2. PICK pos \in [0..Len(replies) -> Nat] : Numbers(pos)
    BY <1>1, PosExists
  <2>3. \E q \in [0..Len(replies') -> Nat] : Numbers(q)'
    BY <1>1, <1>4, <2>2, NumbersStay DEF RInv
  <2> QED
    BY <2>1, <2>3, Zenon DEF StreamInv
<1>8. ClientInv'
  BY <1>1 DEF RInv, ClientInv
<1> QED
  BY <1>5, <1>6, <1>7, <1>8 DEF RInv

(* It sends progress. *)
LEMMA WriteStatusKeeps ==
  ASSUME RInv, WriteStatus
  PROVE  RInv'
<1>1. /\ serving.at = "running" /\ serving.rest # <<>>
      /\ serving' = [serving EXCEPT !.rest = Tail(serving.rest)]
      /\ UNCHANGED <<calling, severed, produced, delivered>>
      /\ \/ replies' = replies
         \/ ~severed /\ replies' = Append(replies, Message("progress", "none"))
  BY DEF WriteStatus
<1>2. /\ serving' \in [at : {"none", "running", "ended"}, rest : Seq(Kinds),
                       result : {"none", "ok", "runtime", "send"}]
      /\ serving'.at = "running" /\ serving'.result = "none"
  BY <1>1, ServingTypes DEF RInv, HandlerInv
<1>3. HandlerInv'
  BY <1>2 DEF HandlerInv
<1>4. /\ Message("progress", "none") \in RemoteMessages
      /\ Message("progress", "none").kind = "progress"
  BY DEF Message, RemoteMessages
<1>5. \/ replies' = replies /\ produced' = produced
      \/ \E m \in RemoteMessages : replies' = Append(replies, m) /\ m.kind = "progress" /\ ~severed
  BY <1>1, <1>4
<1> QED
  BY <1>1, <1>2, <1>3, <1>5, RunningKeeps

(* It ends, with the status of its result after all output. *)
LEMMA FinishMeans ==
  ASSUME RInv, serving.at = "running", NEW result \in {"ok", "runtime", "send"}, Finish(result),
         result = "ok" => serving.rest = <<>>,
         UNCHANGED <<calling, severed, produced, delivered>>
  PROVE  RInv'
<1>1. /\ serving' = [serving EXCEPT !.at = "ended", !.result = result]
      /\ \/ replies' = replies
         \/ ~severed /\ replies' = Append(replies, Message("status", result))
  BY DEF Finish
<1>2. /\ serving' \in [at : {"none", "running", "ended"}, rest : Seq(Kinds),
                       result : {"none", "ok", "runtime", "send"}]
      /\ serving'.at = "ended" /\ serving'.result = result /\ serving'.rest = serving.rest
  BY <1>1, ServingTypes
<1>3. HandlerInv'
  BY <1>2 DEF HandlerInv
<1>4. /\ Message("status", result) \in RemoteMessages
      /\ Message("status", result).kind = "status" /\ Message("status", result).of = result
  BY DEF Message, RemoteMessages, Statuses
<1>5. \/ replies' = replies /\ produced' = produced
      \/ \E m \in RemoteMessages :
           replies' = Append(replies, m) /\ m.kind = "status" /\ m.of = result /\ ~severed
  BY <1>1, <1>4
<1> QED
  BY <1>1, <1>2, <1>3, <1>5, RunningKeeps

(* It sends output, which is the last of what it has produced. *)
LEMMA WriteKeeps ==
  ASSUME RInv, Write
  PROVE  RInv'
<1>1. /\ serving.at = "running" /\ serving.rest # <<>> /\ Head(serving.rest) # "progress"
      /\ UNCHANGED <<calling, severed, delivered>>
  BY DEF Write
<1>2. CASE severed /\ Finish("send") /\ UNCHANGED produced
  BY <1>1, <1>2, FinishMeans
<1>3. CASE /\ ~severed
           /\ replies' = Append(replies, Message("output", Head(serving.rest)))
           /\ produced' = Append(produced, Head(serving.rest))
           /\ serving' = [serving EXCEPT !.rest = Tail(serving.rest)]
  <2>1. /\ serving' \in [at : {"none", "running", "ended"}, rest : Seq(Kinds),
                         result : {"none", "ok", "runtime", "send"}]
        /\ serving'.at = "running" /\ serving'.result = "none"
    BY <1>1, <1>3, ServingTypes DEF RInv, HandlerInv
  <2>2. HandlerInv'
    BY <2>1 DEF HandlerInv
  <2>3. Head(serving.rest) \in Bytes
    BY <1>1, ServingTypes DEF Kinds
  <2>4. /\ Message("output", Head(serving.rest)) \in RemoteMessages
        /\ Message("output", Head(serving.rest)).kind = "output"
        /\ Message("output", Head(serving.rest)).of = Head(serving.rest)
    BY <2>3 DEF Message, RemoteMessages
  <2>5. \E m \in RemoteMessages :
          /\ replies' = Append(replies, m) /\ m.kind = "output"
          /\ ~severed /\ produced' = Append(produced, m.of)
    BY <1>3, <2>4
  <2> QED
    BY <1>1, <2>1, <2>2, <2>5, RunningKeeps
<1> QED
  BY <1>2, <1>3 DEF Write

(* It has done all, or failed. *)
LEMMA RespondKeeps ==
  ASSUME RInv, Respond
  PROVE  RInv'
<1>1. /\ serving.at = "running" /\ UNCHANGED <<calling, severed, produced, delivered>>
      /\ (serving.rest = <<>> /\ Finish("ok")) \/ Finish("runtime")
  BY DEF Respond
<1> QED
  BY <1>1, FinishMeans

(* The stream ends with an error after some of the messages. *)
LEMMA SeverKeeps ==
  ASSUME RInv, NEW status \in {"unavailable", "canceled"}, Sever(status)
  PROVE  RInv'
<1> DEFINE m == Message("status", status)
<1>1. PICK k \in 0..Len(replies) : replies' = Append(SubSeq(replies, 1, k), m)
  BY DEF Sever
<1>2. /\ calling.at = "waiting" /\ severed' = TRUE
      /\ UNCHANGED <<calling, serving, produced, delivered>>
  BY DEF Sever
<1>3. m \in RemoteMessages /\ m.kind = "status" /\ m.of # "ok"
  BY DEF Message, RemoteMessages, Statuses
<1> HIDE DEF m
<1>4. CallTypes'
  <2>1. /\ calling \in [op : Methods \cup {"none"}, at : {"idle", "waiting", "returned"},
                        result : Results \cup {"none"}]
        /\ replies \in Seq(RemoteMessages)
        /\ produced \in Texts /\ delivered \in Texts
    BY Zenon DEF RInv, CallTypes
  <2>2. SubSeq(replies, 1, k) \in Seq(RemoteMessages)
    BY <2>1, FirstOnes
  <2>3. replies' \in Seq(RemoteMessages)
    BY <1>1, <1>3, <2>2, AppendFacts
  <2>4. serving \in [at : {"none", "running", "ended"}, rest : Seq(Kinds),
                     result : {"none", "ok", "runtime", "send"}]
    BY ServingTypes
  <2>5. severed' \in BOOLEAN
    BY <1>2, Zenon
  <2> QED
    BY <1>2, <2>1, <2>3, <2>4, <2>5, Zenon DEF CallTypes
<1>5. HandlerInv'
  BY <1>2, Zenon DEF RInv, HandlerInv
<1>6. ClientInv'
  BY <1>2, Zenon DEF RInv, ClientInv
<1>7. StreamInv'
  <2>1. /\ Begins(delivered, produced) /\ produced \in Texts /\ Len(produced) \in Nat
        /\ Begins(produced, produced)
    <3>1. Begins(delivered, produced) /\ produced \in Texts
      BY Zenon DEF RInv, StreamInv, CallTypes
    <3> QED
      BY <3>1, LenProperties DEF Begins, Texts
  <2>2. PICK pos \in [0..Len(replies) -> Nat] : Numbers(pos)
    BY <1>2, PosExists
  <2>3. pos[k] \in Nat /\ pos[k] <= Len(produced)
    BY <1>1, <2>2 DEF Numbers
  <2>4. CallTypes
    BY Zenon DEF RInv
  <2>5. \E q \in [0..Len(replies') -> Nat] : Numbers(q)'
    BY <1>1, <1>2, <1>3, <2>1, <2>2, <2>3, <2>4, NumbersNext
  <2>6. Begins(delivered, produced)'
    BY <1>2, <2>1, Zenon DEF Begins
  <2> QED
    BY <2>5, <2>6, Zenon DEF StreamInv
<1> QED
  BY <1>4, <1>5, <1>6, <1>7 DEF RInv

(* Every step keeps the invariant. *)
LEMMA RInvNext ==
  ASSUME RInv, [RemoteNext]_remoteVars
  PROVE  RInv'
<1>1. CASE Ask \/ Publish
  BY <1>1, AskKeeps
<1>2. CASE Recv
  BY <1>2, RecvKeeps
<1>3. CASE Handle
  BY <1>3, HandleKeeps
<1>4. CASE WriteStatus
  BY <1>4, WriteStatusKeeps
<1>5. CASE Write
  BY <1>5, WriteKeeps
<1>6. CASE Respond
  BY <1>6, RespondKeeps
<1>7. CASE LinkFails
  BY <1>7, SeverKeeps DEF LinkFails
<1>8. CASE CancelCall
  BY <1>8, SeverKeeps DEF CancelCall
<1>9. CASE UNCHANGED remoteVars
  <2>1. CallTypes'
    BY <1>9, Zenon DEF remoteVars, RInv, CallTypes
  <2>2. HandlerInv' /\ ClientInv'
    BY <1>9, Zenon DEF remoteVars, RInv, HandlerInv, ClientInv
  <2>3. Begins(delivered, produced)'
    BY <1>9, Zenon DEF remoteVars, RInv, StreamInv, Begins
  <2>4. ASSUME calling'.at # "returned"
        PROVE  \E q \in [0..Len(replies') -> Nat] : Numbers(q)'
    <3>1. PICK pos \in [0..Len(replies) -> Nat] : Numbers(pos)
      BY <1>9, <2>4, PosExists, Zenon DEF remoteVars
    <3>2. CallTypes
      BY Zenon DEF RInv
    <3> QED
      BY <1>9, <3>1, <3>2, NumbersStay, Zenon DEF remoteVars
  <2>5. StreamInv'
    BY <2>3, <2>4, Zenon DEF StreamInv
  <2> QED
    BY <2>1, <2>2, <2>5, Zenon DEF RInv
<1> QED
  BY <1>1, <1>2, <1>3, <1>4, <1>5, <1>6, <1>7, <1>8, <1>9 DEF RemoteNext

-----------------------------------------------------------------------------
(* What the call has written is a beginning of all that the operation      *)
(* writes, and all of it if it returned without an error.                  *)
LEMMA WholeTyped ==
  ASSUME RInv
  PROVE  WholeOutput \in Texts /\ Begins(delivered, WholeOutput)
<1>1. /\ delivered \in Seq(Bytes) /\ produced \in Seq(Bytes) /\ Begins(delivered, produced)
      /\ Only(serving.rest, Bytes) \in Seq(Bytes)
  <2>1. delivered \in Seq(Bytes) /\ produced \in Seq(Bytes) /\ Begins(delivered, produced)
    BY Zenon DEF RInv, CallTypes, StreamInv, Texts
  <2>2. Only(serving.rest, Bytes) \in Seq(Bytes)
    BY ServingTypes, OnlyFacts
  <2> QED
    BY <2>1, <2>2
<1>2. /\ WholeOutput \in Seq(Bytes) /\ Len(WholeOutput) = Len(produced) + Len(Only(serving.rest, Bytes))
      /\ \A i \in 1..Len(produced) : WholeOutput[i] = produced[i]
  <2>1. WholeOutput = produced \o Only(serving.rest, Bytes)
    BY Zenon DEF WholeOutput
  <2> QED
    BY <1>1, <2>1, ConcatProperties, LenProperties
<1>3. Len(delivered) \in Nat /\ Len(produced) \in Nat /\ Len(Only(serving.rest, Bytes)) \in Nat
  BY <1>1, LenProperties
<1> QED
  BY <1>1, <1>2, <1>3 DEF Texts, Begins

(* What a script reads of a call that has failed.                          *)
LEMMA FailedIsRead ==
  ASSUME RInv, calling.at = "returned", calling.result # "ok", NEW name \in Protocols
  PROVE  IsReadOf(name, ReadBy(name), DecodeProto(name, WholeOutput, "EOF"))
<1> DEFINE err  == calling.result
           part == DecodeProto(name, delivered, err)
           all  == DecodeProto(name, WholeOutput, "EOF")
           ends == name \in ByLines => EndsLine(delivered)
<1>1. err # "nil" /\ err # "EOF" /\ err # "end" /\ err # "ok"
  BY DEF RInv, ClientInv, Results, Statuses
<1>2. delivered \in Texts /\ WholeOutput \in Texts /\ Begins(delivered, WholeOutput)
  <2>1. delivered \in Texts
    BY Zenon DEF RInv, CallTypes
  <2> QED
    BY <2>1, WholeTyped
<1>3. ReadBy(name) = part
  BY <1>1, Zenon DEF ReadBy
<1>4. \E S : part.vals \in Seq(S) /\ all.vals \in Seq(S) /\ ReadsAs(part, all, ends)
  <2> HIDE DEF err
  <2> QED
    BY <1>1, <1>2, ProtoReads, Zenon
<1>5. CutsLine(name) <=> ~ends
  BY <1>1, Zenon DEF CutsLine, EndsLine
<1> HIDE DEF part, all, ends
<1>6. PICK S : part.vals \in Seq(S) /\ all.vals \in Seq(S) /\ ReadsAs(part, all, ends)
  BY <1>4, Zenon
<1>7. part.end # "end" /\ Nearly(part.vals, all.vals, ends)
  BY <1>6, Zenon DEF ReadsAs
<1>8. IsPrefix(IF ~ends /\ part.vals # <<>> THEN Front(part.vals) ELSE part.vals, all.vals)
  BY <1>6, <1>7, NearlyPrefix, Zenon
<1>9. IsPrefix(Certain(name, part.vals), all.vals)
  BY <1>5, <1>8, Zenon DEF Certain
<1>10. IsReadOf(name, part, all)
  BY <1>7, <1>9, Zenon DEF IsReadOf
<1> QED
  BY <1>3, <1>10, Zenon DEF all

(* What a script reads of a call that has not.                             *)
LEMMA AnsweredIsRead ==
  ASSUME RInv, calling.at = "returned", calling.result = "ok", NEW name \in Protocols
  PROVE  IsReadOf(name, ReadBy(name), DecodeProto(name, WholeOutput, "EOF"))
<1> DEFINE all == DecodeProto(name, WholeOutput, "EOF")
<1>1. serving.rest = <<>> /\ delivered = produced
  BY DEF RInv, ClientInv, HandlerInv
<1>2. produced \in Seq(Bytes) /\ Only(serving.rest, Bytes) = <<>>
  <2>1. produced \in Seq(Bytes)
    BY Zenon DEF RInv, CallTypes, Texts
  <2> QED
    BY <1>1, <2>1, ServingTypes, OnlyFacts
<1>3. WholeOutput = delivered
  <2>1. produced \o <<>> = produced
    BY <1>2
  <2> QED
    BY <1>1, <1>2, <2>1, Zenon DEF WholeOutput
<1>4. ReadBy(name) = all
  BY <1>3, Zenon DEF ReadBy
<1>5. WholeOutput \in Texts /\ Begins(WholeOutput, WholeOutput)
  BY <1>3, WholeTyped
<1>6. PICK S : all.vals \in Seq(S)
  <2>1. "syntax" # "nil" /\ "syntax" # "EOF" /\ "syntax" # "end"
    OBVIOUS
  <2> QED
    BY <1>5, <2>1, ProtoReads, Zenon
<1> HIDE DEF all
<1>7. IsPrefix(all.vals, all.vals)
  <2>1. Begins(all.vals, all.vals)
    BY <1>6, LenProperties DEF Begins
  <2> QED
    BY <1>6, <2>1, PrefixMeans
<1>8. Certain(name, all.vals) = all.vals
  BY Zenon DEF Certain, CutsLine
<1>9. IsReadOf(name, all, all)
  BY <1>7, <1>8, Zenon DEF IsReadOf
<1> QED
  BY <1>4, <1>9, Zenon DEF all

(* The invariant implies what the run checks. *)
LEMMA WholeIsWhole == RInv => AnswersAreWhole
<1> SUFFICES ASSUME RInv PROVE AnswersAreWhole
  OBVIOUS
<1>1. IsPrefix(delivered, produced)
  <2>1. delivered \in Seq(Bytes) /\ produced \in Seq(Bytes) /\ Begins(delivered, produced)
    BY Zenon DEF RInv, CallTypes, StreamInv, Texts
  <2> QED
    BY <2>1, PrefixMeans
<1>2. calling.at = "returned" /\ calling.result = "ok" =>
        serving.at = "ended" /\ serving.result = "ok" /\ delivered = produced
  BY DEF RInv, ClientInv, HandlerInv
<1>3. calling.at = "returned" =>
        \A name \in Protocols :
          IsReadOf(name, ReadBy(name), DecodeProto(name, WholeOutput, "EOF"))
  BY FailedIsRead, AnsweredIsRead, Zenon
<1> QED
  BY <1>1, <1>2, <1>3, Zenon DEF AnswersAreWhole

(* Whatever the runtime of the other program writes, whichever byte the    *)
(* connection fails at and however far either end is then, Client.Run,     *)
(* Read and Export return without an error only when the handler there has *)
(* ended without one and all of its output is written, in order; and what  *)
(* a script reads of a call that failed, through any of the protocols, is  *)
(* a beginning of what it would have read of the whole output, but for a   *)
(* last line that is cut.                                                  *)
THEOREM AnswersWhole == RemoteSpec => []AnswersAreWhole
<1>1. RemoteInit => RInv
  BY RemoteStarts
<1>2. RInv /\ [RemoteNext]_remoteVars => RInv'
  BY RInvNext
<1>3. RInv => AnswersAreWhole
  BY WholeIsWhole
<1> QED
  BY <1>1, <1>2, <1>3, PTL DEF RemoteSpec

-----------------------------------------------------------------------------
(* Sessions: the runs of modules, what they hold open and what is kept.    *)
Scopes == Seq([mod : Modules, whole : BOOLEAN])
LoadFrames == [id : Nat \ {0}, next : Nat \ {0}, kept : BOOLEAN, ended : BOOLEAN]

(* A run is of a scope of the list; when it has ended the scope is whole.  *)
FrameOf(f, scopes) == f.id \in DOMAIN scopes /\ (f.ended => scopes[f.id].whole)

(* What a load returned is a whole scope, and what is kept is of its       *)
(* module.                                                                 *)
WholeIn(id, scopes) == id \in DOMAIN scopes /\ scopes[id].whole

(* A custodian that has a file belongs to a run that goes on, or to one    *)
(* that started a thunk; a file that no custodian has is of the latter.    *)
FileHeld(file) == file.id \in started \/ (file.closes /\ Running(file.id))

StackInv ==
  /\ scopeList \in Scopes
  /\ stack \in [Loaders -> Seq(LoadFrames)]
  /\ \A p \in Loaders : \A i \in DOMAIN stack[p] : FrameOf(stack[p][i], scopeList)

KeptInv ==
  /\ obtained \in [Loaders -> SUBSET Nat]
  /\ \A p \in Loaders : \A id \in obtained[p] : WholeIn(id, scopeList)
  /\ modules \in [Modules -> Seq(Nat)]
  /\ \A m \in Modules : \A id \in Range(modules[m]) :
       WholeIn(id, scopeList) /\ scopeList[id].mod = m

FilesInv ==
  /\ openFiles \in SUBSET [id : Nat \ {0}, closes : BOOLEAN]
  /\ started \in SUBSET (Nat \ {0})
  /\ \A file \in openFiles : FileHeld(file)

SInv == StackInv /\ KeptInv /\ FilesInv

USE SessionsAssumption

-----------------------------------------------------------------------------
(* The innermost run and the ones around it. *)
LEMMA FrontLast ==
  ASSUME NEW s \in Seq(LoadFrames), s # <<>>
  PROVE  /\ Len(s) \in Nat \ {0} /\ DOMAIN s = 1..Len(s)
         /\ Last(s) = s[Len(s)] /\ Last(s) \in LoadFrames
         /\ Front(s) \in Seq(LoadFrames) /\ Len(Front(s)) = Len(s) - 1
         /\ \A i \in 1..(Len(s) - 1) : Front(s)[i] = s[i]
<1>1. Len(s) \in Nat \ {0} /\ DOMAIN s = 1..Len(s)
  BY EmptySeq, LenProperties
<1>2. Last(s) = s[Len(s)] /\ Last(s) \in LoadFrames
  BY <1>1, ElementOfSeq DEF Last
<1>3. Front(s) \in Seq(LoadFrames) /\ Len(Front(s)) = Len(s) - 1
      /\ \A i \in 1..(Len(s) - 1) : Front(s)[i] = s[i]
  BY <1>1, SubSeqProperties DEF Front
<1> QED
  BY <1>1, <1>2, <1>3

(* One more run. *)
LEMMA Appended ==
  ASSUME NEW s \in Seq(LoadFrames), NEW f \in LoadFrames
  PROVE  /\ Append(s, f) \in Seq(LoadFrames) /\ Len(Append(s, f)) = Len(s) + 1
         /\ Len(s) \in Nat
         /\ \A i \in 1..Len(s) : Append(s, f)[i] = s[i]
         /\ Append(s, f)[Len(s) + 1] = f
BY AppendProperties, LenProperties

(* A list of scopes that grows, and whose runs come to their ends. *)
Grows(scopes, more) ==
  /\ more \in Scopes
  /\ DOMAIN scopes \subseteq DOMAIN more
  /\ \A id \in DOMAIN scopes :
       more[id].mod = scopes[id].mod /\ (scopes[id].whole => more[id].whole)

(* What is whole stays whole, of the same module. *)
LEMMA GrowsKeeps ==
  ASSUME KeptInv, Grows(scopeList, scopeList'), UNCHANGED <<obtained, modules>>
  PROVE  KeptInv'
BY DEF KeptInv, Grows, WholeIn

(* The runs that a goroutine is in, with whatever was loaded since. *)
SameRuns(s, calls) ==
  /\ calls \in Seq(LoadFrames) /\ Len(calls) = Len(s)
  /\ \A i \in 1..Len(s) : calls[i].id = s[i].id /\ calls[i].ended = s[i].ended

(* They are runs of scopes of the list as well. *)
LEMMA SameRunsFacts ==
  ASSUME StackInv, NEW p \in Loaders, NEW calls, SameRuns(stack[p], calls)
  PROVE  /\ stack[p] \in Seq(LoadFrames) /\ calls \in Seq(LoadFrames)
         /\ DOMAIN stack[p] = 1..Len(stack[p]) /\ DOMAIN calls = 1..Len(stack[p])
         /\ \A i \in 1..Len(stack[p]) : FrameOf(calls[i], scopeList)
<1>1. stack[p] \in Seq(LoadFrames) /\ calls \in Seq(LoadFrames) /\ Len(calls) = Len(stack[p])
  BY DEF StackInv, SameRuns
<1>2. DOMAIN stack[p] = 1..Len(stack[p]) /\ DOMAIN calls = 1..Len(stack[p])
  BY <1>1, LenProperties
<1> QED
  BY <1>1, <1>2 DEF StackInv, SameRuns, FrameOf

(* The start of a run. *)
LEMMA EnterKeeps ==
  ASSUME SInv, NEW p \in Loaders, NEW m \in Modules, NEW kept \in BOOLEAN, NEW calls,
         SameRuns(stack[p], calls), Enter(p, m, kept, calls)
  PROVE  SInv'
<1> DEFINE id == Len(scopeList) + 1
           new == [id |-> id, next |-> 1, kept |-> kept, ended |-> FALSE]
           scope == [mod |-> m, whole |-> FALSE]
           n == Len(stack[p])
<1>1. /\ scopeList' = Append(scopeList, scope)
      /\ stack' = [stack EXCEPT ![p] = Append(calls, new)]
      /\ UNCHANGED <<modules, obtained, openFiles, started>>
  BY DEF Enter
<1>2. scopeList \in Scopes /\ stack \in [Loaders -> Seq(LoadFrames)]
  BY DEF SInv, StackInv
<1>3. /\ scopeList' \in Scopes
      /\ DOMAIN scopeList = 1..Len(scopeList) /\ Len(scopeList) \in Nat
      /\ DOMAIN scopeList' = 1..(Len(scopeList) + 1)
      /\ \A i \in 1..Len(scopeList) : scopeList'[i] = scopeList[i]
  BY <1>1, <1>2, AppendProperties, LenProperties DEF Scopes
<1>4. Grows(scopeList, scopeList') /\ id \in DOMAIN scopeList' /\ id \in Nat \ {0}
  BY <1>3 DEF Grows
<1>5. new \in LoadFrames /\ FrameOf(new, scopeList')
  BY <1>4 DEF LoadFrames, FrameOf
<1>6. /\ calls \in Seq(LoadFrames) /\ Len(calls) = n /\ n \in Nat
      /\ DOMAIN stack[p] = 1..n
      /\ \A i \in 1..n : FrameOf(calls[i], scopeList)
  <2>1. calls \in Seq(LoadFrames) /\ Len(calls) = n /\ stack[p] \in Seq(LoadFrames)
    BY <1>2 DEF SameRuns
  <2> QED
    BY <2>1, SameRunsFacts, LenProperties DEF SInv
<1> HIDE DEF new, id
<1>7. /\ stack' \in [Loaders -> Seq(LoadFrames)]
      /\ Len(stack'[p]) = n + 1 /\ DOMAIN stack'[p] = 1..(n + 1)
      /\ \A i \in 1..n : stack'[p][i] = calls[i]
      /\ stack'[p][n + 1] = new
      /\ \A q \in Loaders \ {p} : stack'[q] = stack[q]
  <2>1. Append(calls, new) \in Seq(LoadFrames) /\ Len(Append(calls, new)) = n + 1
        /\ (\A i \in 1..n : Append(calls, new)[i] = calls[i])
        /\ Append(calls, new)[n + 1] = new
    BY <1>5, <1>6, Appended
  <2>2. DOMAIN Append(calls, new) = 1..(n + 1)
    BY <2>1, LenProperties
  <2> HIDE DEF n
  <2> QED
    BY <1>1, <1>2, <2>1, <2>2
<1>8. ASSUME NEW f, FrameOf(f, scopeList) PROVE FrameOf(f, scopeList')
  BY <1>4, <1>8 DEF FrameOf, Grows
<1>9. \A q \in Loaders : \A i \in DOMAIN stack'[q] : FrameOf(stack'[q][i], scopeList')
  <2>1. ASSUME NEW q \in Loaders, q # p, NEW i \in DOMAIN stack'[q]
        PROVE  FrameOf(stack'[q][i], scopeList')
    BY <1>7, <1>8, <2>1 DEF SInv, StackInv
  <2>2. ASSUME NEW i \in 1..(n + 1) PROVE FrameOf(stack'[p][i], scopeList')
    <3>1. CASE i \in 1..n
      BY <1>6, <1>7, <1>8, <3>1
    <3>2. CASE i = n + 1
      BY <1>5, <1>7, <3>2
    <3> QED
      BY <1>6, <3>1, <3>2
  <2> QED
    BY <1>7, <2>1, <2>2
<1>10. StackInv'
  BY <1>3, <1>7, <1>9 DEF StackInv
<1>11. KeptInv'
  BY <1>1, <1>4, GrowsKeeps DEF SInv
<1>12. ASSUME NEW k, Running(k) PROVE Running(k)'
  <2>1. PICK q \in Loaders : \E i \in DOMAIN stack[q] :
          stack[q][i].id = k /\ ~stack[q][i].ended
    BY <1>12 DEF Running
  <2>2. PICK i \in DOMAIN stack[q] : stack[q][i].id = k /\ ~stack[q][i].ended
    BY <2>1
  <2>3. i \in DOMAIN stack'[q] /\ stack'[q][i].id = k /\ ~stack'[q][i].ended
    <3>1. CASE q = p
      <4>1. i \in 1..n /\ i \in 1..(n + 1)
        BY <1>6, <2>2, <3>1
      <4>2. stack'[p][i] = calls[i] /\ calls[i].id = stack[p][i].id
            /\ calls[i].ended = stack[p][i].ended
        BY <1>7, <4>1 DEF SameRuns
      <4> QED
        BY <1>7, <2>2, <3>1, <4>1, <4>2
    <3>2. CASE q # p
      BY <1>7, <2>2, <3>2
    <3> QED
      BY <3>1, <3>2
  <2> QED
    BY <2>3 DEF Running
<1>13. FilesInv'
  BY <1>1, <1>12 DEF SInv, FilesInv, FileHeld
<1> QED
  BY <1>10, <1>11, <1>13 DEF SInv

(* A load, up to its run, or with what is kept. *)
LEMMA LookUpKeeps ==
  ASSUME SInv, NEW p \in Loaders, NEW m \in Modules, NEW calls,
         SameRuns(stack[p], calls), LookUp(p, m, calls)
  PROVE  SInv'
<1>1. CASE Enter(p, m, TRUE, calls)
  BY <1>1, EnterKeeps
<1>2. CASE ~Enter(p, m, TRUE, calls)
  <2> DEFINE n == Len(stack[p])
  <2>1. /\ obtained' = [obtained EXCEPT ![p] = @ \cup Range(modules[m])]
        /\ stack' = [stack EXCEPT ![p] = calls]
        /\ UNCHANGED <<modules, scopeList, openFiles, started>>
    BY <1>2 DEF LookUp
  <2>2. /\ stack[p] \in Seq(LoadFrames) /\ calls \in Seq(LoadFrames)
        /\ DOMAIN stack[p] = 1..n /\ DOMAIN calls = 1..n
        /\ \A i \in 1..n : FrameOf(calls[i], scopeList)
    BY SameRunsFacts DEF SInv
  <2>3. /\ stack' \in [Loaders -> Seq(LoadFrames)] /\ stack'[p] = calls
        /\ \A q \in Loaders \ {p} : stack'[q] = stack[q]
    BY <2>1, <2>2 DEF SInv, StackInv
  <2>4. StackInv'
    BY <2>1, <2>2, <2>3 DEF SInv, StackInv
  <2>5. /\ Range(modules[m]) \in SUBSET Nat
        /\ \A id \in Range(modules[m]) : WholeIn(id, scopeList)
    <3>1. modules[m] \in Seq(Nat)
      BY DEF SInv, KeptInv
    <3>2. \A i \in DOMAIN modules[m] : modules[m][i] \in Nat
      BY <3>1, ElementOfSeq, LenProperties
    <3> QED
      BY <3>2 DEF SInv, KeptInv, Range
  <2> HIDE DEF n
  <2>6. KeptInv'
    BY <2>1, <2>5 DEF SInv, KeptInv
  <2>7. ASSUME NEW k, Running(k) PROVE Running(k)'
    <3>1. PICK q \in Loaders : \E i \in DOMAIN stack[q] :
            stack[q][i].id = k /\ ~stack[q][i].ended
      BY <2>7 DEF Running
    <3>2. PICK i \in DOMAIN stack[q] : stack[q][i].id = k /\ ~stack[q][i].ended
      BY <3>1
    <3>3. i \in DOMAIN stack'[q] /\ stack'[q][i].id = k /\ ~stack'[q][i].ended
      <4>1. CASE q = p
        BY <2>2, <2>3, <3>2, <4>1 DEF SameRuns, n
      <4>2. CASE q # p
        BY <2>3, <3>2, <4>2
      <4> QED
        BY <4>1, <4>2
    <3> QED
      BY <3>3 DEF Running
  <2>8. FilesInv'
    BY <2>1, <2>7 DEF SInv, FilesInv, FileHeld
  <2> QED
    BY <2>4, <2>6, <2>8 DEF SInv
<1> QED
  BY <1>1, <1>2

(* A goroutine in a run: the run is its last, of a scope of the list. *)
LEMMA InRun ==
  ASSUME StackInv, NEW p \in Loaders, stack[p] # <<>>
  PROVE  /\ stack[p] \in Seq(LoadFrames) /\ Len(stack[p]) \in Nat \ {0}
         /\ DOMAIN stack[p] = 1..Len(stack[p])
         /\ Inmost(p) = stack[p][Len(stack[p])] /\ Inmost(p) \in LoadFrames
         /\ FrameOf(Inmost(p), scopeList)
         /\ Inmost(p).id \in DOMAIN scopeList /\ Inmost(p).id \in Nat \ {0}
         /\ Front(stack[p]) \in Seq(LoadFrames) /\ Len(Front(stack[p])) = Len(stack[p]) - 1
         /\ DOMAIN Front(stack[p]) = 1..(Len(stack[p]) - 1)
         /\ \A i \in 1..(Len(stack[p]) - 1) : Front(stack[p])[i] = stack[p][i]
<1>1. stack[p] \in Seq(LoadFrames)
  BY DEF StackInv
<1>2. /\ Len(stack[p]) \in Nat \ {0} /\ DOMAIN stack[p] = 1..Len(stack[p])
      /\ Inmost(p) = stack[p][Len(stack[p])] /\ Inmost(p) \in LoadFrames
      /\ Front(stack[p]) \in Seq(LoadFrames) /\ Len(Front(stack[p])) = Len(stack[p]) - 1
      /\ \A i \in 1..(Len(stack[p]) - 1) : Front(stack[p])[i] = stack[p][i]
  BY <1>1, FrontLast DEF Inmost
<1>3. FrameOf(Inmost(p), scopeList)
  <2>1. Len(stack[p]) \in DOMAIN stack[p]
    BY <1>2
  <2> QED
    BY <1>2, <2>1 DEF StackInv
<1>4. DOMAIN Front(stack[p]) = 1..(Len(stack[p]) - 1)
  BY <1>2, LenProperties
<1> QED
  BY <1>1, <1>2, <1>3, <1>4 DEF FrameOf, LoadFrames

(* The next load of a module. *)
LEMMA LoadNextKeeps ==
  ASSUME SInv, NEW p \in Loaders, LoadNext(p)
  PROVE  SInv'
<1> DEFINE loads == Loads[scopeList[Inmost(p).id].mod]
           past  == [Inmost(p) EXCEPT !.next = @ + 1]
           calls == Append(Front(stack[p]), past)
           n == Len(stack[p])
<1>1. /\ IsRunning(p) /\ Inmost(p).next <= Len(loads)
      /\ LookUp(p, loads[Inmost(p).next], calls)
  BY DEF LoadNext
<1>2. stack[p] # <<>> /\ ~Inmost(p).ended
  BY <1>1 DEF IsRunning
<1>3. /\ stack[p] \in Seq(LoadFrames) /\ n \in Nat \ {0}
      /\ Inmost(p) = stack[p][n] /\ Inmost(p) \in LoadFrames /\ Inmost(p).id \in DOMAIN scopeList
      /\ Front(stack[p]) \in Seq(LoadFrames) /\ Len(Front(stack[p])) = n - 1
      /\ \A i \in 1..(n - 1) : Front(stack[p])[i] = stack[p][i]
  BY <1>2, InRun DEF SInv
<1>4. scopeList[Inmost(p).id].mod \in Modules
  <2> DEFINE id == Inmost(p).id
  <2>1. scopeList \in Scopes /\ id \in DOMAIN scopeList
    BY <1>3 DEF SInv, StackInv
  <2> HIDE DEF id
  <2>2. scopeList[id] \in [mod : Modules, whole : BOOLEAN]
    BY <2>1, ElementOfSeq, LenProperties DEF Scopes
  <2> QED
    BY <2>2 DEF id
<1>5. loads \in Seq(Modules)
  BY <1>4
<1>6. Inmost(p).next \in Nat \ {0}
  BY <1>3 DEF LoadFrames
<1>7. loads[Inmost(p).next] \in Modules
  <2> HIDE DEF loads
  <2>1. Len(loads) \in Nat
    BY <1>5, LenProperties
  <2> QED
    BY <1>1, <1>5, <1>6, <2>1, ElementOfSeq
<1>8. past \in LoadFrames /\ past.id = Inmost(p).id /\ past.ended = Inmost(p).ended
  <2>1. Inmost(p) \in LoadFrames /\ Inmost(p).next + 1 \in Nat \ {0}
    BY <1>3, <1>6
  <2> QED
    BY <2>1 DEF LoadFrames
<1>9. SameRuns(stack[p], calls)
  <2> HIDE DEF past
  <2>1. /\ calls \in Seq(LoadFrames) /\ Len(calls) = (n - 1) + 1
        /\ \A i \in 1..(n - 1) : calls[i] = Front(stack[p])[i]
        /\ calls[(n - 1) + 1] = past
    BY <1>3, <1>8, Appended
  <2>2. ASSUME NEW i \in 1..n
        PROVE  calls[i].id = stack[p][i].id /\ calls[i].ended = stack[p][i].ended
    <3> HIDE DEF calls, n
    <3>1. CASE i \in 1..(n - 1)
      BY <1>3, <2>1, <3>1
    <3>2. CASE i = n
      BY <1>3, <1>8, <2>1, <3>2
    <3> QED
      BY <1>3, <3>1, <3>2
  <2> QED
    BY <1>3, <2>1, <2>2 DEF SameRuns
<1> HIDE DEF loads, calls
<1> QED
  BY <1>1, <1>7, <1>9, LookUpKeeps

(* A load or a run that a goroutine begins outside of any run. *)
LEMMA FirstKeeps ==
  ASSUME SInv, NEW p \in Loaders, NEW m \in Modules, LoadModule(p, m) \/ RunModule(p, m)
  PROVE  SInv'
<1>1. stack[p] = <<>>
  BY DEF LoadModule, RunModule
<1>2. SameRuns(stack[p], <<>>)
  BY <1>1, EmptySeq DEF SameRuns
<1> QED
  BY <1>2, EnterKeeps, LookUpKeeps DEF LoadModule, RunModule

(* A run that ends makes its scope whole and closes its files. *)
LEMMA RunEndsKeeps ==
  ASSUME SInv, NEW p \in Loaders, RunEnds(p)
  PROVE  SInv'
<1> DEFINE n == Len(stack[p])
           id == Inmost(p).id
           done == [Inmost(p) EXCEPT !.ended = TRUE]
           rest == IF Inmost(p).kept THEN Append(Front(stack[p]), done) ELSE Front(stack[p])
<1>1. /\ stack[p] # <<>>
      /\ scopeList' = [scopeList EXCEPT ![id].whole = TRUE]
      /\ openFiles' = openFiles \ {File(id, TRUE)}
      /\ stack' = [stack EXCEPT ![p] = rest]
      /\ UNCHANGED <<modules, obtained, started>>
  BY DEF RunEnds, IsRunning
<1>2. /\ stack[p] \in Seq(LoadFrames) /\ n \in Nat \ {0} /\ DOMAIN stack[p] = 1..n
      /\ Inmost(p) = stack[p][n] /\ Inmost(p) \in LoadFrames /\ id \in DOMAIN scopeList
      /\ Front(stack[p]) \in Seq(LoadFrames) /\ Len(Front(stack[p])) = n - 1
      /\ DOMAIN Front(stack[p]) = 1..(n - 1)
      /\ \A i \in 1..(n - 1) : Front(stack[p])[i] = stack[p][i]
  BY <1>1, InRun DEF SInv
<1>3. done \in LoadFrames /\ done.id = id
  BY <1>2 DEF LoadFrames
<1>4. scopeList' \in Scopes /\ DOMAIN scopeList' = DOMAIN scopeList
      /\ Grows(scopeList, scopeList') /\ scopeList'[id].whole
  <2>1. scopeList \in Scopes /\ scopeList[id] \in [mod : Modules, whole : BOOLEAN]
    <3>1. scopeList \in Scopes
      BY DEF SInv, StackInv
    <3>2. scopeList \in Seq([mod : Modules, whole : BOOLEAN]) /\ id \in DOMAIN scopeList
      BY <1>2, <3>1 DEF Scopes
    <3> HIDE DEF id
    <3>3. id \in 1..Len(scopeList)
      BY <3>2, LenProperties
    <3> QED
      BY <3>1, <3>2, <3>3, ElementOfSeq
  <2>2. scopeList' = [scopeList EXCEPT ![id] = [scopeList[id] EXCEPT !.whole = TRUE]]
    BY <1>1
  <2>3. [scopeList[id] EXCEPT !.whole = TRUE] \in [mod : Modules, whole : BOOLEAN]
    BY <2>1
  <2> HIDE DEF id
  <2>4. scopeList' \in Scopes
    BY <1>2, <2>1, <2>2, <2>3, ExceptSeq, LenProperties DEF Scopes
  <2>5. DOMAIN scopeList' = DOMAIN scopeList
    BY <2>2
  <2>6. scopeList'[id].whole /\ scopeList'[id].mod = scopeList[id].mod
    BY <1>2, <2>1, <2>2
  <2>7. \A k \in DOMAIN scopeList : k # id => scopeList'[k] = scopeList[k]
    BY <2>2
  <2> QED
    BY <2>4, <2>5, <2>6, <2>7 DEF Grows
<1> HIDE DEF id, done
<1>5. /\ rest \in Seq(LoadFrames)
      /\ DOMAIN rest = 1..(n - 1) \/ DOMAIN rest = 1..n
      /\ \A i \in 1..(n - 1) : i \in DOMAIN rest /\ rest[i] = stack[p][i]
      /\ n \in DOMAIN rest => rest[n] = done
  <2>1. CASE Inmost(p).kept
    <3>1. /\ rest \in Seq(LoadFrames) /\ Len(rest) = n
          /\ \A i \in 1..(n - 1) : rest[i] = Front(stack[p])[i]
          /\ rest[n] = done
      <4>1. /\ Append(Front(stack[p]), done) \in Seq(LoadFrames)
            /\ Len(Append(Front(stack[p]), done)) = (n - 1) + 1
            /\ \A i \in 1..(n - 1) : Append(Front(stack[p]), done)[i] = Front(stack[p])[i]
            /\ Append(Front(stack[p]), done)[(n - 1) + 1] = done
        BY <1>2, <1>3, Appended
      <4>2. (n - 1) + 1 = n
        BY <1>2
      <4>3. rest = Append(Front(stack[p]), done)
        BY <2>1
      <4> HIDE DEF rest, n
      <4> QED
        BY <4>1, <4>2, <4>3
    <3> HIDE DEF rest, n
    <3>2. DOMAIN rest = 1..n
      BY <3>1, LenProperties
    <3> QED
      BY <1>2, <3>1, <3>2
  <2>2. CASE ~Inmost(p).kept
    <3>1. rest = Front(stack[p])
      BY <2>2
    <3> HIDE DEF rest, n
    <3> QED
      BY <1>2, <3>1
  <2> QED
    BY <2>1, <2>2
<1> HIDE DEF rest, n
<1>6. /\ stack' \in [Loaders -> Seq(LoadFrames)] /\ stack'[p] = rest
      /\ \A q \in Loaders \ {p} : stack'[q] = stack[q]
  BY <1>1, <1>5 DEF SInv, StackInv
<1>7. ASSUME NEW f, FrameOf(f, scopeList) PROVE FrameOf(f, scopeList')
  BY <1>4, <1>7 DEF FrameOf, Grows
<1>8. FrameOf(done, scopeList')
  BY <1>2, <1>3, <1>4 DEF FrameOf
<1>9. \A q \in Loaders : \A i \in DOMAIN stack'[q] : FrameOf(stack'[q][i], scopeList')
  <2>1. ASSUME NEW q \in Loaders, q # p, NEW i \in DOMAIN stack'[q]
        PROVE  FrameOf(stack'[q][i], scopeList')
    BY <1>6, <1>7, <2>1 DEF SInv, StackInv
  <2>2. ASSUME NEW i \in DOMAIN rest PROVE FrameOf(rest[i], scopeList')
    <3>0. n \in Nat \ {0} /\ DOMAIN stack[p] = 1..n
      BY <1>2
    <3>1. i \in 1..n
      <4>1. DOMAIN rest = 1..(n - 1) \/ DOMAIN rest = 1..n
        BY <1>5
      <4> QED
        BY <3>0, <4>1
    <3>2. CASE i \in 1..(n - 1)
      <4>1. i \in DOMAIN stack[p] /\ rest[i] = stack[p][i]
        BY <1>5, <3>0, <3>1, <3>2
      <4> QED
        BY <1>7, <4>1 DEF SInv, StackInv
    <3>3. CASE i = n
      BY <1>5, <1>8, <3>3
    <3> QED
      BY <3>0, <3>1, <3>2, <3>3
  <2> QED
    BY <1>6, <2>1, <2>2
<1>10. StackInv'
  BY <1>4, <1>6, <1>9 DEF StackInv
<1>11. KeptInv'
  BY <1>1, <1>4, GrowsKeeps DEF SInv
<1>12. ASSUME NEW file \in openFiles' PROVE FileHeld(file)'
  <2>1. file \in openFiles /\ file # File(id, TRUE) /\ FileHeld(file)
        /\ file \in [id : Nat \ {0}, closes : BOOLEAN]
    BY <1>1 DEF SInv, FilesInv
  <2>2. CASE file.id \in started
    BY <1>1, <2>2 DEF FileHeld
  <2>3. CASE file.closes /\ Running(file.id)
    <3>1. file.id # id
      BY <2>1, <2>3 DEF File
    <3>2. PICK q \in Loaders : \E i \in DOMAIN stack[q] :
            stack[q][i].id = file.id /\ ~stack[q][i].ended
      BY <2>3 DEF Running
    <3>3. PICK i \in DOMAIN stack[q] : stack[q][i].id = file.id /\ ~stack[q][i].ended
      BY <3>2
    <3>4. i \in DOMAIN stack'[q] /\ stack'[q][i] = stack[q][i]
      <4>1. CASE q = p
        <5>1. i # n
          BY <1>2, <3>1, <3>3, <4>1 DEF id
        <5>2. i \in 1..(n - 1)
          BY <1>2, <3>3, <4>1, <5>1
        <5> QED
          BY <1>5, <1>6, <4>1, <5>2
      <4>2. CASE q # p
        BY <1>6, <3>3, <4>2
      <4> QED
        BY <4>1, <4>2
    <3>5. Running(file.id)'
      BY <3>3, <3>4 DEF Running
    <3> QED
      BY <2>3, <3>5 DEF FileHeld
  <2> QED
    BY <2>1, <2>2, <2>3 DEF FileHeld
<1>13. FilesInv'
  BY <1>1, <1>12 DEF SInv, FilesInv
<1> QED
  BY <1>10, <1>11, <1>13 DEF SInv

(* Files are opened in a run, or after one that started a thunk. *)
LEMMA FilesKeep ==
  ASSUME SInv,
         \/ \E p \in Loaders : OpenFile(p) \/ StartThunk(p)
         \/ \E id \in DOMAIN scopeList : HandlerOpens(id)
  PROVE  SInv'
<1>1. UNCHANGED <<modules, scopeList, stack, obtained>>
  BY DEF OpenFile, StartThunk, HandlerOpens
<1>2. StackInv' /\ KeptInv'
  BY <1>1 DEF SInv, StackInv, KeptInv
<1>3. \A k : Running(k) => Running(k)'
  BY <1>1 DEF Running
<1>4. ASSUME NEW p \in Loaders, OpenFile(p) PROVE FilesInv'
  <2>1. stack[p] # <<>> /\ ~Inmost(p).ended
    BY <1>4 DEF OpenFile, IsRunning
  <2> DEFINE n == Len(stack[p])
  <2>0. PICK id : id = Inmost(p).id
    OBVIOUS
  <2>2. n \in DOMAIN stack[p] /\ Inmost(p) = stack[p][n] /\ id \in Nat \ {0}
    BY <2>0, <2>1, InRun DEF SInv
  <2>3. openFiles' = openFiles \cup {File(id, TRUE)} /\ UNCHANGED started
    BY <1>4, <2>0 DEF OpenFile
  <2>4. Running(id)'
    <3>1. Running(id)
      BY <2>0, <2>1, <2>2 DEF Running
    <3> QED
      BY <1>3, <3>1
  <2>5. File(id, TRUE) \in [id : Nat \ {0}, closes : BOOLEAN] /\ FileHeld(File(id, TRUE))'
    BY <2>2, <2>4 DEF File, FileHeld
  <2>6. ASSUME NEW file \in openFiles PROVE FileHeld(file)'
    BY <1>3, <2>3 DEF SInv, FilesInv, FileHeld
  <2>7. openFiles' \in SUBSET [id : Nat \ {0}, closes : BOOLEAN]
    BY <2>3, <2>5 DEF SInv, FilesInv
  <2> QED
    BY <2>3, <2>5, <2>6, <2>7 DEF SInv, FilesInv
<1>5. ASSUME NEW p \in Loaders, StartThunk(p) PROVE FilesInv'
  <2>1. stack[p] # <<>>
    BY <1>5 DEF StartThunk, IsRunning
  <2>2. Inmost(p).id \in Nat \ {0}
    BY <2>1, InRun DEF SInv
  <2>3. started' = started \cup {Inmost(p).id} /\ UNCHANGED openFiles
    BY <1>5 DEF StartThunk
  <2> QED
    BY <1>3, <2>2, <2>3 DEF SInv, FilesInv, FileHeld
<1>6. ASSUME NEW id \in DOMAIN scopeList, HandlerOpens(id) PROVE FilesInv'
  <2>1. PICK closes \in BOOLEAN : openFiles' = openFiles \cup {File(id, closes)}
    BY <1>6 DEF HandlerOpens
  <2>2. id \in started /\ UNCHANGED started
    BY <1>6 DEF HandlerOpens
  <2>3. id \in Nat \ {0}
    BY <2>2 DEF SInv, FilesInv
  <2>4. File(id, closes) \in [id : Nat \ {0}, closes : BOOLEAN]
        /\ FileHeld(File(id, closes))'
    BY <2>2, <2>3 DEF File, FileHeld
  <2> QED
    BY <1>3, <2>1, <2>2, <2>4 DEF SInv, FilesInv, FileHeld
<1> QED
  BY <1>2, <1>4, <1>5, <1>6 DEF SInv

(* The end of a load: its scope is kept and returned. *)
LEMMA KeepKeeps ==
  ASSUME SInv, NEW p \in Loaders, Keep(p)
  PROVE  SInv'
<1> DEFINE n == Len(stack[p])
           id == Inmost(p).id
<1>1. /\ stack[p] # <<>> /\ Inmost(p).ended
      /\ modules' = [modules EXCEPT ![scopeList[id].mod] = <<id>>]
      /\ obtained' = [obtained EXCEPT ![p] = @ \cup {id}]
      /\ stack' = [stack EXCEPT ![p] = Front(@)]
      /\ UNCHANGED <<scopeList, openFiles, started>>
  BY DEF Keep
<1>2. /\ stack[p] \in Seq(LoadFrames) /\ n \in Nat \ {0} /\ DOMAIN stack[p] = 1..n
      /\ Inmost(p) = stack[p][n] /\ FrameOf(Inmost(p), scopeList)
      /\ Front(stack[p]) \in Seq(LoadFrames)
      /\ DOMAIN Front(stack[p]) = 1..(n - 1)
      /\ \A i \in 1..(n - 1) : Front(stack[p])[i] = stack[p][i]
  BY <1>1, InRun DEF SInv
<1>3. id \in Nat \ {0} /\ WholeIn(id, scopeList)
  BY <1>1, <1>2, InRun DEF SInv, FrameOf, WholeIn
<1> HIDE DEF id, n
<1>4. /\ stack' \in [Loaders -> Seq(LoadFrames)] /\ stack'[p] = Front(stack[p])
      /\ \A q \in Loaders \ {p} : stack'[q] = stack[q]
  BY <1>1, <1>2 DEF SInv, StackInv
<1>5. ASSUME NEW i \in 1..(n - 1) PROVE i \in DOMAIN stack[p]
  <2>1. n \in Nat \ {0} /\ DOMAIN stack[p] = 1..n
    BY <1>2
  <2> QED
    BY <2>1
<1>6. StackInv'
  <2>1. ASSUME NEW q \in Loaders, q # p, NEW i \in DOMAIN stack'[q]
        PROVE  FrameOf(stack'[q][i], scopeList')
    BY <1>1, <1>4, <2>1 DEF SInv, StackInv
  <2>2. ASSUME NEW i \in 1..(n - 1) PROVE FrameOf(stack'[p][i], scopeList')
    BY <1>1, <1>2, <1>4, <1>5 DEF SInv, StackInv
  <2>3. \A q \in Loaders : \A i \in DOMAIN stack'[q] : FrameOf(stack'[q][i], scopeList')
    BY <1>2, <1>4, <2>1, <2>2
  <2> QED
    BY <1>1, <1>4, <2>3 DEF SInv, StackInv
<1>7. KeptInv'
  <2> DEFINE mod == scopeList[id].mod
  <2>1. obtained' \in [Loaders -> SUBSET Nat]
        /\ \A q \in Loaders : obtained'[q] \subseteq obtained[q] \cup {id}
    BY <1>1, <1>3 DEF SInv, KeptInv
  <2>2. <<id>> \in Seq(Nat) /\ Range(<<id>>) = {id}
    BY <1>3 DEF Range
  <2>3. modules' \in [Modules -> Seq(Nat)]
        /\ \A m \in Modules : \/ modules'[m] = modules[m]
                              \/ modules'[m] = <<id>> /\ m = mod
    BY <1>1, <2>2 DEF SInv, KeptInv
  <2>4. ASSUME NEW m \in Modules, NEW k \in Range(modules'[m])
        PROVE  WholeIn(k, scopeList') /\ scopeList'[k].mod = m
    <3>1. CASE modules'[m] = modules[m]
      BY <1>1, <3>1 DEF SInv, KeptInv
    <3>2. CASE modules'[m] = <<id>> /\ m = mod
      BY <1>1, <1>3, <2>2, <3>2
    <3> QED
      BY <2>3, <3>1, <3>2
  <2>5. modules' \in [Modules -> Seq(Nat)]
    BY <2>3
  <2>6. \A q \in Loaders : \A k \in obtained'[q] : WholeIn(k, scopeList')
    BY <1>1, <1>3, <2>1 DEF SInv, KeptInv
  <2> QED
    BY <2>1, <2>4, <2>5, <2>6 DEF KeptInv
<1>8. ASSUME NEW k, Running(k) PROVE Running(k)'
  <2>1. PICK q \in Loaders : \E i \in DOMAIN stack[q] :
          stack[q][i].id = k /\ ~stack[q][i].ended
    BY <1>8 DEF Running
  <2>2. PICK i \in DOMAIN stack[q] : stack[q][i].id = k /\ ~stack[q][i].ended
    BY <2>1
  <2>3. i \in DOMAIN stack'[q] /\ stack'[q][i] = stack[q][i]
    <3>1. CASE q = p
      <4>1. i # n
        BY <1>1, <1>2, <2>2, <3>1
      <4>2. n \in Nat \ {0} /\ i \in 1..n
        BY <1>2, <2>2, <3>1
      <4>3. i \in 1..(n - 1)
        BY <4>1, <4>2
      <4> QED
        BY <1>2, <1>4, <3>1, <4>3
    <3>2. CASE q # p
      BY <1>4, <2>2, <3>2
    <3> QED
      BY <3>1, <3>2
  <2> QED
    BY <2>2, <2>3 DEF Running
<1>9. FilesInv'
  BY <1>1, <1>8 DEF SInv, FilesInv, FileHeld
<1> QED
  BY <1>6, <1>7, <1>9 DEF SInv

(* An error: all the runs of the goroutine close their files. *)
LEMMA RunFailsKeeps ==
  ASSUME SInv, NEW p \in Loaders, RunFails(p)
  PROVE  SInv'
<1>1. /\ openFiles' = openFiles \ {File(stack[p][i].id, TRUE) : i \in DOMAIN stack[p]}
      /\ stack' = [stack EXCEPT ![p] = <<>>]
      /\ UNCHANGED <<modules, scopeList, obtained, started>>
  BY DEF RunFails
<1>2. /\ stack' \in [Loaders -> Seq(LoadFrames)] /\ stack'[p] = <<>>
      /\ \A q \in Loaders \ {p} : stack'[q] = stack[q]
  BY <1>1 DEF SInv, StackInv
<1>3. StackInv' /\ KeptInv'
  <2>1. DOMAIN stack'[p] = {}
    BY <1>2
  <2>2. \A q \in Loaders : \A i \in DOMAIN stack'[q] : FrameOf(stack'[q][i], scopeList')
    BY <1>1, <1>2, <2>1 DEF SInv, StackInv
  <2> QED
    BY <1>1, <1>2, <2>2 DEF SInv, StackInv, KeptInv
<1>4. ASSUME NEW file \in openFiles' PROVE FileHeld(file)'
  <2>1. /\ file \in openFiles /\ FileHeld(file)
        /\ \A i \in DOMAIN stack[p] : file # File(stack[p][i].id, TRUE)
        /\ file \in [id : Nat \ {0}, closes : BOOLEAN]
    BY <1>1 DEF SInv, FilesInv
  <2>2. CASE file.id \in started
    BY <1>1, <2>2 DEF FileHeld
  <2>3. CASE file.closes /\ Running(file.id)
    <3>1. PICK q \in Loaders : \E i \in DOMAIN stack[q] :
            stack[q][i].id = file.id /\ ~stack[q][i].ended
      BY <2>3 DEF Running
    <3>2. PICK i \in DOMAIN stack[q] : stack[q][i].id = file.id /\ ~stack[q][i].ended
      BY <3>1
    <3>3. q # p
      BY <2>1, <2>3, <3>2 DEF File
    <3>4. Running(file.id)'
      BY <1>2, <3>2, <3>3 DEF Running
    <3> QED
      BY <2>3, <3>4 DEF FileHeld
  <2> QED
    BY <2>1, <2>2, <2>3 DEF FileHeld
<1>5. FilesInv'
  BY <1>1, <1>4 DEF SInv, FilesInv
<1> QED
  BY <1>3, <1>5 DEF SInv

(* Nothing is loaded, run or open at the start. *)
LEMMA InitS == SessionsInit => SInv
<1> SUFFICES ASSUME SessionsInit PROVE SInv
  OBVIOUS
<1>1. \A S : <<>> \in Seq(S) /\ DOMAIN <<>> = {} /\ Range(<<>>) = {}
  BY EmptySeq DEF Range
<1> QED
  BY <1>1 DEF SessionsInit, SInv, StackInv, KeptInv, FilesInv, Scopes

(* Every step keeps the invariant. *)
LEMMA SInvNext ==
  ASSUME SInv, [SessionsNext]_sessionVars
  PROVE  SInv'
<1>1. CASE SessionsNext
  BY <1>1, FirstKeeps, LoadNextKeeps, FilesKeep, RunEndsKeeps, KeepKeeps, RunFailsKeeps
  DEF SessionsNext
<1>2. CASE UNCHANGED sessionVars
  BY <1>2 DEF sessionVars, SInv, StackInv, KeptInv, FilesInv, FileHeld, Running
<1> QED
  BY <1>1, <1>2

(* session.go: a load returns a scope of its module whose run came to its  *)
(* end, and a custodian that closes leaves open only files of thunks.      *)
THEOREM WholeLoads == SessionsSpec => []LoadsAreWhole
<1>1. SInv => LoadsAreWhole
  BY DEF SInv, KeptInv, FilesInv, FileHeld, WholeIn, LoadsAreWhole
<1> QED
  BY <1>1, InitS, SInvNext, PTL DEF SessionsSpec
-----------------------------------------------------------------------------
(* Division with a rest.                                                 *)
LEMMA ModParts ==
  ASSUME NEW a \in Nat, NEW n \in Nat \ {0}
  PROVE  /\ a % n \in 0..(n - 1) /\ a \div n \in Nat
         /\ a = n * (a \div n) + (a % n)
OBVIOUS

LEMMA MoreTimes ==
  ASSUME NEW n \in Nat \ {0}, NEW q \in Nat, NEW r \in Nat, q < r
  PROVE  n * q + n <= n * r
<1>1. r - q - 1 \in Nat
  OBVIOUS
<1>2. n * (r - q - 1) \in Nat /\ n * (r - q - 1) = n * r - n * q - n
  BY <1>1
<1>3. n * r \in Nat /\ n * q \in Nat
  OBVIOUS
<1> QED
  BY <1>2, <1>3

(* Numbers that are less than n apart have different slots. *)
LEMMA ModDiffers ==
  ASSUME NEW n \in Nat \ {0}, NEW a \in Nat, NEW b \in Nat, a < b, b < a + n
  PROVE  a % n # b % n
<1> SUFFICES ASSUME a % n = b % n PROVE FALSE
  OBVIOUS
<1> DEFINE q == a \div n
           r == b \div n
           x == a % n
<1>1. q \in Nat /\ r \in Nat /\ x \in Nat /\ a = n * q + x /\ b = n * r + x
  <2>1. q \in Nat /\ x \in 0..(n - 1) /\ a = n * q + x
    BY ModParts
  <2>2. r \in Nat /\ b = n * r + (b % n)
    BY ModParts
  <2>3. b % n = x
    OBVIOUS
  <2> HIDE DEF q, r, x
  <2>4. b = n * r + x
    BY <2>2, <2>3, Zenon
  <2> QED
    BY <2>1, <2>2, <2>4
<1> HIDE DEF q, r, x
<1>2. n * q \in Nat /\ n * r \in Nat
  BY <1>1
<1>3. ~(r < q)
  BY <1>1, <1>2, MoreTimes
<1>4. ~(q < r)
  BY <1>1, <1>2, MoreTimes
<1> QED
  BY <1>1, <1>3, <1>4

LEMMA ModAround ==
  ASSUME NEW n \in Nat \ {0}, NEW a \in Nat
  PROVE  (a + n) % n = a % n
<1> DEFINE q == a \div n
           x == a % n
           r == (a + n) \div n
           y == (a + n) % n
<1>1. q \in Nat /\ x \in 0..(n - 1) /\ a = n * q + x
  BY ModParts
<1>2. r \in Nat /\ y \in 0..(n - 1) /\ a + n = n * r + y
  <2>1. a + n \in Nat
    OBVIOUS
  <2> QED
    BY <2>1, ModParts
<1> HIDE DEF q, x, r, y
<1>3. n * (q + 1) = n * q + n /\ n * q \in Nat /\ n * r \in Nat
  BY <1>1, <1>2
<1>4. q + 1 \in Nat /\ n * (q + 1) + x = n * r + y
  BY <1>1, <1>2, <1>3
<1>5. ~(q + 1 < r)
  BY <1>1, <1>2, <1>3, <1>4, MoreTimes
<1>6. ~(r < q + 1)
  BY <1>1, <1>2, <1>3, <1>4, MoreTimes
<1>7. x = y
  BY <1>1, <1>2, <1>3, <1>4, <1>5, <1>6
<1> QED
  BY <1>7 DEF x, y
-----------------------------------------------------------------------------
(* A ring that has the frames of the calls from low + 1 on, each in the    *)
(* slot of its depth, and no others.                                       *)
Slots == 0..(TraceSize - 1)

Holds(trace, under, low) ==
  /\ DOMAIN trace.frames = Slots /\ trace.depth = Len(under)
  /\ low \in 0..Len(under) /\ Len(under) - low <= TraceSize
  /\ \A i \in (low + 1)..Len(under) : trace.frames[(i - 1) % TraceSize] = under[i]
  /\ \A s \in Slots :
       (\A i \in (low + 1)..Len(under) : s # (i - 1) % TraceSize) => trace.frames[s] = NoFrame

Ring(K) == [frames : [Slots -> K \cup {NoFrame}], depth : Nat]

LEMMA SlotOf ==
  ASSUME NEW i \in Nat
  PROVE  i % TraceSize \in Slots
BY ModParts, TraceSizeAssumption DEF Slots

LEMMA NewHolds == NewTrace \in Ring({}) /\ Holds(NewTrace, <<>>, 0)
BY TraceSizeAssumption DEF NewTrace, Holds, Ring, Slots

(* Record puts the frame of one more call into its slot, over that of the  *)
(* oldest call in the ring if it is full.                                  *)
LEMMA RecordHolds ==
  ASSUME NEW K, NEW trace \in Ring(K), NEW under \in Seq(K), NEW low, Holds(trace, under, low),
         NEW frame \in K
  PROVE  /\ Record(trace, frame) \in Ring(K)
         /\ Holds(Record(trace, frame), Append(under, frame),
                  IF (Len(under) + 1) - low > TraceSize THEN low + 1 ELSE low)
<1> DEFINE d    == Len(under)
           at   == d % TraceSize
           l    == IF (d + 1) - low > TraceSize THEN low + 1 ELSE low
           new  == Append(under, frame)
<1>1. d \in Nat /\ low \in Nat /\ low <= d /\ d - low <= TraceSize /\ TraceSize \in Nat \ {0}
  BY LenProperties, TraceSizeAssumption DEF Holds
<1>2. /\ trace.frames \in [Slots -> K \cup {NoFrame}] /\ trace.depth = d /\ at \in Slots
      /\ \A i \in (low + 1)..d : trace.frames[(i - 1) % TraceSize] = under[i]
      /\ \A s \in Slots :
           (\A i \in (low + 1)..d : s # (i - 1) % TraceSize) => trace.frames[s] = NoFrame
  BY <1>1, SlotOf DEF Holds, Ring
<1>3. new \in Seq(K) /\ Len(new) = d + 1 /\ new[d + 1] = frame /\ \A i \in 1..d : new[i] = under[i]
  OBVIOUS
<1>4. /\ Record(trace, frame).frames = [trace.frames EXCEPT ![at] = frame]
      /\ Record(trace, frame).depth = d + 1
      /\ Record(trace, frame) \in Ring(K)
  <2>1. Record(trace, frame) = [frames |-> [trace.frames EXCEPT ![at] = frame], depth |-> d + 1]
    <3>1. at = trace.depth % TraceSize /\ trace = [frames |-> trace.frames, depth |-> trace.depth]
      BY <1>2 DEF Ring
    <3>2. Record(trace, frame) = [trace EXCEPT !.frames[at] = frame, !.depth = @ + 1]
      BY <3>1, Zenon DEF Record
    <3> HIDE DEF at, d
    <3> QED
      BY <1>2, <3>1, <3>2
  <2>2. [trace.frames EXCEPT ![at] = frame] \in [Slots -> K \cup {NoFrame}]
    BY <1>2
  <2> HIDE DEF at, d
  <2> QED
    BY <1>1, <2>1, <2>2 DEF Ring
<1>5. l \in 0..(d + 1) /\ d + 1 - l <= TraceSize /\ low <= l /\ l <= d
      /\ (l = low \/ (l = low + 1 /\ d - low = TraceSize))
  BY <1>1
<1> HIDE DEF d, at, l, new
<1>6. ASSUME NEW i \in (l + 1)..(d + 1)
      PROVE  [trace.frames EXCEPT ![at] = frame][(i - 1) % TraceSize] = new[i]
  <2>1. i \in Nat /\ i - 1 \in Nat /\ (i - 1) % TraceSize \in Slots /\ l \in Nat
    <3>1. i \in Nat /\ i - 1 \in Nat /\ l \in Nat
      BY <1>1, <1>5
    <3> QED
      BY <3>1, SlotOf
  <2>2. CASE i = d + 1
    <3>1. (i - 1) % TraceSize = at
      BY <1>1, <2>2 DEF at
    <3> QED
      BY <1>2, <1>3, <2>2, <3>1
  <2>3. CASE i # d + 1
    <3>1. i \in (low + 1)..d /\ i \in 1..d /\ i - 1 < d /\ d < i - 1 + TraceSize
      BY <1>1, <1>5, <2>1, <2>3
    <3>2. (i - 1) % TraceSize # at
      BY <1>1, <2>1, <3>1, ModDiffers DEF at
    <3> QED
      BY <1>2, <1>3, <2>1, <3>1, <3>2
  <2> QED
    BY <2>2, <2>3
<1>7. ASSUME NEW s \in Slots, \A i \in (l + 1)..(d + 1) : s # (i - 1) % TraceSize
      PROVE  [trace.frames EXCEPT ![at] = frame][s] = NoFrame
  <2>1. s # at
    <3>1. d + 1 \in (l + 1)..(d + 1) /\ (d + 1) - 1 = d
      BY <1>1, <1>5
    <3> QED
      BY <1>7, <3>1 DEF at
  <2>2. ASSUME NEW i \in (low + 1)..d
        PROVE  s # (i - 1) % TraceSize
    <3>1. CASE i >= l + 1
      <4>1. i \in (l + 1)..(d + 1)
        BY <1>1, <1>5, <3>1
      <4> QED
        BY <1>7, <4>1
    <3>2. CASE ~(i >= l + 1)
      <4>1. i - 1 = low /\ d = low + TraceSize
        BY <1>1, <1>5, <3>2
      <4>2. (low + TraceSize) % TraceSize = low % TraceSize
        BY <1>1, ModAround
      <4> QED
        BY <2>1, <4>1, <4>2 DEF at
    <3> QED
      BY <3>1, <3>2
  <2> QED
    BY <1>2, <2>1, <2>2
<1>8. DOMAIN [trace.frames EXCEPT ![at] = frame] = Slots
  BY <1>2
<1>9. Holds(Record(trace, frame), new, l)
  <2>1. \A i \in (l + 1)..(d + 1) : Record(trace, frame).frames[(i - 1) % TraceSize] = new[i]
    BY <1>4, <1>6, Zenon
  <2>2. \A s \in Slots : (\A i \in (l + 1)..(d + 1) : s # (i - 1) % TraceSize) =>
                          Record(trace, frame).frames[s] = NoFrame
    BY <1>4, <1>7, Zenon
  <2>3. DOMAIN Record(trace, frame).frames = Slots
    BY <1>4, <1>8, Zenon
  <2>4. /\ Record(trace, frame).depth = Len(new)
        /\ l \in 0..Len(new) /\ Len(new) - l <= TraceSize
        /\ \A i \in (l + 1)..Len(new) : Record(trace, frame).frames[(i - 1) % TraceSize] = new[i]
        /\ \A s \in Slots : (\A i \in (l + 1)..Len(new) : s # (i - 1) % TraceSize) =>
                             Record(trace, frame).frames[s] = NoFrame
    <3>1. Len(new) = d + 1 /\ Record(trace, frame).depth = d + 1
      BY <1>3, <1>4
    <3>2. l \in 0..(d + 1) /\ d + 1 - l <= TraceSize
      BY <1>5
    <3>3. \A i \in (l + 1)..Len(new) : Record(trace, frame).frames[(i - 1) % TraceSize] = new[i]
      BY <2>1, <3>1, Zenon
    <3>4. \A s \in Slots : (\A i \in (l + 1)..Len(new) : s # (i - 1) % TraceSize) =>
                            Record(trace, frame).frames[s] = NoFrame
      BY <2>2, <3>1, Zenon
    <3>5. l \in 0..Len(new) /\ Len(new) - l <= TraceSize
      <4>1. Len(new) = d + 1
        BY <3>1
      <4>2. l \in 0..Len(new)
        BY <3>2, <4>1, Zenon
      <4>3. (d + 1) - l <= TraceSize
        BY <1>1, <3>2
      <4> QED
        BY <4>1, <4>2, <4>3, Zenon
    <3>6. Record(trace, frame).depth = Len(new)
      BY <3>1, Zenon
    <3> QED
      BY <3>3, <3>4, <3>5, <3>6, Zenon
  <2> QED
    BY <2>3, <2>4, Zenon DEF Holds
<1> QED
  BY <1>4, <1>9 DEF l, new, d

(* Pop clears the slots of the newest calls. *)
LEMMA PopHolds ==
  ASSUME NEW K, NEW trace \in Ring(K), NEW under \in Seq(K), NEW low, Holds(trace, under, low),
         NEW n \in 0..Len(under)
  PROVE  /\ Pop(trace, n) \in Ring(K)
         /\ Holds(Pop(trace, n), SubSeq(under, 1, Len(under) - n),
                  IF low <= Len(under) - n THEN low ELSE Len(under) - n)
<1> DEFINE d      == Len(under)
           e      == d - n
           l      == IF low <= e THEN low ELSE e
           popped == {(trace.depth - i) % TraceSize : i \in 1..n}
           new    == SubSeq(under, 1, e)
<1>1. /\ d \in Nat /\ low \in Nat /\ low <= d /\ d - low <= TraceSize /\ TraceSize \in Nat \ {0}
      /\ e \in 0..d /\ e \in Nat /\ n = d - e /\ n \in Nat
  BY LenProperties, TraceSizeAssumption DEF Holds
<1>2. /\ trace.frames \in [Slots -> K \cup {NoFrame}] /\ trace.depth = d
      /\ \A i \in (low + 1)..d : trace.frames[(i - 1) % TraceSize] = under[i]
      /\ \A s \in Slots :
           (\A i \in (low + 1)..d : s # (i - 1) % TraceSize) => trace.frames[s] = NoFrame
  BY <1>1 DEF Holds, Ring
<1>3. new \in Seq(K) /\ Len(new) = e /\ \A i \in 1..e : new[i] = under[i]
  BY <1>1, SubSeqProperties
<1>4. l \in 0..e /\ e - l <= TraceSize /\ l <= low /\ (l = low \/ l = e)
  BY <1>1
<1> DEFINE left == [s \in Slots |-> IF s \in popped THEN NoFrame ELSE trace.frames[s]]
<1>5. Pop(trace, n).frames = left /\ Pop(trace, n).depth = e /\ Pop(trace, n) \in Ring(K)
  <2>1. DOMAIN trace.frames = Slots
    BY <1>2
  <2>2. Pop(trace, n) = [frames |-> left, depth |-> e]
    BY <1>2, <2>1, Zenon DEF Pop
  <2>3. left \in [Slots -> K \cup {NoFrame}]
    BY <1>2
  <2> HIDE DEF left
  <2> QED
    BY <1>1, <2>2, <2>3 DEF Ring
<1>6. \A s : s \in popped <=> \E i \in (e + 1)..d : s = (i - 1) % TraceSize
  <2>1. \A i \in 1..n : (d - i) + 1 \in (e + 1)..d /\ ((d - i) + 1) - 1 = d - i
    BY <1>1
  <2>2. \A i \in (e + 1)..d : (d - i) + 1 \in 1..n /\ d - ((d - i) + 1) = i - 1
    BY <1>1
  <2>3. ASSUME NEW i \in 1..n
        PROVE  \E j \in (e + 1)..d : (trace.depth - i) % TraceSize = (j - 1) % TraceSize
    BY <1>2, <2>1
  <2>4. ASSUME NEW i \in (e + 1)..d
        PROVE  \E j \in 1..n : (i - 1) % TraceSize = (trace.depth - j) % TraceSize
    BY <1>2, <2>2
  <2> HIDE DEF d, e
  <2> QED
    BY <2>3, <2>4, Zenon
<1> HIDE DEF d, e, l, new, popped
<1>7. ASSUME NEW i \in (l + 1)..e
      PROVE  left[(i - 1) % TraceSize] = new[i]
  <2>1. i \in Nat /\ i - 1 \in Nat /\ (i - 1) % TraceSize \in Slots /\ i \in (low + 1)..d /\ i \in 1..e
    <3>1. i \in Nat /\ i - 1 \in Nat /\ i \in (low + 1)..d /\ i \in 1..e
      BY <1>1, <1>4
    <3> QED
      BY <3>1, SlotOf
  <2>2. ASSUME NEW j \in (e + 1)..d
        PROVE  (j - 1) % TraceSize # (i - 1) % TraceSize
    <3>1. j - 1 \in Nat /\ i - 1 < j - 1 /\ j - 1 < i - 1 + TraceSize
      BY <1>1, <2>1
    <3> QED
      BY <1>1, <2>1, <3>1, ModDiffers
  <2>3. (i - 1) % TraceSize \notin popped
    BY <1>6, <2>2
  <2> QED
    BY <1>2, <1>3, <2>1, <2>3
<1>8. ASSUME NEW s \in Slots, \A i \in (l + 1)..e : s # (i - 1) % TraceSize
      PROVE  left[s] = NoFrame
  <2>1. CASE s \in popped
    BY <2>1
  <2>2. CASE s \notin popped
    <3>1. \A i \in (low + 1)..d : i \in (l + 1)..e \/ i \in (e + 1)..d
      BY <1>1, <1>4
    <3>2. \A i \in (low + 1)..d : s # (i - 1) % TraceSize
      BY <1>6, <1>8, <2>2, <3>1
    <3> QED
      BY <1>2, <2>2, <3>2
  <2> QED
    BY <2>1, <2>2
<1>9. DOMAIN left = Slots
  OBVIOUS
<1> HIDE DEF left
<1>10. Holds(Pop(trace, n), new, l)
  BY <1>3, <1>4, <1>5, <1>7, <1>8, <1>9 DEF Holds
<1> QED
  BY <1>5, <1>10 DEF l, new, e, d

(* Once around the ring: the calls that it has, in their order.            *)
LEMMA FramesShown ==
  ASSUME NEW K, NoFrame \notin K, NEW trace \in Ring(K), NEW under \in Seq(K), NEW low,
         Holds(trace, under, low)
  PROVE  Frames(trace) = SubSeq(under, low + 1, Len(under))
<1> DEFINE d    == Len(under)
           n    == TraceSize
           M    == TraceSize + 1
           At(k) == (trace.depth + (k - 1)) % TraceSize
           b(k) == IF d + k > low + n THEN d + k - n ELSE low + 1
           w    == [k \in 1..M |-> SubSeq(under, b(k), d)]
           Of(f) == [k \in 1..M |-> FramesFrom(f, trace, k)]
<1>1. /\ d \in Nat /\ low \in Nat /\ low <= d /\ d - low <= n /\ n \in Nat \ {0}
      /\ M \in Nat /\ M = n + 1 /\ trace.depth = d
  BY LenProperties, TraceSizeAssumption DEF Holds
<1>2. /\ \A i \in (low + 1)..d : trace.frames[(i - 1) % n] = under[i]
      /\ \A s \in Slots :
           (\A i \in (low + 1)..d : s # (i - 1) % n) => trace.frames[s] = NoFrame
  BY DEF Holds
<1> HIDE DEF d, n, M
<1>3. ASSUME NEW k \in 1..n
      PROVE  IF d + k > low + n
             THEN /\ d + k - n \in (low + 1)..d
                  /\ trace.frames[At(k)] = under[d + k - n]
             ELSE trace.frames[At(k)] = NoFrame
  <2>1. d + (k - 1) \in Nat /\ k - 1 \in Nat /\ At(k) = (d + (k - 1)) % TraceSize
    BY <1>1
  <2>2. CASE d + k > low + n
    <3> DEFINE i == d + k - n
    <3>1. i \in (low + 1)..d /\ i - 1 \in Nat /\ (i - 1) + n = d + (k - 1)
      BY <1>1, <2>2
    <3>2. ((i - 1) + n) % n = (i - 1) % n
      BY <1>1, <3>1, ModAround
    <3>3. At(k) = (i - 1) % n
      BY <2>1, <3>1, <3>2, Zenon DEF n
    <3>4. trace.frames[At(k)] = under[i]
      BY <1>2, <3>1, <3>3, Zenon
    <3> QED
      BY <2>2, <3>1, <3>4
  <2>3. CASE ~(d + k > low + n)
    <3>1. ASSUME NEW i \in (low + 1)..d
          PROVE  At(k) # (i - 1) % n
      <4>1. i - 1 \in Nat /\ i - 1 < d + (k - 1) /\ d + (k - 1) < (i - 1) + n
        BY <1>1, <2>3
      <4>2. (i - 1) % n # (d + (k - 1)) % n
        BY <1>1, <2>1, <4>1, ModDiffers
      <4> QED
        BY <2>1, <4>2, Zenon DEF n
    <3>2. At(k) \in Slots
      BY <2>1, SlotOf, Zenon
    <3> QED
      BY <1>2, <2>3, <3>1, <3>2, Zenon
  <2> QED
    BY <2>2, <2>3
<1>4. \A k \in 1..M : b(k) \in (low + 1)..(d + 1)
  BY <1>1
<1>5. \A k \in 1..n : b(k + 1) = IF d + k > low + n THEN b(k) + 1 ELSE b(k)
  BY <1>1
<1>6. b(M) = d + 1 /\ b(1) = low + 1
  BY <1>1
<1>7. \A i \in 1..d : under[i] \in K /\ under[i] # NoFrame
  BY DEF d
<1>8. \A i \in 1..d : SubSeq(under, i, d) = <<under[i]>> \o SubSeq(under, i + 1, d)
  <2>1. SUFFICES ASSUME NEW i \in 1..d
                 PROVE  SubSeq(under, i, d) = <<under[i]>> \o SubSeq(under, i + 1, d)
    OBVIOUS
  <2> QED
    BY <1>1 DEF d
<1>9. SubSeq(under, d + 1, d) = <<>> /\ \A i \in 1..(d + 1) : SubSeq(under, i, d) \in Seq(K)
  BY <1>1 DEF d
<1> HIDE DEF At, b
<1>10. ASSUME NEW f, NEW k \in 1..M, k <= n => f[k + 1] = w[k + 1]
       PROVE  FramesFrom(f, trace, k) = w[k]
  <2>1. w[k] = SubSeq(under, b(k), d)
    BY DEF w
  <2>2. CASE k = M
    <3>1. k > TraceSize
      BY <1>1, <2>2 DEF n
    <3>2. w[k] = <<>>
      BY <1>6, <1>9, <2>1, <2>2, Zenon
    <3> QED
      BY <3>1, <3>2, Zenon DEF FramesFrom
  <2>3. CASE k # M
    <3>1. k \in 1..n /\ k + 1 \in 1..M /\ ~(k > TraceSize)
      BY <1>1, <2>3 DEF n
    <3>2. f[k + 1] = SubSeq(under, b(k + 1), d)
      BY <1>10, <1>1, <3>1
    <3>3. FramesFrom(f, trace, k) =
            (IF trace.frames[At(k)] = NoFrame THEN <<>> ELSE <<trace.frames[At(k)]>>) \o f[k + 1]
      BY <3>1, Zenon DEF FramesFrom, At
    <3>4. CASE d + k > low + n
      <4>1. b(k) = d + k - n /\ b(k + 1) = b(k) + 1 /\ b(k) \in 1..d
        BY <1>1, <1>3, <1>5, <3>1, <3>4 DEF b
      <4>2. trace.frames[At(k)] = under[b(k)] /\ under[b(k)] # NoFrame
        BY <1>3, <1>7, <3>1, <3>4, <4>1, Zenon
      <4>3. FramesFrom(f, trace, k) = <<under[b(k)]>> \o SubSeq(under, b(k) + 1, d)
        BY <3>2, <3>3, <4>1, <4>2, Zenon
      <4> QED
        BY <1>8, <2>1, <4>1, <4>3, Zenon
    <3>5. CASE ~(d + k > low + n)
      <4>1. b(k + 1) = b(k) /\ b(k) \in 1..(d + 1)
        BY <1>1, <1>4, <1>5, <3>1, <3>5
      <4>2. FramesFrom(f, trace, k) = <<>> \o SubSeq(under, b(k), d)
        BY <1>3, <3>1, <3>2, <3>3, <3>5, <4>1, Zenon
      <4>3. SubSeq(under, b(k), d) \in Seq(K)
        BY <1>9, <4>1
      <4> QED
        BY <2>1, <4>2, <4>3
    <3> QED
      BY <3>4, <3>5
  <2> QED
    BY <2>2, <2>3
<1> HIDE DEF w
<1>11. \A k \in 1..M : k <= n => k + 1 \in 1..M
  BY <1>1
<1>12. w = Of(w)
  <2>1. \A k \in 1..M : FramesFrom(w, trace, k) = w[k]
    BY <1>10
  <2>2. w = [k \in 1..M |-> w[k]]
    BY DEF w
  <2> QED
    BY <2>1, <2>2
<1>13. ASSUME NEW f, f = Of(f)
       PROVE  f[1] = w[1]
  <2> DEFINE T == {k \in 1..M : f[k] = w[k]}
  <2>1. \A k \in 1..M : f[k] = FramesFrom(f, trace, k)
    BY <1>13
  <2>2. ASSUME NEW k \in 1..M, \A y \in (k + 1)..M : y \in T
        PROVE  k \in T
    <3>1. k <= n => k + 1 \in (k + 1)..M
      BY <1>1
    <3>2. k <= n => f[k + 1] = w[k + 1]
      BY <2>2, <3>1
    <3>3. FramesFrom(f, trace, k) = w[k]
      BY <1>10, <3>2
    <3> QED
      BY <2>1, <3>3
  <2> HIDE DEF T
  <2>3. \A k \in 1..M : k \in T
    BY <1>1, <2>2, Downwards
  <2>4. 1 \in 1..M
    BY <1>1
  <2> QED
    BY <2>3, <2>4 DEF T
<1>14. Frames(trace) = w[1]
  <2> DEFINE f == CHOOSE f : f = Of(f)
  <2>1. f = Of(f)
    BY <1>12, Zenon
  <2>2. Frames(trace) = f[1]
    BY Zenon DEF Frames, M
  <2> HIDE DEF f, Of
  <2> QED
    BY <1>13, <2>1, <2>2, Zenon
<1> QED
  <2>1. 1 \in 1..M
    BY <1>1
  <2> QED
    BY <1>6, <1>14, <2>1 DEF w, d

(* The trace of the calls under way, for a ring of any size and calls to   *)
(* any depth: starting from NewTrace, whatever Record and Pop do, the ring *)
(* holds the calls from low + 1 on, and Frames gives exactly these, the    *)
(* newest calls in their order and none that has returned, though frames   *)
(* were overwritten and the slots of popped calls are cleared around the   *)
(* end of the ring.  Only a Record into a full ring moves low forward: as  *)
(* long as there never were more calls than slots it is 0, and all calls   *)
(* are shown.                                                              *)
THEOREM TraceRing ==
  ASSUME NEW K, NoFrame \notin K
  PROVE  /\ NewTrace \in Ring(K) /\ Holds(NewTrace, <<>>, 0)
         /\ \A trace \in Ring(K), under \in Seq(K) : \A low :
              Holds(trace, under, low) =>
                /\ Frames(trace) = SubSeq(under, low + 1, Len(under))
                /\ \A frame \in K :
                     /\ Record(trace, frame) \in Ring(K)
                     /\ Holds(Record(trace, frame), Append(under, frame),
                              IF (Len(under) + 1) - low > TraceSize THEN low + 1 ELSE low)
                /\ \A n \in 0..Len(under) :
                     /\ Pop(trace, n) \in Ring(K)
                     /\ Holds(Pop(trace, n), SubSeq(under, 1, Len(under) - n),
                              IF low <= Len(under) - n THEN low ELSE Len(under) - n)
<1>1. NewTrace \in Ring(K) /\ Holds(NewTrace, <<>>, 0)
  <2>1. NewTrace \in Ring({}) /\ {} \cup {NoFrame} \subseteq K \cup {NoFrame}
    BY NewHolds
  <2> QED
    BY <2>1, NewHolds DEF Ring
<1>2. ASSUME NEW trace \in Ring(K), NEW under \in Seq(K), NEW low, Holds(trace, under, low)
      PROVE  /\ Frames(trace) = SubSeq(under, low + 1, Len(under))
             /\ \A frame \in K :
                  /\ Record(trace, frame) \in Ring(K)
                  /\ Holds(Record(trace, frame), Append(under, frame),
                           IF (Len(under) + 1) - low > TraceSize THEN low + 1 ELSE low)
             /\ \A n \in 0..Len(under) :
                  /\ Pop(trace, n) \in Ring(K)
                  /\ Holds(Pop(trace, n), SubSeq(under, 1, Len(under) - n),
                           IF low <= Len(under) - n THEN low ELSE Len(under) - n)
  <2>1. Frames(trace) = SubSeq(under, low + 1, Len(under))
    BY <1>2, FramesShown, Zenon
  <2>2. ASSUME NEW frame \in K
        PROVE  /\ Record(trace, frame) \in Ring(K)
               /\ Holds(Record(trace, frame), Append(under, frame),
                        IF (Len(under) + 1) - low > TraceSize THEN low + 1 ELSE low)
    BY <1>2, RecordHolds, Zenon
  <2>3. ASSUME NEW n \in 0..Len(under)
        PROVE  /\ Pop(trace, n) \in Ring(K)
               /\ Holds(Pop(trace, n), SubSeq(under, 1, Len(under) - n),
                        IF low <= Len(under) - n THEN low ELSE Len(under) - n)
    BY <1>2, PopHolds, Zenon
  <2> QED
    BY <2>1, <2>2, <2>3, Zenon
<1> QED
  BY <1>1, <1>2, Zenon
-----------------------------------------------------------------------------
(* A slice of V over an array in h, or nil.                                *)
SliceOf(V, h, s) ==
  /\ s \in [arr : 0..Len(h), len : Nat]
  /\ s.arr > 0 => h[s.arr] \in Seq(V)
  /\ s.len <= Capacity(h, s)

(* A slice in a heap that may have grown since, and where the cells of     *)
(* arrays behind the slice may have been written.                          *)
Untouched(V, h, g, s) ==
  /\ SliceOf(V, h, s)
  /\ Len(h) \in Nat /\ Len(g) \in Nat /\ Len(h) <= Len(g)
  /\ s.arr > 0 => /\ g[s.arr] \in Seq(V) /\ Len(g[s.arr]) = Len(h[s.arr])
                  /\ \A k \in 1..s.len : g[s.arr][k] = h[s.arr][k]

StillReads(V, h, g, s) == SliceOf(V, g, s) /\ Cells(g, s) = Cells(h, s)

LEMMA SliceStays ==
  ASSUME NEW V, NEW h, NEW g, NEW s, Untouched(V, h, g, s)
  PROVE  StillReads(V, h, g, s)
<1>1. s \in [arr : 0..Len(h), len : Nat] /\ s.arr \in 0..Len(h) /\ s.len \in Nat
      /\ s.len <= Capacity(h, s) /\ Len(h) \in Nat /\ Len(g) \in Nat
  BY DEF SliceOf, Untouched
<1>2. s \in [arr : 0..Len(g), len : Nat]
  BY <1>1 DEF Untouched
<1>3. s.arr = 0 \/ s.arr > 0
  BY <1>1
<1>4. Capacity(g, s) = Capacity(h, s)
  BY <1>1, <1>3 DEF Capacity, Untouched
<1>5. Cells(g, s) = Cells(h, s)
  <2>1. CASE s.arr = 0
    <3>1. s.len = 0
      BY <1>1, <2>1 DEF Capacity
    <3> QED
      BY <3>1 DEF Cells
  <2>2. CASE s.arr > 0
    BY <2>2 DEF Cells, Untouched
  <2> QED
    BY <1>3, <2>1, <2>2
<1> QED
  BY <1>1, <1>2, <1>4, <1>5 DEF SliceOf, Untouched, StillReads

(* What a slice reads is as long as the slice.                             *)
LEMMA CellsOf ==
  ASSUME NEW V, NEW H, NEW h \in Seq(H), NEW s, SliceOf(V, h, s)
  PROVE  /\ Cells(h, s) \in Seq(V) /\ Len(Cells(h, s)) = s.len
         /\ Capacity(h, s) \in Nat
<1>1. s.arr \in 0..Len(h) /\ s.len \in Nat /\ s.len <= Capacity(h, s) /\ Len(h) \in Nat
      /\ (s.arr > 0 => h[s.arr] \in Seq(V))
  BY DEF SliceOf
<1>2. CASE s.arr = 0
  <2>1. s.len = 0 /\ Capacity(h, s) = 0
    BY <1>1, <1>2 DEF Capacity
  <2> QED
    BY <2>1 DEF Cells
<1>3. CASE s.arr > 0
  <2>1. /\ h[s.arr] \in Seq(V) /\ Capacity(h, s) = Len(h[s.arr])
        /\ s.len <= Len(h[s.arr]) /\ Len(h[s.arr]) \in Nat
    BY <1>1, <1>3 DEF Capacity
  <2>2. \A k \in 1..s.len : h[s.arr][k] \in V
    BY <1>1, <2>1
  <2>3. Cells(h, s) \in [1..s.len -> V]
    BY <2>2 DEF Cells
  <2> HIDE DEF Cells
  <2>4. Cells(h, s) \in Seq(V) /\ Len(Cells(h, s)) = s.len
    BY <1>1, <2>3
  <2> QED
    BY <2>1, <2>4
<1> QED
  BY <1>1, <1>2, <1>3

(* r is what append makes of a slice of V, and of some values.             *)
AppendOf(H, V, h, s, vals, r) ==
  /\ h \in Seq(H) /\ SliceOf(V, h, s) /\ Unset \in V
  /\ vals \in Seq(V) /\ vals # <<>>
  /\ r = AppendTo(h, s, vals)

(* There is room for values behind a slice.                                *)
InPlace(h, s, vals) == vals # <<>> /\ s.len + Len(vals) <= Capacity(h, s)

(* What append has done without room, and with room.                       *)
InNewArray(H, V, h, s, vals, r) ==
  /\ r.heap \in Seq(H \cup Seq(V)) /\ Len(r.heap) = Len(h) + 1
  /\ \A k \in 1..Len(h) : r.heap[k] = h[k]
  /\ SliceOf(V, r.heap, r.slice) /\ r.slice.arr = Len(h) + 1
  /\ r.slice.len = s.len + Len(vals)
  /\ Cells(r.heap, r.slice) = Cells(h, s) \o vals

(* append without room: a new array, and nothing else changes.             *)
LEMMA AppendGrows ==
  ASSUME NEW H, NEW V, NEW h, NEW s, NEW vals, NEW r, AppendOf(H, V, h, s, vals, r),
         ~InPlace(h, s, vals)
  PROVE  InNewArray(H, V, h, s, vals, r)
<1> DEFINE len == s.len + Len(vals)
           all == Cells(h, s) \o vals
           cap == Grown(Capacity(h, s), len)
           arr == [k \in 1..cap |-> IF k <= len THEN all[k] ELSE Unset]
<1>0. /\ h \in Seq(H) /\ SliceOf(V, h, s) /\ Unset \in V
      /\ vals \in Seq(V) /\ vals # <<>> /\ r = AppendTo(h, s, vals)
      /\ ~(s.len + Len(vals) <= Capacity(h, s))
  BY DEF AppendOf, InPlace
<1>1. /\ Cells(h, s) \in Seq(V) /\ Len(Cells(h, s)) = s.len /\ Capacity(h, s) \in Nat
      /\ s.len \in Nat
  BY <1>0, CellsOf DEF SliceOf
<1>2. all \in Seq(V) /\ Len(all) = len /\ len \in Nat
  <2>1. Cells(h, s) \in Seq(V) /\ vals \in Seq(V) /\ Len(vals) \in Nat
    BY <1>0, <1>1, LenProperties
  <2>2. all \in Seq(V) /\ Len(all) = Len(Cells(h, s)) + Len(vals)
    BY <2>1, ConcatProperties
  <2> QED
    BY <1>1, <2>1, <2>2
<1>3. r.heap = Append(h, arr) /\ r.slice = [arr |-> Len(h) + 1, len |-> len]
  BY <1>0, Zenon DEF AppendTo
<1>30. ~(len <= Capacity(h, s))
  BY <1>0
<1> HIDE DEF len, all
<1>4. cap \in Nat /\ len <= cap
  BY <1>1, <1>2, <1>30 DEF Grown
<1> HIDE DEF cap
<1>5. arr \in Seq(V) /\ Len(arr) = cap /\ \A k \in 1..len : arr[k] = all[k]
  <2>1. \A k \in 1..cap : k <= len => all[k] \in V
    BY <1>2, <1>4
  <2>2. arr \in [1..cap -> V]
    BY <1>0, <2>1
  <2>3. \A k \in 1..len : arr[k] = all[k]
    BY <1>2, <1>4
  <2> HIDE DEF arr
  <2> QED
    BY <1>4, <2>2, <2>3
<1> HIDE DEF arr
<1>6. /\ Append(h, arr) \in Seq(H \cup Seq(V)) /\ Len(Append(h, arr)) = Len(h) + 1
      /\ Append(h, arr)[Len(h) + 1] = arr /\ \A k \in 1..Len(h) : Append(h, arr)[k] = h[k]
      /\ Len(h) \in Nat
  <2>1. h \in Seq(H \cup Seq(V)) /\ arr \in H \cup Seq(V)
    BY <1>0, <1>5
  <2> QED
    BY <2>1
<1>7. r.slice.arr = Len(h) + 1 /\ r.slice.len = len /\ r.slice \in [arr : 0..(Len(h) + 1), len : Nat]
  BY <1>2, <1>3, <1>6
<1>8. SliceOf(V, r.heap, r.slice)
  <2>1. Capacity(r.heap, r.slice) = cap /\ r.heap[r.slice.arr] = arr
    BY <1>3, <1>5, <1>6, <1>7 DEF Capacity
  <2> QED
    BY <1>3, <1>4, <1>5, <1>6, <1>7, <2>1 DEF SliceOf
<1>9. Cells(r.heap, r.slice) = all
  <2>1. Cells(r.heap, r.slice) = [k \in 1..len |-> arr[k]]
    BY <1>3, <1>6, <1>7 DEF Cells
  <2>2. all = [k \in 1..len |-> all[k]]
    BY <1>2
  <2> QED
    BY <1>5, <2>1, <2>2
<1> QED
  BY <1>3, <1>6, <1>7, <1>8, <1>9 DEF all, len, InNewArray

(* What append has done with room.                                         *)
InSameArray(H, V, h, s, vals, r) ==
  /\ s.arr \in 1..Len(h)
  /\ r.heap \in Seq(H \cup Seq(V)) /\ Len(r.heap) = Len(h)
  /\ \A k \in 1..Len(h) : k # s.arr => r.heap[k] = h[k]
  /\ r.heap[s.arr] \in Seq(V) /\ Len(r.heap[s.arr]) = Len(h[s.arr])
  /\ \A k \in 1..s.len : r.heap[s.arr][k] = h[s.arr][k]
  /\ SliceOf(V, r.heap, r.slice) /\ r.slice.arr = s.arr
  /\ r.slice.len = s.len + Len(vals)
  /\ Cells(r.heap, r.slice) = Cells(h, s) \o vals

(* append with room: the cells after those of s are overwritten.           *)
LEMMA AppendInPlace ==
  ASSUME NEW H, NEW V, NEW h, NEW s, NEW vals, NEW r, AppendOf(H, V, h, s, vals, r),
         InPlace(h, s, vals)
  PROVE  InSameArray(H, V, h, s, vals, r)
<1> DEFINE len == s.len + Len(vals)
           all == Cells(h, s) \o vals
           old == h[s.arr]
           new == all \o SubSeq(old, len + 1, Len(old))
<1>0. /\ h \in Seq(H) /\ SliceOf(V, h, s)
      /\ vals \in Seq(V) /\ vals # <<>> /\ r = AppendTo(h, s, vals)
      /\ s.len + Len(vals) <= Capacity(h, s)
  BY DEF AppendOf, InPlace
<1>1. /\ Cells(h, s) \in Seq(V) /\ Len(Cells(h, s)) = s.len /\ Capacity(h, s) \in Nat
      /\ s.len \in Nat /\ s.arr \in 0..Len(h) /\ Len(h) \in Nat
      /\ s \in [arr : 0..Len(h), len : Nat]
      /\ (s.arr > 0 => old \in Seq(V))
  BY <1>0, CellsOf DEF SliceOf
<1>2. all \in Seq(V) /\ Len(all) = len /\ len \in Nat /\ len > 0
  <2>1. Len(vals) \in Nat /\ Len(vals) # 0
    BY <1>0, EmptySeq, LenProperties
  <2>2. all \in Seq(V) /\ Len(all) = Len(Cells(h, s)) + Len(vals)
    <3>1. Cells(h, s) \in Seq(V) /\ vals \in Seq(V)
      BY <1>0, <1>1
    <3> HIDE DEF old, new, len
    <3> QED
      BY <3>1, ConcatProperties
  <2> QED
    BY <1>1, <2>1, <2>2
<1>3. s.arr > 0 /\ s.arr \in 1..Len(h) /\ old \in Seq(V) /\ len <= Len(old) /\ Len(old) \in Nat
  <2>1. s.arr # 0
    BY <1>0, <1>2 DEF Capacity
  <2>2. s.arr > 0 /\ s.arr \in 1..Len(h)
    BY <1>1, <2>1
  <2>3. Capacity(h, s) = Len(old)
    BY <2>1 DEF Capacity
  <2> QED
    BY <1>0, <1>1, <2>2, <2>3
<1>4. r.heap = [h EXCEPT ![s.arr] = new] /\ r.slice = [s EXCEPT !.len = len]
  BY <1>0, Zenon DEF AppendTo
<1>5. \A k \in 1..s.len : all[k] = old[k]
  <2>1. \A k \in 1..s.len : Cells(h, s)[k] = old[k]
    BY DEF Cells
  <2>2. \A k \in 1..s.len : all[k] = Cells(h, s)[k]
    BY <1>1
  <2> QED
    BY <2>1, <2>2
<1> HIDE DEF len, all, old
<1>6. new \in Seq(V) /\ Len(new) = Len(old) /\ \A k \in 1..len : new[k] = all[k]
  <2> DEFINE rest == SubSeq(old, len + 1, Len(old))
  <2>1. rest \in Seq(V) /\ Len(rest) = Len(old) - len
    BY <1>2, <1>3
  <2> HIDE DEF rest
  <2>2. all \o rest \in Seq(V) /\ Len(all \o rest) = Len(all) + Len(rest)
    BY <1>2, <2>1, ConcatProperties
  <2>3. \A k \in 1..Len(all) : (all \o rest)[k] = all[k]
    BY <1>2, <2>1, ConcatProperties
  <2>4. new = all \o rest
    BY DEF rest
  <2> HIDE DEF new
  <2>5. new \in Seq(V)
    BY <2>2, <2>4, Zenon
  <2>6. Len(new) = Len(old)
    <3>1. Len(all) + Len(rest) = Len(old)
      BY <1>2, <1>3, <2>1
    <3> QED
      BY <2>2, <2>4, <3>1, Zenon
  <2>7. \A k \in 1..len : new[k] = all[k]
    BY <1>2, <2>3, <2>4, Zenon
  <2> QED
    BY <2>5, <2>6, <2>7
<1> HIDE DEF new
<1>7. /\ r.heap \in Seq(H \cup Seq(V)) /\ Len(r.heap) = Len(h) /\ r.heap[s.arr] = new
      /\ \A k \in 1..Len(h) : k # s.arr => r.heap[k] = h[k]
  <2>1. h \in Seq(H \cup Seq(V)) /\ new \in H \cup Seq(V)
    BY <1>0, <1>6
  <2>2. h \in [1..Len(h) -> H \cup Seq(V)]
    BY <2>1
  <2> DEFINE g == [h EXCEPT ![s.arr] = new]
  <2>3. /\ g \in [1..Len(h) -> H \cup Seq(V)] /\ g[s.arr] = new
        /\ \A k \in 1..Len(h) : k # s.arr => g[k] = h[k]
    BY <1>3, <2>1, <2>2
  <2>4. r.heap = g
    BY <1>4
  <2> HIDE DEF g
  <2>5. g \in Seq(H \cup Seq(V)) /\ Len(g) = Len(h)
    BY <1>1, <2>3
  <2> QED
    BY <2>3, <2>4, <2>5
<1>8. r.slice.arr = s.arr /\ r.slice.len = len /\ r.slice \in [arr : 0..Len(h), len : Nat]
  BY <1>1, <1>2, <1>4
<1>9. SliceOf(V, r.heap, r.slice)
  <2>1. Capacity(r.heap, r.slice) = Len(old) /\ r.heap[r.slice.arr] = new
    BY <1>3, <1>6, <1>7, <1>8 DEF Capacity
  <2> QED
    BY <1>3, <1>6, <1>7, <1>8, <2>1 DEF SliceOf
<1>10. Cells(r.heap, r.slice) = all
  <2>1. Cells(r.heap, r.slice) = [k \in 1..len |-> new[k]]
    BY <1>7, <1>8 DEF Cells
  <2>2. all = [k \in 1..len |-> all[k]]
    BY <1>2
  <2> QED
    BY <1>6, <2>1, <2>2
<1>11. \A k \in 1..s.len : new[k] = old[k]
  <2>1. \A k \in 1..s.len : k \in 1..len
    BY <1>1 DEF len
  <2> QED
    BY <1>5, <1>6, <2>1
<1> QED
  BY <1>3, <1>6, <1>7, <1>8, <1>9, <1>10, <1>11 DEF len, all, old, InSameArray

-----------------------------------------------------------------------------
(* Slices that were kept, each with its values when it was made, and those *)
(* of them that were appended to in place.  Of the slices of one array,    *)
(* only the longest was not.                                               *)
Shelved(H, V, h, kept, extended) ==
  /\ h \in Seq(H)
  /\ \A x \in kept : SliceOf(V, h, x.slice) /\ Cells(h, x.slice) = x.vals
  /\ \A x, y \in kept :
       x.slice.arr = y.slice.arr /\ x.slice.len < y.slice.len => x.slice \in extended

LEMMA SameSlice ==
  ASSUME NEW n, NEW s \in [arr : 0..n, len : Nat], NEW t \in [arr : 0..n, len : Nat],
         s.arr = t.arr, s.len = t.len
  PROVE  s = t
OBVIOUS

(* A slice of a new array, while the others stay.                          *)
LEMMA ShelveNew ==
  ASSUME NEW H, NEW V, NEW h, NEW kept, NEW extended, Shelved(H, V, h, kept, extended),
         NEW g \in Seq(H), Len(g) = Len(h) + 1, \A k \in 1..Len(h) : g[k] = h[k],
         NEW s, SliceOf(V, g, s), s.arr = Len(h) + 1
  PROVE  Shelved(H, V, g, kept \cup {[slice |-> s, vals |-> Cells(g, s)]}, extended)
<1> DEFINE new == [slice |-> s, vals |-> Cells(g, s)]
<1>1. h \in Seq(H) /\ Len(h) \in Nat
  BY DEF Shelved
<1>2. ASSUME NEW x \in kept
      PROVE  /\ SliceOf(V, g, x.slice) /\ Cells(g, x.slice) = x.vals
             /\ x.slice.arr < Len(h) + 1
  <2>1. SliceOf(V, h, x.slice) /\ Cells(h, x.slice) = x.vals
    BY DEF Shelved
  <2>2. x.slice.arr \in 0..Len(h) /\ (x.slice.arr > 0 => h[x.slice.arr] \in Seq(V))
    BY <2>1 DEF SliceOf
  <2>3. x.slice.arr > 0 => g[x.slice.arr] = h[x.slice.arr]
    BY <1>1, <2>2
  <2>4. SliceOf(V, g, x.slice) /\ Cells(g, x.slice) = Cells(h, x.slice)
    <3>1. Untouched(V, h, g, x.slice)
      BY <1>1, <2>1, <2>2, <2>3 DEF Untouched
    <3>2. StillReads(V, h, g, x.slice)
      BY <3>1, SliceStays, Zenon
    <3> QED
      BY <3>2, Zenon DEF StillReads
  <2> QED
    BY <1>1, <2>1, <2>2, <2>4
<1>3. new.slice = s /\ new.vals = Cells(g, s)
  OBVIOUS
<1> HIDE DEF new
<1>4. \A x \in kept \cup {new} : SliceOf(V, g, x.slice) /\ Cells(g, x.slice) = x.vals
  BY <1>2, <1>3
<1>5. ASSUME NEW x \in kept \cup {new}, NEW y \in kept \cup {new},
             x.slice.arr = y.slice.arr, x.slice.len < y.slice.len
      PROVE  x.slice \in extended
  <2>1. s.len \in Nat
    BY DEF SliceOf
  <2>2. x # new
    <3>1. SUFFICES ASSUME x = new PROVE FALSE
      OBVIOUS
    <3>2. y # new
      BY <1>3, <1>5, <2>1, <3>1
    <3> QED
      BY <1>1, <1>2, <1>3, <1>5, <3>1, <3>2
  <2>3. y # new
    BY <1>1, <1>2, <1>3, <1>5, <2>2
  <2> QED
    BY <1>5, <2>2, <2>3 DEF Shelved
<1> QED
  BY <1>4, <1>5, Zenon DEF Shelved, new

(* A slice that is appended to in place for the first time is the longest  *)
(* of its array: what is overwritten is read by no other.                  *)
LEMMA ShelveInPlace ==
  ASSUME NEW H, NEW V, Seq(V) \subseteq H, Unset \in V, NEW h, NEW kept, NEW extended,
         Shelved(H, V, h, kept, extended),
         NEW x \in kept, NEW vals \in Seq(V), InPlace(h, x.slice, vals),
         x.slice \notin extended,
         NEW r, r = AppendTo(h, x.slice, vals)
  PROVE  Shelved(H, V, r.heap, kept \cup {[slice |-> r.slice, vals |-> x.vals \o vals]},
                 extended \cup {x.slice})
<1> DEFINE s   == x.slice
           g   == r.heap
           new == [slice |-> r.slice, vals |-> x.vals \o vals]
<1>1. /\ h \in Seq(H) /\ Len(h) \in Nat /\ SliceOf(V, h, s) /\ Cells(h, s) = x.vals
      /\ s \in [arr : 0..Len(h), len : Nat]
  BY DEF Shelved, SliceOf
<1>2. vals # <<>> /\ s.len + Len(vals) <= Capacity(h, s)
  BY DEF InPlace
<1>3. /\ s.arr \in 1..Len(h)
      /\ g \in Seq(H \cup Seq(V)) /\ Len(g) = Len(h)
      /\ \A k \in 1..Len(h) : k # s.arr => g[k] = h[k]
      /\ g[s.arr] \in Seq(V) /\ Len(g[s.arr]) = Len(h[s.arr])
      /\ \A k \in 1..s.len : g[s.arr][k] = h[s.arr][k]
      /\ SliceOf(V, g, r.slice) /\ r.slice.arr = s.arr
      /\ r.slice.len = s.len + Len(vals)
      /\ Cells(g, r.slice) = Cells(h, s) \o vals
  <2>1. AppendOf(H, V, h, s, vals, r) /\ InPlace(h, s, vals)
    BY <1>1, <1>2 DEF AppendOf, InPlace
  <2> HIDE DEF s, g, new
  <2>2. InSameArray(H, V, h, s, vals, r)
    BY <2>1, AppendInPlace, Zenon
  <2> QED
    BY <2>2 DEF InSameArray, g
<1>4. g \in Seq(H)
  <2>1. H \cup Seq(V) = H
    OBVIOUS
  <2> QED
    BY <1>3, <2>1, Zenon
<1>5. \A y \in kept : y.slice.arr = s.arr => ~(s.len < y.slice.len)
  BY DEF Shelved
<1>6. ASSUME NEW y \in kept
      PROVE  /\ SliceOf(V, g, y.slice) /\ Cells(g, y.slice) = y.vals
             /\ y.slice \in [arr : 0..Len(h), len : Nat]
  <2>1. /\ SliceOf(V, h, y.slice) /\ Cells(h, y.slice) = y.vals
        /\ y.slice \in [arr : 0..Len(h), len : Nat]
        /\ (y.slice.arr > 0 => h[y.slice.arr] \in Seq(V))
    BY DEF Shelved, SliceOf
  <2>2. CASE y.slice.arr = s.arr
    <3>1. \A k \in 1..y.slice.len : k \in 1..s.len
      BY <1>1, <1>5, <2>1, <2>2
    <3>2. \A k \in 1..y.slice.len : g[y.slice.arr][k] = h[y.slice.arr][k]
      BY <1>3, <2>2, <3>1
    <3>3. SliceOf(V, g, y.slice) /\ Cells(g, y.slice) = Cells(h, y.slice)
      <4>1. Untouched(V, h, g, y.slice)
        BY <1>1, <1>3, <2>1, <2>2, <3>2 DEF Untouched
      <4>2. StillReads(V, h, g, y.slice)
        BY <4>1, SliceStays, Zenon
      <4> QED
        BY <4>2, Zenon DEF StillReads
    <3> QED
      BY <2>1, <3>3
  <2>3. CASE y.slice.arr # s.arr
    <3>1. y.slice.arr > 0 => g[y.slice.arr] = h[y.slice.arr]
      BY <1>1, <1>3, <2>1, <2>3
    <3>2. SliceOf(V, g, y.slice) /\ Cells(g, y.slice) = Cells(h, y.slice)
      <4>1. Untouched(V, h, g, y.slice)
        BY <1>1, <1>3, <2>1, <3>1 DEF Untouched
      <4>2. StillReads(V, h, g, y.slice)
        BY <4>1, SliceStays, Zenon
      <4> QED
        BY <4>2, Zenon DEF StillReads
    <3> QED
      BY <2>1, <3>2
  <2> QED
    BY <2>2, <2>3
<1>7. /\ r.slice \in [arr : 0..Len(h), len : Nat] /\ new.slice = r.slice
      /\ new.vals = Cells(g, r.slice) /\ s.len < r.slice.len
  <2>1. Len(vals) \in Nat /\ Len(vals) # 0
    BY <1>2, EmptySeq, LenProperties
  <2>2. s.len < r.slice.len
    <3> HIDE DEF s, g, new
    <3> QED
      BY <1>1, <1>3, <2>1
  <2>3. r.slice \in [arr : 0..Len(g), len : Nat]
    BY <1>3 DEF SliceOf
  <2>4. Len(g) = Len(h)
    BY <1>3, Zenon
  <2>5. new.slice = r.slice /\ new.vals = x.vals \o vals
    OBVIOUS
  <2>6. new.vals = Cells(g, r.slice)
    BY <1>1, <1>3, <2>5, Zenon
  <2> HIDE DEF s, g, new
  <2> QED
    BY <2>2, <2>3, <2>4, <2>5, <2>6, Zenon
<1> HIDE DEF s, g, new
<1>8. \A y \in kept \cup {new} : SliceOf(V, g, y.slice) /\ Cells(g, y.slice) = y.vals
  BY <1>3, <1>6, <1>7
<1>9. ASSUME NEW y \in kept \cup {new}, NEW z \in kept \cup {new},
             y.slice.arr = z.slice.arr, y.slice.len < z.slice.len
      PROVE  y.slice \in extended \cup {s}
  <2>1. CASE y \in kept /\ z \in kept
    BY <1>9, <2>1 DEF Shelved
  <2>2. CASE y \in kept /\ z = new
    <3>1. y.slice.arr = s.arr /\ ~(s.len < y.slice.len)
      BY <1>3, <1>5, <1>7, <1>9, <2>2
    <3>2. CASE y.slice.len = s.len
      <4>1. y.slice \in [arr : 0..Len(h), len : Nat] /\ s \in [arr : 0..Len(h), len : Nat]
        BY <1>1, <1>6, <2>2
      <4>2. y.slice = s
        BY <3>1, <3>2, <4>1, SameSlice
      <4> QED
        BY <4>2
    <3>3. CASE y.slice.len # s.len
      <4>1. y.slice.len < s.len
        BY <1>1, <1>6, <2>2, <3>1, <3>3
      <4> QED
        BY <2>2, <3>1, <4>1 DEF Shelved, s
    <3> QED
      BY <3>2, <3>3
  <2>3. CASE y = new /\ z \in kept
    BY <1>1, <1>3, <1>5, <1>6, <1>7, <1>9, <2>3
  <2>4. CASE y = new /\ z = new
    BY <1>7, <1>9, <2>4
  <2> QED
    BY <2>1, <2>2, <2>3, <2>4
<1> QED
  <2>1. Shelved(H, V, g, kept \cup {new}, extended \cup {s})
    BY <1>4, <1>8, <1>9, Zenon DEF Shelved
  <2> QED
    BY <2>1 DEF g, new, s

(* A slice that is there already, or is empty, is kept once more.          *)
LEMMA ShelveSame ==
  ASSUME NEW H, NEW V, NEW h, NEW kept, NEW extended, Shelved(H, V, h, kept, extended),
         NEW s, s = NilSlice \/ \E x \in kept : s = x.slice
  PROVE  Shelved(H, V, h, kept \cup {[slice |-> s, vals |-> Cells(h, s)]}, extended)
<1> DEFINE new == [slice |-> s, vals |-> Cells(h, s)]
<1>1. h \in Seq(H) /\ Len(h) \in Nat
  BY DEF Shelved
<1>2. ASSUME NEW x \in kept
      PROVE  /\ SliceOf(V, h, x.slice) /\ x.slice.len \in Nat
             /\ (x.slice.arr = 0 => x.slice.len = 0)
  <2>1. SliceOf(V, h, x.slice)
    BY DEF Shelved
  <2> QED
    BY <2>1 DEF SliceOf, Capacity
<1>3. SliceOf(V, h, s)
  <2>1. CASE s = NilSlice
    BY <1>1, <2>1 DEF NilSlice, SliceOf, Capacity
  <2>2. CASE \E x \in kept : s = x.slice
    BY <1>2, <2>2
  <2> QED
    BY <2>1, <2>2
<1>4. new.slice = s /\ new.vals = Cells(h, s)
  OBVIOUS
<1> HIDE DEF new
<1>5. \A x \in kept \cup {new} : SliceOf(V, h, x.slice) /\ Cells(h, x.slice) = x.vals
  BY <1>3, <1>4 DEF Shelved
<1>6. ASSUME NEW x \in kept \cup {new}, NEW y \in kept \cup {new},
             x.slice.arr = y.slice.arr, x.slice.len < y.slice.len
      PROVE  x.slice \in extended
  <2>1. CASE s = NilSlice
    <3>1. s.arr = 0 /\ s.len = 0
      BY <2>1 DEF NilSlice
    <3>2. x # new /\ y # new
      BY <1>2, <1>4, <1>6, <3>1
    <3> QED
      BY <1>6, <3>2 DEF Shelved
  <2>2. CASE \E z \in kept : s = z.slice
    <3>1. PICK z \in kept : s = z.slice
      BY <2>2
    <3>2. PICK v \in kept : v.slice = x.slice
      BY <1>4, <3>1
    <3>3. PICK w \in kept : w.slice = y.slice
      BY <1>4, <3>1
    <3> QED
      BY <1>6, <3>2, <3>3 DEF Shelved
  <2> QED
    BY <1>3, <2>1, <2>2
<1> QED
  BY <1>1, <1>5, <1>6, Zenon DEF Shelved, new

(* Labels are scopes in the same heap: one more changes no slice.         *)
LEMMA ShelveOther ==
  ASSUME NEW H, NEW V, NEW h, NEW kept, NEW extended, Shelved(H, V, h, kept, extended),
         NEW scope \in H
  PROVE  Shelved(H, V, Append(h, scope), kept, extended)
<1>1. h \in Seq(H) /\ Len(h) \in Nat
  BY DEF Shelved
<1>2. /\ Append(h, scope) \in Seq(H) /\ Len(h) <= Len(Append(h, scope))
      /\ \A k \in 1..Len(h) : Append(h, scope)[k] = h[k]
  BY <1>1
<1>3. ASSUME NEW x \in kept
      PROVE  SliceOf(V, Append(h, scope), x.slice) /\ Cells(Append(h, scope), x.slice) = x.vals
  <2>1. SliceOf(V, h, x.slice) /\ Cells(h, x.slice) = x.vals
    BY DEF Shelved
  <2>2. x.slice.arr \in 0..Len(h) /\ (x.slice.arr > 0 => h[x.slice.arr] \in Seq(V))
    BY <2>1 DEF SliceOf
  <2>3. x.slice.arr > 0 => Append(h, scope)[x.slice.arr] = h[x.slice.arr]
    BY <1>1, <1>2, <2>2
  <2>4. SliceOf(V, Append(h, scope), x.slice) /\ Cells(Append(h, scope), x.slice) = Cells(h, x.slice)
    <3>1. Untouched(V, h, Append(h, scope), x.slice)
      BY <1>1, <1>2, <2>1, <2>2, <2>3 DEF Untouched
    <3>2. StillReads(V, h, Append(h, scope), x.slice)
      BY <3>1, SliceStays, Zenon
    <3> QED
      BY <3>2, Zenon DEF StillReads
  <2> QED
    BY <2>1, <2>4
<1> QED
  BY <1>2, <1>3, Zenon DEF Shelved

(* append, with room and without, and of nothing at all.                  *)
LEMMA ShelveAppend ==
  ASSUME NEW H, NEW V, Seq(V) \subseteq H, Unset \in V,
         NEW h, NEW kept, NEW extended, Shelved(H, V, h, kept, extended),
         NEW x \in kept, NEW vals \in Seq(V),
         InPlace(h, x.slice, vals) => x.slice \notin extended,
         NEW r, r = AppendTo(h, x.slice, vals)
  PROVE  Shelved(H, V, r.heap, kept \cup {[slice |-> r.slice, vals |-> x.vals \o vals]},
                 IF InPlace(h, x.slice, vals) THEN extended \cup {x.slice} ELSE extended)
<1>1. h \in Seq(H) /\ SliceOf(V, h, x.slice) /\ Cells(h, x.slice) = x.vals
  BY DEF Shelved
<1>2. CASE InPlace(h, x.slice, vals)
  BY <1>2, ShelveInPlace, Zenon
<1>3. CASE vals = <<>>
  <2>1. r.heap = h /\ r.slice = x.slice
    BY <1>3, Zenon DEF AppendTo
  <2>2. x.vals \o vals = x.vals
    <3>1. x.vals \in Seq(V)
      BY <1>1, CellsOf
    <3> QED
      BY <1>3, <3>1
  <2>3. ~InPlace(h, x.slice, vals)
    BY <1>3 DEF InPlace
  <2>4. \E z \in kept : r.slice = z.slice
    BY <2>1
  <2>5. Shelved(H, V, h, kept \cup {[slice |-> r.slice, vals |-> Cells(h, r.slice)]}, extended)
    BY <2>4, ShelveSame, Zenon
  <2> QED
    BY <1>1, <2>1, <2>2, <2>3, <2>5, Zenon
<1>4. CASE vals # <<>> /\ ~InPlace(h, x.slice, vals)
  <2>2. /\ r.heap \in Seq(H \cup Seq(V)) /\ Len(r.heap) = Len(h) + 1
        /\ \A k \in 1..Len(h) : r.heap[k] = h[k]
        /\ SliceOf(V, r.heap, r.slice) /\ r.slice.arr = Len(h) + 1
        /\ Cells(r.heap, r.slice) = Cells(h, x.slice) \o vals
    <3>1. AppendOf(H, V, h, x.slice, vals, r)
      BY <1>1, <1>4 DEF AppendOf
    <3>2. InNewArray(H, V, h, x.slice, vals, r)
      BY <1>4, <3>1, AppendGrows, Zenon
    <3> QED
      BY <3>2 DEF InNewArray
  <2>3. H \cup Seq(V) = H
    OBVIOUS
  <2>4. r.heap \in Seq(H)
    BY <2>2, <2>3, Zenon
  <2>5. Shelved(H, V, r.heap, kept \cup {[slice |-> r.slice, vals |-> Cells(r.heap, r.slice)]}, extended)
    BY <2>2, <2>4, ShelveNew, Zenon
  <2> QED
    BY <1>1, <1>4, <2>2, <2>5, Zenon
<1> QED
  BY <1>2, <1>3, <1>4

(* A slice that is decoded has an array of its own, or none.               *)
LEMMA ShelveMade ==
  ASSUME NEW H, NEW V, Seq(V) \subseteq H,
         NEW h, NEW kept, NEW extended, Shelved(H, V, h, kept, extended),
         NEW vals \in Seq(V), NEW r, r = MakeSlice(h, vals)
  PROVE  Shelved(H, V, r.heap, kept \cup {[slice |-> r.slice, vals |-> vals]}, extended)
<1>1. h \in Seq(H) /\ Len(h) \in Nat
  BY DEF Shelved
<1>2. CASE vals = <<>>
  <2>1. r.heap = h /\ r.slice = NilSlice
    BY <1>2, Zenon DEF MakeSlice
  <2>2. Cells(h, NilSlice) = <<>>
    BY DEF Cells, NilSlice
  <2>3. Shelved(H, V, h, kept \cup {[slice |-> NilSlice, vals |-> Cells(h, NilSlice)]}, extended)
    BY ShelveSame, Zenon
  <2> QED
    BY <1>2, <2>1, <2>2, <2>3, Zenon
<1>3. CASE vals # <<>>
  <2>1. r.heap = Append(h, vals) /\ r.slice = [arr |-> Len(h) + 1, len |-> Len(vals)]
    BY <1>3, Zenon DEF MakeSlice
  <2>2. /\ r.heap \in Seq(H) /\ Len(r.heap) = Len(h) + 1 /\ r.heap[Len(h) + 1] = vals
        /\ \A k \in 1..Len(h) : r.heap[k] = h[k]
    <3>1. vals \in H
      OBVIOUS
    <3> QED
      BY <1>1, <2>1, <3>1
  <2>3. r.slice.arr = Len(h) + 1 /\ r.slice.len = Len(vals)
    BY <2>1
  <2>4. Capacity(r.heap, r.slice) = Len(vals)
    BY <1>1, <2>2, <2>3 DEF Capacity
  <2>5. r.slice \in [arr : 0..Len(r.heap), len : Nat]
    BY <1>1, <2>1, <2>2
  <2>6. SliceOf(V, r.heap, r.slice)
    BY <2>2, <2>3, <2>4, <2>5 DEF SliceOf
  <2>7. Cells(r.heap, r.slice) = vals
    <3>1. Cells(r.heap, r.slice) = [k \in 1..Len(vals) |-> vals[k]]
      BY <2>2, <2>3 DEF Cells
    <3> QED
      BY <3>1
  <2>8. Shelved(H, V, r.heap, kept \cup {[slice |-> r.slice, vals |-> Cells(r.heap, r.slice)]}, extended)
    BY <2>2, <2>3, <2>6, ShelveNew, Zenon
  <2> QED
    BY <2>7, <2>8, Zenon
<1> QED
  BY <1>2, <1>3

(* Thunks that are copied share the arrays of their arguments, mounts and  *)
(* ports, and the With functions and AppendArgs of thunk.go append to      *)
(* them, in place where there is room.  However many slices are made,      *)
(* copied and appended to, in any order, each reads for ever as it did     *)
(* when it was made, and what append returns as the one before and the     *)
(* new values, as long as no slice is appended to in place twice: this is  *)
(* why a thunk can change only if two were made of one that had room, or   *)
(* if with-args appends to a part of a slice (Collide and Overwrites of    *)
(* ThunkBuilding).  For any values, and any growth that makes room enough. *)
THEOREM SlicesStay ==
  ASSUME NEW H, NEW V, Seq(V) \subseteq H, Unset \in V
  PROVE  /\ Shelved(H, V, <<>>, {}, {})
         /\ \A h, kept, extended : Shelved(H, V, h, kept, extended) =>
              /\ \A x \in kept, vals \in Seq(V) :
                   (InPlace(h, x.slice, vals) => x.slice \notin extended) =>
                     LET r == AppendTo(h, x.slice, vals)
                     IN  Shelved(H, V, r.heap,
                                 kept \cup {[slice |-> r.slice, vals |-> x.vals \o vals]},
                                 IF InPlace(h, x.slice, vals) THEN extended \cup {x.slice}
                                                              ELSE extended)
              /\ \A vals \in Seq(V) :
                   LET r == MakeSlice(h, vals)
                   IN  Shelved(H, V, r.heap, kept \cup {[slice |-> r.slice, vals |-> vals]},
                               extended)
              /\ \A scope \in H : Shelved(H, V, Append(h, scope), kept, extended)
<1>1. Shelved(H, V, <<>>, {}, {})
  BY DEF Shelved
<1>2. ASSUME NEW h, NEW kept, NEW extended, Shelved(H, V, h, kept, extended),
             NEW x \in kept, NEW vals \in Seq(V),
             InPlace(h, x.slice, vals) => x.slice \notin extended
      PROVE  LET r == AppendTo(h, x.slice, vals)
             IN  Shelved(H, V, r.heap, kept \cup {[slice |-> r.slice, vals |-> x.vals \o vals]},
                         IF InPlace(h, x.slice, vals) THEN extended \cup {x.slice} ELSE extended)
  BY <1>2, ShelveAppend, Zenon
<1>3. ASSUME NEW h, NEW kept, NEW extended, Shelved(H, V, h, kept, extended),
             NEW vals \in Seq(V)
      PROVE  LET r == MakeSlice(h, vals)
             IN  Shelved(H, V, r.heap, kept \cup {[slice |-> r.slice, vals |-> vals]}, extended)
  BY <1>3, ShelveMade, Zenon
<1>4. ASSUME NEW h, NEW kept, NEW extended, Shelved(H, V, h, kept, extended), NEW scope \in H
      PROVE  Shelved(H, V, Append(h, scope), kept, extended)
  BY <1>4, ShelveOther, Zenon
<1> QED
  BY <1>1, <1>2, <1>3, <1>4, Zenon
=============================================================================
