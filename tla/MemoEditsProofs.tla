-------------------------- MODULE MemoEditsProofs --------------------------
(***************************************************************************)
(* What the edits of a lock file do to the table that it stands for, for   *)
(* any content: any number of memos, of calls in them and of results in    *)
(* those, with whatever duplicates merges left.                            *)
(*                                                                         *)
(* A result is at a position (i, j, n): memo, call, result.  Retrieve sees *)
(* the first position of a key in lexicographic order.  Store changes the  *)
(* output at all positions of its key, or adds some of the key; Remove     *)
(* takes all positions of its key and keeps the others in their order; and *)
(* bump keeps all positions.                                               *)
(***************************************************************************)
EXTENDS MemoEdits, FiniteSetTheorems, SequenceTheorems, WellFoundedInduction, TLAPS

Content == Seq(MemoRecs)

USE MemoAssumption

-----------------------------------------------------------------------------
(* Every set of natural numbers that is not empty has a least one.  This   *)
(* takes the place of induction.                                           *)
LEMMA LeastNat ==
  ASSUME NEW T, T \subseteq Nat, T # {}
  PROVE  \E n \in T : \A m \in T : n <= m
<1>1. IsWellFoundedOn(OpToRel(<, Nat), Nat)
  BY NatLessThanWellFounded
<1>2. PICK n \in T : \A m \in T : ~ (<<m, n>> \in OpToRel(<, Nat))
  BY <1>1, WFMin
<1>3. \A m \in T : ~ (m < n)
  BY <1>2, Zenon DEF OpToRel
<1>4. \A m \in T : n <= m
  BY <1>3
<1> QED
  BY <1>4

(* Places that are kept, in order: what Kept makes of a sequence. *)
LEMMA PlaceFacts ==
  ASSUME NEW l \in Nat, NEW kept, kept \subseteq 1..l
  PROVE  /\ Cardinality(kept) \in Nat
         /\ \A i \in kept : /\ Rank(kept, i) \in 1..Cardinality(kept)
                            /\ Place(kept, Rank(kept, i)) = i
         /\ \A n \in 1..Cardinality(kept) :
              Place(kept, n) \in kept /\ Rank(kept, Place(kept, n)) = n
         /\ \A i, j \in kept : i < j <=> Rank(kept, i) < Rank(kept, j)
         /\ \A i, j \in kept : Rank(kept, i) = Rank(kept, j) => i = j
<1> DEFINE Up(i) == {j \in kept : j <= i}
           N == Cardinality(kept)
<1>1. IsFiniteSet(kept) /\ N \in Nat /\ kept \subseteq Nat
  <2>1. IsFiniteSet(1..l) /\ kept \in SUBSET (1..l)
    BY FS_Interval
  <2>2. IsFiniteSet(kept)
    BY <2>1, FS_Subset
  <2> QED
    BY <2>2, FS_CardinalityType
<1>2. \A i \in kept : IsFiniteSet(Up(i)) /\ Cardinality(Up(i)) \in 1..N
  <2> SUFFICES ASSUME NEW i \in kept
               PROVE  IsFiniteSet(Up(i)) /\ Cardinality(Up(i)) \in 1..N
    OBVIOUS
  <2>1. Up(i) \in SUBSET kept /\ i \in Up(i)
    OBVIOUS
  <2>2. IsFiniteSet(Up(i)) /\ Cardinality(Up(i)) <= N
    BY <1>1, <2>1, FS_Subset
  <2>3. Cardinality(Up(i)) \in Nat /\ Cardinality(Up(i)) # 0
    BY <2>1, <2>2, FS_CardinalityType, FS_EmptySet
  <2> QED
    BY <1>1, <2>2, <2>3
<1>3. \A i, j \in kept : i < j => Cardinality(Up(i)) < Cardinality(Up(j))
  <2> SUFFICES ASSUME NEW i \in kept, NEW j \in kept, i < j
               PROVE  Cardinality(Up(i)) < Cardinality(Up(j))
    OBVIOUS
  <2>1. Up(i) \in SUBSET Up(j) /\ j \in Up(j) /\ j \notin Up(i)
    <3>1. i \in Nat /\ j \in Nat /\ \A m \in kept : m \in Nat
      BY <1>1
    <3>2. \A m \in Up(i) : m \in kept /\ m <= j
      BY <3>1
    <3>3. j \in Up(j) /\ j \notin Up(i)
      BY <3>1
    <3>4. \A m \in Up(i) : m \in Up(j)
      BY <3>2
    <3> QED
      BY <3>3, <3>4
  <2>2. Cardinality(Up(i)) <= Cardinality(Up(j)) /\ Cardinality(Up(i)) # Cardinality(Up(j))
    BY <1>2, <2>1, FS_Subset
  <2>3. Cardinality(Up(i)) \in Nat /\ Cardinality(Up(j)) \in Nat
    <3> HIDE DEF Up, N
    <3> QED
      BY <1>1, <1>2
  <2> HIDE DEF Up
  <2> QED
    BY <2>2, <2>3
<1>4. \A i \in kept : Rank(kept, i) = Cardinality(Up(i))
  BY DEF Rank
<1> HIDE DEF Up
<1>5. \A i \in kept : Rank(kept, i) \in 1..N
  BY <1>2, <1>4
<1>6. \A i, j \in kept : i < j => Rank(kept, i) < Rank(kept, j)
  BY <1>3, <1>4
<1>7. \A i, j \in kept : /\ i < j <=> Rank(kept, i) < Rank(kept, j)
                         /\ Rank(kept, i) = Rank(kept, j) => i = j
  BY <1>1, <1>5, <1>6
<1>8. \A n \in 1..N : \E i \in kept : Rank(kept, i) = n
  <2> DEFINE f == [i \in kept |-> Rank(kept, i)]
  <2>1. f \in Injection(kept, 1..N)
    BY <1>5, <1>7 DEF Injection, IsInjective
  <2>2. IsFiniteSet(1..N) /\ Cardinality(1..N) = N
    BY <1>1, FS_Interval
  <2>3. f \in Surjection(kept, 1..N)
    BY <2>1, <2>2, FS_Injection
  <2> QED
    BY <2>3 DEF Surjection
<1>9. \A n \in 1..N : Place(kept, n) \in kept /\ Rank(kept, Place(kept, n)) = n
  BY <1>8 DEF Place
<1>10. \A i \in kept : Place(kept, Rank(kept, i)) = i
  BY <1>5, <1>7, <1>9
<1> QED
  BY <1>1, <1>5, <1>7, <1>9, <1>10

(* Kept is the sequence of the elements at the places kept. *)
LEMMA KeptFacts ==
  ASSUME NEW S, NEW seq \in Seq(S), NEW kept, kept \subseteq DOMAIN seq
  PROVE  /\ Kept(seq, kept) \in Seq(S)
         /\ DOMAIN Kept(seq, kept) = 1..Cardinality(kept)
         /\ \A n \in 1..Cardinality(kept) :
              /\ Place(kept, n) \in kept
              /\ Kept(seq, kept)[n] = seq[Place(kept, n)]
<1>1. Len(seq) \in Nat /\ DOMAIN seq = 1..Len(seq) /\ seq \in [1..Len(seq) -> S]
  BY LenProperties
<1>2. /\ Cardinality(kept) \in Nat
      /\ \A n \in 1..Cardinality(kept) : Place(kept, n) \in kept
  BY <1>1, PlaceFacts
<1>3. Kept(seq, kept) \in [1..Cardinality(kept) -> S]
  BY <1>1, <1>2 DEF Kept
<1>4. Kept(seq, kept) \in Seq(S)
  BY <1>2, <1>3, SeqDef
<1> QED
  BY <1>2, <1>4 DEF Kept
-----------------------------------------------------------------------------
(* The parts of a content and their types. *)
LEMMA ContentTypes ==
  ASSUME NEW memos \in Content
  PROVE  /\ Len(memos) \in Nat /\ DOMAIN memos = 1..Len(memos)
         /\ \A i \in DOMAIN memos : memos[i] \in MemoRecs
  BY LenProperties, ElementOfSeq DEF Content

LEMMA MemoTypes ==
  ASSUME NEW memo \in MemoRecs
  PROVE  /\ memo.module \in Modules /\ memo.calls \in Seq(CallRecs)
         /\ Len(memo.calls) \in Nat /\ DOMAIN memo.calls = 1..Len(memo.calls)
         /\ \A j \in DOMAIN memo.calls : memo.calls[j] \in CallRecs
<1>1. memo.module \in Modules /\ memo.calls \in Seq(CallRecs)
  BY DEF MemoRecs
<1> QED
  BY <1>1, LenProperties, ElementOfSeq

LEMMA CallTypes ==
  ASSUME NEW call \in CallRecs
  PROVE  /\ call.binding \in Bindings /\ call.results \in Seq(ResultRecs)
         /\ Len(call.results) \in Nat /\ DOMAIN call.results = 1..Len(call.results)
         /\ \A n \in DOMAIN call.results :
              /\ call.results[n] \in ResultRecs
              /\ call.results[n].input \in Inputs /\ call.results[n].output \in Outputs
              /\ call.results[n] = [input |-> call.results[n].input,
                                    output |-> call.results[n].output]
<1>1. call.binding \in Bindings /\ call.results \in Seq(ResultRecs)
  BY DEF CallRecs
<1>2. \A n \in DOMAIN call.results : call.results[n] \in ResultRecs
  BY <1>1, LenProperties, ElementOfSeq
<1>3. \A r \in ResultRecs : /\ r.input \in Inputs /\ r.output \in Outputs
                            /\ r = [input |-> r.input, output |-> r.output]
  BY DEF ResultRecs
<1> QED
  BY <1>1, <1>2, <1>3, LenProperties

LEMMA AllTypes ==
  ASSUME NEW memos \in Content, NEW i \in DOMAIN memos
  PROVE  /\ Len(memos) \in Nat /\ DOMAIN memos = 1..Len(memos)
         /\ memos[i] \in MemoRecs
         /\ DOMAIN memos[i].calls = 1..Len(memos[i].calls) /\ Len(memos[i].calls) \in Nat
         /\ \A j \in DOMAIN memos[i].calls :
              /\ memos[i].calls[j] \in CallRecs
              /\ DOMAIN memos[i].calls[j].results = 1..Len(memos[i].calls[j].results)
              /\ Len(memos[i].calls[j].results) \in Nat
  BY ContentTypes, MemoTypes, CallTypes

(* Keys with the same parts are the same. *)
LEMMA SameKey ==
  ASSUME NEW k \in Keys, NEW key \in Keys,
         k.module = key.module, k.binding = key.binding, k.input = key.input
  PROVE  k = key
  BY DEF Keys

-----------------------------------------------------------------------------
(* Where a key is, and where Retrieve finds it. *)
At(memos, key, i, j, n) ==
  /\ i \in DOMAIN memos /\ memos[i].module = key.module
  /\ j \in DOMAIN memos[i].calls /\ memos[i].calls[j].binding = key.binding
  /\ n \in DOMAIN memos[i].calls[j].results
  /\ memos[i].calls[j].results[n].input = key.input

Out(memos, i, j, n) == memos[i].calls[j].results[n].output

First(memos, key, i, j, n) ==
  /\ At(memos, key, i, j, n)
  /\ \A before \in 1..(i - 1) : ~HasIn(memos[before], key)
  /\ \A before \in 1..(j - 1) : ~Has(memos[i].calls[before], key)
  /\ \A before \in 1..(n - 1) : memos[i].calls[j].results[before].input # key.input

(* The types of what is at a position. *)
LEMMA AtTypes ==
  ASSUME NEW memos \in Content, NEW key, NEW i, NEW j, NEW n, At(memos, key, i, j, n)
  PROVE  /\ i \in 1..Len(memos) /\ Len(memos) \in Nat /\ DOMAIN memos = 1..Len(memos)
         /\ j \in 1..Len(memos[i].calls) /\ Len(memos[i].calls) \in Nat
         /\ DOMAIN memos[i].calls = 1..Len(memos[i].calls)
         /\ n \in 1..Len(memos[i].calls[j].results)
         /\ Len(memos[i].calls[j].results) \in Nat
         /\ DOMAIN memos[i].calls[j].results = 1..Len(memos[i].calls[j].results)
         /\ memos[i] \in MemoRecs /\ memos[i].calls[j] \in CallRecs
         /\ memos[i].calls[j].results[n] = [input |-> key.input,
                                            output |-> Out(memos, i, j, n)]
         /\ Out(memos, i, j, n) \in Outputs
<1>1. i \in DOMAIN memos /\ j \in DOMAIN memos[i].calls
      /\ n \in DOMAIN memos[i].calls[j].results
      /\ memos[i].calls[j].results[n].input = key.input
  BY DEF At
<1>2. /\ Len(memos) \in Nat /\ DOMAIN memos = 1..Len(memos)
      /\ memos[i] \in MemoRecs
      /\ DOMAIN memos[i].calls = 1..Len(memos[i].calls) /\ Len(memos[i].calls) \in Nat
      /\ memos[i].calls[j] \in CallRecs
      /\ DOMAIN memos[i].calls[j].results = 1..Len(memos[i].calls[j].results)
      /\ Len(memos[i].calls[j].results) \in Nat
  BY <1>1, AllTypes
<1>3. /\ memos[i].calls[j].results[n].output \in Outputs
      /\ memos[i].calls[j].results[n] =
           [input |-> memos[i].calls[j].results[n].input,
            output |-> memos[i].calls[j].results[n].output]
  BY <1>1, <1>2, CallTypes
<1> QED
  BY <1>1, <1>2, <1>3 DEF Out

(* A memo has a key if some position of it does. *)
LEMMA HasInAt ==
  ASSUME NEW memos \in Content, NEW key \in Keys, NEW i \in DOMAIN memos
  PROVE  HasIn(memos[i], key) <=> \E j, n : At(memos, key, i, j, n)
  BY DEF HasIn, Has, At

(* Where a memo has the key, one position is the first. *)
LEMMA FirstExists ==
  ASSUME NEW memos \in Content, NEW key \in Keys,
         \E i \in DOMAIN memos : HasIn(memos[i], key)
  PROVE  \E i, j, n : First(memos, key, i, j, n)
<1>1. PICK i \in {m \in DOMAIN memos : HasIn(memos[m], key)} :
        \A m \in {m \in DOMAIN memos : HasIn(memos[m], key)} : i <= m
  <2> DEFINE T == {m \in DOMAIN memos : HasIn(memos[m], key)}
  <2>1. T \subseteq Nat /\ T # {}
    BY ContentTypes
  <2> HIDE DEF T
  <2>2. \E n \in T : \A m \in T : n <= m
    BY <2>1, LeastNat
  <2> QED
    BY <2>2 DEF T
<1>2. PICK j \in {m \in DOMAIN memos[i].calls : Has(memos[i].calls[m], key)} :
        \A m \in {m \in DOMAIN memos[i].calls : Has(memos[i].calls[m], key)} : j <= m
  <2> DEFINE T == {m \in DOMAIN memos[i].calls : Has(memos[i].calls[m], key)}
  <2>1. T \subseteq Nat /\ T # {}
    BY AllTypes DEF HasIn
  <2> HIDE DEF T
  <2>2. \E n \in T : \A m \in T : n <= m
    BY <2>1, LeastNat
  <2> QED
    BY <2>2 DEF T
<1> DEFINE results == memos[i].calls[j].results
<1>3. PICK n \in {m \in DOMAIN results : results[m].input = key.input} :
        \A m \in {m \in DOMAIN results : results[m].input = key.input} : n <= m
  <2> DEFINE T == {m \in DOMAIN results : results[m].input = key.input}
  <2>1. T \subseteq Nat /\ T # {}
    BY <1>2, AllTypes DEF Has
  <2> HIDE DEF T
  <2>2. \E m \in T : \A o \in T : m <= o
    BY <2>1, LeastNat
  <2> QED
    BY <2>2 DEF T
<1>4. At(memos, key, i, j, n)
  BY <1>1, <1>2, <1>3 DEF At, HasIn, Has
<1>5. i \in 1..Len(memos) /\ j \in 1..Len(memos[i].calls) /\ n \in 1..Len(results)
      /\ Len(memos) \in Nat /\ Len(memos[i].calls) \in Nat /\ Len(results) \in Nat
  BY <1>4, AllTypes DEF At
<1>6. \A before \in 1..(i - 1) : ~HasIn(memos[before], key)
  <2>1. \A before \in 1..(i - 1) : before \in DOMAIN memos /\ ~(i <= before)
    BY <1>5, ContentTypes
  <2> QED
    BY <1>1, <2>1
<1>7. \A before \in 1..(j - 1) : ~Has(memos[i].calls[before], key)
  <2>1. \A before \in 1..(j - 1) : before \in DOMAIN memos[i].calls /\ ~(j <= before)
    BY <1>2, <1>5, AllTypes
  <2> QED
    BY <1>2, <2>1
<1>8. \A before \in 1..(n - 1) : results[before].input # key.input
  <2>1. DOMAIN results = 1..Len(results)
    BY <1>2, AllTypes
  <2> HIDE DEF results
  <2>2. \A before \in 1..(n - 1) : before \in DOMAIN results /\ ~(n <= before)
    BY <1>5, <2>1
  <2> QED
    BY <1>3, <2>2
<1> QED
  BY <1>4, <1>6, <1>7, <1>8 DEF First

(* Retrieve returns what is at the first position. *)
LEMMA RetrievedFirst ==
  ASSUME NEW memos \in Content, NEW key \in Keys, NEW i, NEW j, NEW n,
         First(memos, key, i, j, n)
  PROVE  /\ Retrieved(memos, key) = Out(memos, i, j, n)
         /\ Out(memos, i, j, n) \in Outputs
<1> DEFINE out == Out(memos, i, j, n)
           Found(o) == \E m \in DOMAIN memos :
                         /\ HasIn(memos[m], key) /\ FirstIn(memos[m], key, o)
                         /\ \A before \in 1..(m - 1) : ~HasIn(memos[before], key)
<1>1. /\ At(memos, key, i, j, n) /\ i \in DOMAIN memos /\ j \in DOMAIN memos[i].calls
      /\ n \in DOMAIN memos[i].calls[j].results
      /\ HasIn(memos[i], key) /\ Has(memos[i].calls[j], key)
  BY DEF First, At, HasIn, Has
<1> DEFINE call == memos[i].calls[j]
<1>0. /\ call \in CallRecs
      /\ DOMAIN memos = 1..Len(memos) /\ Len(memos) \in Nat
      /\ DOMAIN memos[i].calls = 1..Len(memos[i].calls) /\ Len(memos[i].calls) \in Nat
      /\ DOMAIN call.results = 1..Len(call.results) /\ Len(call.results) \in Nat
  BY <1>1, AllTypes
<1>2. out \in Outputs /\ call.results[n] = ResultOf(key, out)
  <2>1. /\ call.results[n].output \in Outputs
        /\ call.results[n] = [input |-> call.results[n].input,
                              output |-> call.results[n].output]
    BY <1>0, <1>1, CallTypes
  <2>2. call.results[n].input = key.input /\ out = call.results[n].output
    BY <1>1 DEF At, Out
  <2> QED
    BY <2>1, <2>2 DEF ResultOf
<1>3. Found(out)
  BY <1>1, <1>2 DEF First, FirstIn, FirstOf
<1>4. ASSUME NEW o \in Outputs, Found(o) PROVE o = out
  <2>1. PICK m \in DOMAIN memos :
          /\ HasIn(memos[m], key) /\ FirstIn(memos[m], key, o)
          /\ \A before \in 1..(m - 1) : ~HasIn(memos[before], key)
    BY <1>4
  <2>2. m = i
    BY <1>1, <2>1, ContentTypes DEF First
  <2>3. PICK c \in DOMAIN memos[i].calls :
          /\ FirstOf(memos[i].calls[c], key, o) /\ Has(memos[i].calls[c], key)
          /\ \A before \in 1..(c - 1) : ~Has(memos[i].calls[before], key)
    BY <2>1, <2>2 DEF FirstIn
  <2>4. c = j
    <3>1. c \in 1..Len(memos[i].calls) /\ j \in 1..Len(memos[i].calls)
      BY <1>0, <1>1, <2>3
    <3>2. ~ (c < j) /\ ~ (j < c)
      BY <1>0, <1>1, <2>3, <3>1 DEF First
    <3> QED
      BY <1>0, <3>1, <3>2
  <2>5. PICK r \in DOMAIN memos[i].calls[j].results :
          /\ memos[i].calls[j].results[r] = ResultOf(key, o)
          /\ \A before \in 1..(r - 1) : memos[i].calls[j].results[before].input # key.input
    BY <2>3, <2>4 DEF FirstOf
  <2>6. memos[i].calls[j].results[r].input = key.input
        /\ memos[i].calls[j].results[r].output = o
    BY <2>5 DEF ResultOf
  <2>7. memos[i].calls[j].results[n].input = key.input
    BY <1>1 DEF At
  <2>8. r = n
    <3>1. r \in 1..Len(call.results) /\ n \in 1..Len(call.results)
      BY <1>0, <1>1, <2>5
    <3>2. \A before \in 1..(n - 1) : call.results[before].input # key.input
      BY DEF First
    <3>3. r \notin 1..(n - 1)
      BY <2>6, <3>2
    <3>4. n \notin 1..(r - 1)
      BY <2>5, <2>7
    <3> HIDE DEF call
    <3> QED
      BY <1>0, <3>1, <3>3, <3>4
  <2> QED
    BY <2>6, <2>8 DEF Out
<1> HIDE DEF Found, out
<1>5. Retrieved(memos, key) = CHOOSE o \in Outputs : Found(o)
  BY <1>1 DEF Retrieved, Found
<1>6. (CHOOSE o \in Outputs : Found(o)) = out
  BY <1>2, <1>3, <1>4
<1> QED
  BY <1>2, <1>5, <1>6 DEF out

(* A key without a position is not found. *)
LEMMA RetrievedNone ==
  ASSUME NEW memos \in Content, NEW key \in Keys,
         \A i, j, n : ~At(memos, key, i, j, n)
  PROVE  Retrieved(memos, key) = NoOutput
  BY HasInAt DEF Retrieved

(* Where all positions of a key have the same output, it is found. *)
LEMMA RetrievedAll ==
  ASSUME NEW memos \in Content, NEW key \in Keys, NEW out,
         \E i, j, n : At(memos, key, i, j, n),
         \A i, j, n : At(memos, key, i, j, n) => Out(memos, i, j, n) = out
  PROVE  Retrieved(memos, key) = out
<1>1. \E i \in DOMAIN memos : HasIn(memos[i], key)
  BY HasInAt DEF At
<1>2. PICK i, j, n : First(memos, key, i, j, n)
  BY <1>1, FirstExists
<1> QED
  BY <1>2, RetrievedFirst DEF First

(* What Retrieve returns is an output or NoOutput, and NoOutput only where *)
(* the key has no position.                                                *)
LEMMA RetrievedTypes ==
  ASSUME NEW memos \in Content, NEW key \in Keys
  PROVE  /\ Retrieved(memos, key) \in Outputs \cup {NoOutput}
         /\ Retrieved(memos, key) = NoOutput <=> \A i, j, n : ~At(memos, key, i, j, n)
<1>1. CASE \E i, j, n : At(memos, key, i, j, n)
  <2>1. \E i \in DOMAIN memos : HasIn(memos[i], key)
    BY <1>1, HasInAt DEF At
  <2>2. PICK i, j, n : First(memos, key, i, j, n)
    BY <2>1, FirstExists
  <2> QED
    BY <1>1, <2>2, RetrievedFirst
<1>2. CASE \A i, j, n : ~At(memos, key, i, j, n)
  BY <1>2, RetrievedNone
<1> QED
  BY <1>1, <1>2

(* The table that a content stands for depends only on where its keys are  *)
(* first and on the outputs there.                                         *)
LEMMA RetrievedSame ==
  ASSUME NEW memos \in Content, NEW others \in Content, NEW key \in Keys,
         \A i, j, n : At(others, key, i, j, n) => \E i2, j2, n2 : At(memos, key, i2, j2, n2),
         \A i, j, n : First(memos, key, i, j, n) =>
                        \E i2, j2, n2 : /\ First(others, key, i2, j2, n2)
                                        /\ Out(others, i2, j2, n2) = Out(memos, i, j, n)
  PROVE  Retrieved(others, key) = Retrieved(memos, key)
<1>1. CASE \E i \in DOMAIN memos : HasIn(memos[i], key)
  <2>1. PICK i, j, n : First(memos, key, i, j, n)
    BY <1>1, FirstExists
  <2>2. PICK i2, j2, n2 : First(others, key, i2, j2, n2)
                          /\ Out(others, i2, j2, n2) = Out(memos, i, j, n)
    BY <2>1
  <2> QED
    BY <2>1, <2>2, RetrievedFirst
<1>2. CASE ~ \E i \in DOMAIN memos : HasIn(memos[i], key)
  <2>1. \A i, j, n : ~At(memos, key, i, j, n)
    BY <1>2, HasInAt DEF At
  <2> QED
    BY <2>1, RetrievedNone
<1> QED
  BY <1>1, <1>2

-----------------------------------------------------------------------------
(* What Store makes of the content, part by part. *)
LEMMA AppendFacts ==
  ASSUME NEW S, NEW seq \in Seq(S), NEW e \in S
  PROVE  /\ Append(seq, e) \in Seq(S)
         /\ DOMAIN Append(seq, e) = 1..(Len(seq) + 1)
         /\ Append(seq, e)[Len(seq) + 1] = e
         /\ \A n \in DOMAIN seq : Append(seq, e)[n] = seq[n]
  BY AppendProperties, LenProperties

LEMMA OneMore ==
  ASSUME NEW n \in Nat
  PROVE  1..(n + 1) = (1..n) \cup {n + 1}
  OBVIOUS

LEMMA NewParts ==
  ASSUME NEW key \in Keys, NEW out \in Outputs
  PROVE  /\ ResultOf(key, out) \in ResultRecs
         /\ ResultOf(key, out).input = key.input /\ ResultOf(key, out).output = out
         /\ CallOf(key, out) \in CallRecs
         /\ CallOf(key, out).binding = key.binding
         /\ CallOf(key, out).results = <<ResultOf(key, out)>>
         /\ MemoOf(key, out) \in MemoRecs
         /\ MemoOf(key, out).module = key.module
         /\ MemoOf(key, out).calls = <<CallOf(key, out)>>
<1>1. key.module \in Modules /\ key.binding \in Bindings /\ key.input \in Inputs
  BY DEF Keys
<1>2. ResultOf(key, out) \in ResultRecs
  BY <1>1 DEF ResultOf, ResultRecs
<1>3. CallOf(key, out) \in CallRecs
  BY <1>1, <1>2 DEF CallOf, CallRecs
<1>4. MemoOf(key, out) \in MemoRecs
  BY <1>1, <1>3 DEF MemoOf, MemoRecs
<1> QED
  BY <1>2, <1>3, <1>4 DEF ResultOf, CallOf, MemoOf

LEMMA StoredInCallFacts ==
  ASSUME NEW memos \in Content, NEW key \in Keys, NEW out \in Outputs,
         NEW i \in DOMAIN memos, NEW j \in DOMAIN memos[i].calls
  PROVE  LET call == memos[i].calls[j]
             stored == StoredInCall(memos, key, out, i, j)
         IN  /\ stored \in CallRecs
             /\ stored.binding = call.binding
             /\ call.binding # key.binding => stored = call
             /\ call.binding = key.binding /\ Updated(memos, key, i, j) =>
                  /\ DOMAIN stored.results = DOMAIN call.results
                  /\ \A n \in DOMAIN call.results :
                       stored.results[n] = IF call.results[n].input = key.input
                                           THEN ResultOf(key, out) ELSE call.results[n]
             /\ call.binding = key.binding /\ ~Updated(memos, key, i, j) =>
                  stored.results = Append(call.results, ResultOf(key, out))
<1> DEFINE call == memos[i].calls[j]
           stored == StoredInCall(memos, key, out, i, j)
           over == [n \in DOMAIN call.results |->
                      IF call.results[n].input = key.input THEN ResultOf(key, out)
                      ELSE call.results[n]]
<1>1. call \in CallRecs
  BY AllTypes
<1>2. /\ call.binding \in Bindings /\ call.results \in Seq(ResultRecs)
      /\ Len(call.results) \in Nat /\ DOMAIN call.results = 1..Len(call.results)
      /\ \A n \in DOMAIN call.results : call.results[n] \in ResultRecs
  BY <1>1, CallTypes
<1>3. ResultOf(key, out) \in ResultRecs
  BY NewParts
<1>4. ASSUME NEW results \in Seq(ResultRecs)
      PROVE  /\ [call EXCEPT !.results = results] \in CallRecs
             /\ [call EXCEPT !.results = results].binding = call.binding
             /\ [call EXCEPT !.results = results].results = results
  BY <1>1 DEF CallRecs
<1> HIDE DEF call
<1>5. over \in Seq(ResultRecs)
  <2>1. over \in [1..Len(call.results) -> ResultRecs]
    BY <1>2, <1>3
  <2> QED
    BY <1>2, <2>1, SeqDef
<1>6. Append(call.results, ResultOf(key, out)) \in Seq(ResultRecs)
  BY <1>2, <1>3, AppendProperties
<1>7. CASE call.binding # key.binding
  BY <1>1, <1>7 DEF StoredInCall, call
<1>8. CASE call.binding = key.binding /\ Updated(memos, key, i, j)
  <2>1. stored = [call EXCEPT !.results = over]
    BY <1>8 DEF StoredInCall, Overwritten, call
  <2>2. /\ stored \in CallRecs /\ stored.binding = call.binding
        /\ stored.results = over
    BY <1>4, <1>5, <2>1
  <2>3. /\ DOMAIN over = DOMAIN call.results
        /\ \A n \in DOMAIN call.results :
             over[n] = IF call.results[n].input = key.input
                       THEN ResultOf(key, out) ELSE call.results[n]
    OBVIOUS
  <2> HIDE DEF stored, over
  <2> QED
    BY <1>8, <2>2, <2>3 DEF call, stored
<1>9. CASE call.binding = key.binding /\ ~Updated(memos, key, i, j)
  <2>1. stored = [call EXCEPT !.results = Append(call.results, ResultOf(key, out))]
    BY <1>9 DEF StoredInCall, call
  <2> QED
    BY <1>4, <1>6, <1>9, <2>1 DEF call
<1> QED
  BY <1>7, <1>8, <1>9

LEMMA StoredInCallsFacts ==
  ASSUME NEW memos \in Content, NEW key \in Keys, NEW out \in Outputs,
         NEW i \in DOMAIN memos
  PROVE  LET calls == memos[i].calls
             stored == StoredInCalls(memos, key, out, i)
         IN  /\ stored \in Seq(CallRecs)
             /\ \A j \in DOMAIN calls : stored[j] = StoredInCall(memos, key, out, i, j)
             /\ FoundCall(memos, key, i) => DOMAIN stored = DOMAIN calls
             /\ ~FoundCall(memos, key, i) =>
                  /\ DOMAIN stored = 1..(Len(calls) + 1)
                  /\ stored[Len(calls) + 1] = CallOf(key, out)
<1> DEFINE calls == memos[i].calls
           each == [j \in DOMAIN calls |-> StoredInCall(memos, key, out, i, j)]
           stored == StoredInCalls(memos, key, out, i)
<1>1. Len(calls) \in Nat /\ DOMAIN calls = 1..Len(calls)
  BY AllTypes
<1>2. \A j \in DOMAIN calls : StoredInCall(memos, key, out, i, j) \in CallRecs
  BY StoredInCallFacts
<1>3. stored = IF FoundCall(memos, key, i) THEN each ELSE Append(each, CallOf(key, out))
  BY DEF StoredInCalls
<1> HIDE DEF calls, stored
<1>4. each \in [1..Len(calls) -> CallRecs]
  BY <1>1, <1>2
<1>5. each \in Seq(CallRecs) /\ Len(each) = Len(calls)
  <2>1. each \in Seq(CallRecs)
    BY <1>1, <1>4, SeqDef
  <2>2. DOMAIN each = 1..Len(calls)
    BY <1>1
  <2> HIDE DEF each
  <2> QED
    BY <1>1, <2>1, <2>2, LenProperties
<1>6. \A j \in DOMAIN calls : each[j] = StoredInCall(memos, key, out, i, j)
  OBVIOUS
<1> HIDE DEF each
<1>7. CallOf(key, out) \in CallRecs
  BY NewParts
<1>8. /\ Append(each, CallOf(key, out)) \in Seq(CallRecs)
      /\ DOMAIN Append(each, CallOf(key, out)) = 1..(Len(calls) + 1)
      /\ Append(each, CallOf(key, out))[Len(calls) + 1] = CallOf(key, out)
      /\ \A j \in 1..Len(calls) : Append(each, CallOf(key, out))[j] = each[j]
  BY <1>5, <1>7, AppendProperties, LenProperties
<1>9. DOMAIN each = DOMAIN calls
  BY <1>1, <1>4
<1> QED
  BY <1>1, <1>3, <1>5, <1>6, <1>8, <1>9 DEF calls, stored

LEMMA StoredInFacts ==
  ASSUME NEW memos \in Content, NEW key \in Keys, NEW out \in Outputs
  PROVE  LET stored == StoredIn(memos, key, out)
             found == \E i \in DOMAIN memos : memos[i].module = key.module
         IN  /\ stored \in Content
             /\ \A i \in DOMAIN memos :
                  /\ i \in DOMAIN stored
                  /\ stored[i].module = memos[i].module
                  /\ memos[i].module # key.module => stored[i] = memos[i]
                  /\ memos[i].module = key.module =>
                       stored[i].calls = StoredInCalls(memos, key, out, i)
             /\ found => DOMAIN stored = DOMAIN memos
             /\ ~found => /\ DOMAIN stored = 1..(Len(memos) + 1)
                          /\ stored[Len(memos) + 1] = MemoOf(key, out)
<1> DEFINE stored == StoredIn(memos, key, out)
           found == \E i \in DOMAIN memos : memos[i].module = key.module
           memo(i) == IF memos[i].module = key.module
                      THEN [memos[i] EXCEPT !.calls = StoredInCalls(memos, key, out, i)]
                      ELSE memos[i]
           each == [i \in DOMAIN memos |-> memo(i)]
<1>1. memos \in Seq(MemoRecs) /\ Len(memos) \in Nat /\ DOMAIN memos = 1..Len(memos)
  BY ContentTypes DEF Content
<1>2. ASSUME NEW i \in DOMAIN memos
      PROVE  /\ memo(i) \in MemoRecs /\ memo(i).module = memos[i].module
             /\ memos[i].module # key.module => memo(i) = memos[i]
             /\ memos[i].module = key.module =>
                  memo(i).calls = StoredInCalls(memos, key, out, i)
  <2>1. memos[i] \in MemoRecs /\ StoredInCalls(memos, key, out, i) \in Seq(CallRecs)
    BY AllTypes, StoredInCallsFacts
  <2> QED
    BY <2>1 DEF MemoRecs
<1>3. stored = IF found THEN each ELSE Append(memos, MemoOf(key, out))
  BY DEF StoredIn
<1> HIDE DEF memo
<1>4. CASE found
  <2>1. each \in [1..Len(memos) -> MemoRecs]
    BY <1>1, <1>2
  <2>2. each \in Content
    BY <1>1, <2>1, SeqDef DEF Content
  <2>3. DOMAIN each = DOMAIN memos /\ \A i \in DOMAIN memos : each[i] = memo(i)
    OBVIOUS
  <2> QED
    BY <1>2, <1>3, <1>4, <2>2, <2>3
<1>5. CASE ~found
  <2>1. MemoOf(key, out) \in MemoRecs
    BY NewParts
  <2>2. /\ Append(memos, MemoOf(key, out)) \in Content
        /\ DOMAIN Append(memos, MemoOf(key, out)) = 1..(Len(memos) + 1)
        /\ Append(memos, MemoOf(key, out))[Len(memos) + 1] = MemoOf(key, out)
        /\ \A i \in 1..Len(memos) : Append(memos, MemoOf(key, out))[i] = memos[i]
    BY <1>1, <2>1, AppendProperties, LenProperties DEF Content
  <2>3. stored = Append(memos, MemoOf(key, out))
    BY <1>3, <1>5
  <2> HIDE DEF stored
  <2>4. \A i \in DOMAIN memos : i \in DOMAIN stored /\ stored[i] = memos[i]
    BY <1>1, <2>2, <2>3
  <2> QED
    BY <1>5, <2>2, <2>3, <2>4 DEF stored
<1> QED
  BY <1>4, <1>5

(* Contents with the same positions of a key, and the same outputs there,  *)
(* are the same to Retrieve.                                               *)
LEMMA RetrievedSameAt ==
  ASSUME NEW memos \in Content, NEW others \in Content, NEW key \in Keys,
         \A i, j, n : At(others, key, i, j, n) <=> At(memos, key, i, j, n),
         \A i, j, n : At(memos, key, i, j, n) => Out(others, i, j, n) = Out(memos, i, j, n)
  PROVE  Retrieved(others, key) = Retrieved(memos, key)
<1>1. ASSUME NEW i, NEW j, NEW n, First(memos, key, i, j, n)
      PROVE  First(others, key, i, j, n)
  <2>1. At(memos, key, i, j, n) /\ At(others, key, i, j, n)
    BY <1>1 DEF First
  <2>2. /\ i \in 1..Len(memos) /\ i \in 1..Len(others) /\ Len(memos) \in Nat
        /\ Len(others) \in Nat /\ DOMAIN memos = 1..Len(memos)
        /\ DOMAIN others = 1..Len(others)
    BY <2>1, ContentTypes DEF At
  <2>3. ASSUME NEW before \in 1..(i - 1) PROVE ~HasIn(others[before], key)
    <3>1. before \in DOMAIN memos /\ before \in DOMAIN others
      BY <2>2
    <3>2. ~HasIn(memos[before], key)
      BY <1>1 DEF First
    <3> QED
      BY <3>1, <3>2, HasInAt
  <2>4. /\ j \in 1..Len(memos[i].calls) /\ j \in 1..Len(others[i].calls)
        /\ Len(memos[i].calls) \in Nat /\ Len(others[i].calls) \in Nat
        /\ DOMAIN memos[i].calls = 1..Len(memos[i].calls)
        /\ DOMAIN others[i].calls = 1..Len(others[i].calls)
    BY <2>1, AllTypes DEF At
  <2>5. ASSUME NEW before \in 1..(j - 1) PROVE ~Has(others[i].calls[before], key)
    <3>1. before \in DOMAIN memos[i].calls /\ before \in DOMAIN others[i].calls
      BY <2>4
    <3>2. ~Has(memos[i].calls[before], key)
      BY <1>1 DEF First
    <3>3. \A m : ~At(memos, key, i, before, m)
      BY <3>2 DEF At, Has
    <3> QED
      BY <2>1, <3>1, <3>3 DEF At, Has
  <2> DEFINE results == memos[i].calls[j].results
             results2 == others[i].calls[j].results
  <2>6. /\ n \in 1..Len(results) /\ n \in 1..Len(results2)
        /\ Len(results) \in Nat /\ Len(results2) \in Nat
        /\ DOMAIN results = 1..Len(results) /\ DOMAIN results2 = 1..Len(results2)
    BY <2>1, AtTypes
  <2>7. ASSUME NEW before \in 1..(n - 1) PROVE results2[before].input # key.input
    <3>1. before \in DOMAIN results /\ before \in DOMAIN results2
      BY <2>6
    <3>2. ~At(memos, key, i, j, before)
      BY <1>1 DEF First, At
    <3> QED
      BY <2>1, <3>1, <3>2 DEF At
  <2> QED
    BY <2>1, <2>3, <2>5, <2>7 DEF First
<1> QED
  BY <1>1, RetrievedSame DEF First

(* Store leaves the positions of other keys and their outputs alone. *)
LEMMA StoredAtOther ==
  ASSUME NEW memos \in Content, NEW key \in Keys, NEW out \in Outputs,
         NEW k \in Keys, k # key, NEW i, NEW j, NEW n
  PROVE  LET stored == StoredIn(memos, key, out)
         IN  /\ At(stored, k, i, j, n) <=> At(memos, k, i, j, n)
             /\ At(memos, k, i, j, n) => Out(stored, i, j, n) = Out(memos, i, j, n)
<1> DEFINE stored == StoredIn(memos, key, out)
<1>1. k.module = key.module => k.binding # key.binding \/ k.input # key.input
  BY SameKey
<1>2. CASE i \in DOMAIN memos /\ memos[i].module # key.module
  BY <1>2, StoredInFacts DEF At, Out
<1>3. CASE i \in DOMAIN memos /\ memos[i].module = key.module
  <2> DEFINE calls == memos[i].calls
  <2>1. /\ i \in DOMAIN stored /\ stored[i].module = memos[i].module
        /\ stored[i].calls = StoredInCalls(memos, key, out, i)
    BY <1>3, StoredInFacts
  <2>2. CASE j \in DOMAIN calls
    <3> DEFINE call == calls[j]
               stored2 == StoredInCall(memos, key, out, i, j)
    <3>1. j \in DOMAIN stored[i].calls /\ stored[i].calls[j] = stored2
      <4>1. DOMAIN calls = 1..Len(calls) /\ Len(calls) \in Nat
        BY <1>3, AllTypes
      <4> QED
        BY <1>3, <2>1, <2>2, <4>1, StoredInCallsFacts
    <3>2. /\ stored2.binding = call.binding
          /\ call.binding # key.binding => stored2 = call
          /\ call.binding = key.binding /\ Updated(memos, key, i, j) =>
               /\ DOMAIN stored2.results = DOMAIN call.results
               /\ \A m \in DOMAIN call.results :
                    stored2.results[m] = IF call.results[m].input = key.input
                                         THEN ResultOf(key, out) ELSE call.results[m]
          /\ call.binding = key.binding /\ ~Updated(memos, key, i, j) =>
               stored2.results = Append(call.results, ResultOf(key, out))
      BY <1>3, <2>2, StoredInCallFacts
    <3>3. ResultOf(key, out).input = key.input
      BY NewParts
    <3>4. /\ call.results \in Seq(ResultRecs) /\ ResultOf(key, out) \in ResultRecs
          /\ Len(call.results) \in Nat /\ DOMAIN call.results = 1..Len(call.results)
      <4>1. call \in CallRecs
        BY <1>3, <2>2, AllTypes
      <4> QED
        BY <4>1, CallTypes, NewParts
    <3> DEFINE app == Append(call.results, ResultOf(key, out))
    <3>5. /\ DOMAIN app = 1..(Len(call.results) + 1)
          /\ app[Len(call.results) + 1] = ResultOf(key, out)
          /\ \A m \in DOMAIN call.results : app[m] = call.results[m]
      <4> HIDE DEF call
      <4> QED
        BY <3>4, AppendFacts
    <3> HIDE DEF call, stored2, app
    <3>6. call.binding = key.binding /\ k.module = key.module /\ k.binding = call.binding =>
            /\ n \in DOMAIN stored2.results /\ stored2.results[n].input = k.input
                 <=> n \in DOMAIN call.results /\ call.results[n].input = k.input
            /\ n \in DOMAIN call.results /\ call.results[n].input = k.input =>
                 stored2.results[n] = call.results[n]
      <4> SUFFICES ASSUME call.binding = key.binding, k.module = key.module,
                          k.binding = call.binding
                   PROVE  /\ n \in DOMAIN stored2.results /\ stored2.results[n].input = k.input
                               <=> n \in DOMAIN call.results /\ call.results[n].input = k.input
                          /\ n \in DOMAIN call.results /\ call.results[n].input = k.input =>
                               stored2.results[n] = call.results[n]
        OBVIOUS
      <4>1. k.input # key.input
        BY <1>1
      <4>2. CASE Updated(memos, key, i, j)
        BY <3>2, <3>3, <4>1, <4>2
      <4>3. CASE ~Updated(memos, key, i, j)
        <5>1. stored2.results = app
          BY <3>2, <4>3 DEF app
        <5> QED
          BY <3>3, <3>4, <3>5, <4>1, <5>1
      <4> QED
        BY <4>2, <4>3
    <3>7. At(memos, k, i, j, n) <=> /\ key.module = k.module /\ call.binding = k.binding
                                    /\ n \in DOMAIN call.results
                                    /\ call.results[n].input = k.input
      BY <1>3, <2>2 DEF At, call
    <3>8. At(stored, k, i, j, n) <=> /\ key.module = k.module /\ call.binding = k.binding
                                     /\ n \in DOMAIN stored2.results
                                     /\ stored2.results[n].input = k.input
      BY <1>3, <2>1, <2>2, <3>1, <3>2 DEF At
    <3>9. Out(memos, i, j, n) = call.results[n].output
          /\ Out(stored, i, j, n) = stored2.results[n].output
      BY <3>1 DEF Out, call
    <3>10. CASE call.binding = key.binding
      BY <3>6, <3>7, <3>8, <3>9, <3>10
    <3>11. CASE call.binding # key.binding
      BY <3>2, <3>7, <3>8, <3>9, <3>11
    <3> QED
      BY <3>10, <3>11
  <2>3. CASE j \notin DOMAIN calls
    <3>1. ~At(memos, k, i, j, n)
      BY <2>3 DEF At
    <3>2. ~At(stored, k, i, j, n)
      <4> SUFFICES ASSUME At(stored, k, i, j, n) PROVE FALSE
        OBVIOUS
      <4>1. j \in DOMAIN StoredInCalls(memos, key, out, i) /\ k.module = key.module
        BY <1>3, <2>1 DEF At
      <4>2. DOMAIN calls = 1..Len(calls) /\ Len(calls) \in Nat
        BY <1>3, AllTypes
      <4>3. j = Len(calls) + 1 /\ stored[i].calls[j] = CallOf(key, out)
        BY <1>3, <2>1, <2>3, <4>1, <4>2, StoredInCallsFacts
      <4>4. /\ CallOf(key, out).binding = k.binding
            /\ n \in DOMAIN CallOf(key, out).results
            /\ CallOf(key, out).results[n].input = k.input
        BY <4>3 DEF At
      <4>5. k.binding = key.binding /\ k.input = key.input
        BY <4>4, NewParts
      <4> QED
        BY <1>1, <4>1, <4>5
    <3> QED
      BY <3>1, <3>2
  <2> QED
    BY <2>2, <2>3
<1>4. CASE i \notin DOMAIN memos
  <2>1. ~At(memos, k, i, j, n)
    BY <1>4 DEF At
  <2>2. ~At(stored, k, i, j, n)
    <3> SUFFICES ASSUME At(stored, k, i, j, n) PROVE FALSE
      OBVIOUS
    <3>1. stored[i] = MemoOf(key, out)
      <4>1. i \in DOMAIN stored
        BY DEF At
      <4>2. DOMAIN memos = 1..Len(memos) /\ Len(memos) \in Nat
        BY ContentTypes
      <4>3. DOMAIN stored = 1..(Len(memos) + 1) /\ stored[Len(memos) + 1] = MemoOf(key, out)
        BY <1>4, <4>1, StoredInFacts
      <4>4. i \in 1..(Len(memos) + 1) /\ i \notin 1..Len(memos)
        BY <1>4, <4>1, <4>2, <4>3
      <4> HIDE DEF stored
      <4> QED
        BY <4>2, <4>3, <4>4
    <3>2. /\ key.module = k.module /\ j \in {1} /\ CallOf(key, out).binding = k.binding
          /\ n \in {1} /\ CallOf(key, out).results[n].input = k.input
      BY <3>1, NewParts DEF At
    <3>3. k.binding = key.binding /\ k.input = key.input
      BY <3>2, NewParts
    <3> QED
      BY <1>1, <3>2, <3>3
  <2> QED
    BY <2>1, <2>2
<1> QED
  BY <1>2, <1>3, <1>4

(* After Store, all positions of its key have the new output. *)
LEMMA StoredAtKey ==
  ASSUME NEW memos \in Content, NEW key \in Keys, NEW out \in Outputs,
         NEW i, NEW j, NEW n, At(StoredIn(memos, key, out), key, i, j, n)
  PROVE  Out(StoredIn(memos, key, out), i, j, n) = out
<1> DEFINE stored == StoredIn(memos, key, out)
<1>1. /\ i \in DOMAIN stored /\ stored[i].module = key.module
      /\ j \in DOMAIN stored[i].calls /\ stored[i].calls[j].binding = key.binding
      /\ n \in DOMAIN stored[i].calls[j].results
      /\ stored[i].calls[j].results[n].input = key.input
      /\ Out(stored, i, j, n) = stored[i].calls[j].results[n].output
  BY DEF At, Out
<1>2. DOMAIN memos = 1..Len(memos) /\ Len(memos) \in Nat
  BY ContentTypes
<1>3. CASE i \notin DOMAIN memos
  <2>1. DOMAIN stored = 1..(Len(memos) + 1) /\ stored[Len(memos) + 1] = MemoOf(key, out)
    BY <1>1, <1>3, StoredInFacts
  <2>2. i = Len(memos) + 1
    BY <1>1, <1>2, <1>3, <2>1
  <2>3. stored[i].calls = <<CallOf(key, out)>>
    BY <2>1, <2>2, NewParts
  <2>4. stored[i].calls[j].results = <<ResultOf(key, out)>>
    BY <1>1, <2>3, NewParts
  <2> QED
    BY <1>1, <2>4, NewParts
<1>4. CASE i \in DOMAIN memos
  <2> DEFINE calls == memos[i].calls
  <2>1. memos[i].module = key.module /\ stored[i].calls = StoredInCalls(memos, key, out, i)
    BY <1>1, <1>4, StoredInFacts
  <2>2. DOMAIN calls = 1..Len(calls) /\ Len(calls) \in Nat
    BY <1>4, AllTypes
  <2>3. CASE j \notin DOMAIN calls
    <3>1. stored[i].calls[j] = CallOf(key, out)
      <4>1. /\ DOMAIN stored[i].calls = 1..(Len(calls) + 1)
            /\ stored[i].calls[Len(calls) + 1] = CallOf(key, out)
        BY <1>1, <1>4, <2>1, <2>3, StoredInCallsFacts
      <4> HIDE DEF calls, stored
      <4> QED
        BY <1>1, <2>2, <2>3, <4>1
    <3>2. stored[i].calls[j].results = <<ResultOf(key, out)>>
      BY <3>1, NewParts
    <3> QED
      BY <1>1, <3>2, NewParts
  <2>4. CASE j \in DOMAIN calls
    <3> DEFINE call == calls[j]
               new == StoredInCall(memos, key, out, i, j)
    <3>1. stored[i].calls[j] = new
      BY <1>4, <2>1, <2>4, StoredInCallsFacts
    <3>2. /\ new.binding = call.binding
          /\ call.binding = key.binding /\ Updated(memos, key, i, j) =>
               /\ DOMAIN new.results = DOMAIN call.results
               /\ \A m \in DOMAIN call.results :
                    new.results[m] = IF call.results[m].input = key.input
                                     THEN ResultOf(key, out) ELSE call.results[m]
          /\ call.binding = key.binding /\ ~Updated(memos, key, i, j) =>
               new.results = Append(call.results, ResultOf(key, out))
      BY <1>4, <2>4, StoredInCallFacts
    <3>3. call \in CallRecs
      BY <1>4, <2>4, AllTypes
    <3>4. /\ call.results \in Seq(ResultRecs) /\ Len(call.results) \in Nat
          /\ DOMAIN call.results = 1..Len(call.results)
      BY <3>3, CallTypes
    <3>5. ResultOf(key, out) \in ResultRecs /\ ResultOf(key, out).output = out
      BY NewParts
    <3>6. call.binding = key.binding
      BY <1>1, <3>1, <3>2
    <3> HIDE DEF call, new
    <3>7. CASE Updated(memos, key, i, j)
      <4>1. n \in DOMAIN call.results /\ new.results[n].input = key.input
        BY <1>1, <3>1, <3>2, <3>6, <3>7
      <4>2. new.results[n] = ResultOf(key, out)
        BY <3>2, <3>6, <3>7, <4>1
      <4> QED
        BY <1>1, <3>1, <3>5, <4>2
    <3>8. CASE ~Updated(memos, key, i, j)
      <4>1. ~Has(call, key)
        BY <1>2, <1>4, <2>1, <2>2, <2>4, <3>8 DEF Updated, call
      <4>2. \A m \in DOMAIN call.results : call.results[m].input # key.input
        BY <3>6, <4>1 DEF Has
      <4>3. new.results = Append(call.results, ResultOf(key, out))
        BY <3>2, <3>6, <3>8
      <4>4. /\ DOMAIN new.results = 1..(Len(call.results) + 1)
            /\ new.results[Len(call.results) + 1] = ResultOf(key, out)
            /\ \A m \in DOMAIN call.results : new.results[m] = call.results[m]
        BY <3>4, <3>5, <4>3, AppendFacts
      <4>5. n \in DOMAIN new.results /\ new.results[n].input = key.input
        BY <1>1, <3>1
      <4>6. n = Len(call.results) + 1
        BY <3>4, <4>2, <4>4, <4>5
      <4> QED
        BY <1>1, <3>1, <3>5, <4>4, <4>6
    <3> QED
      BY <3>7, <3>8
  <2> QED
    BY <2>3, <2>4
<1> QED
  BY <1>3, <1>4

(* A position that had the key of a Store has it afterwards. *)
LEMMA StoredKeepsAt ==
  ASSUME NEW memos \in Content, NEW key \in Keys, NEW out \in Outputs,
         NEW i, NEW j, NEW n, At(memos, key, i, j, n)
  PROVE  At(StoredIn(memos, key, out), key, i, j, n)
<1> DEFINE stored == StoredIn(memos, key, out)
           call == memos[i].calls[j]
           new == StoredInCall(memos, key, out, i, j)
<1>1. /\ i \in DOMAIN memos /\ memos[i].module = key.module
      /\ j \in DOMAIN memos[i].calls /\ call.binding = key.binding
      /\ n \in DOMAIN call.results /\ call.results[n].input = key.input
  BY DEF At
<1>2. i \in 1..Len(memos) /\ Len(memos) \in Nat
  BY AtTypes
<1>3. Updated(memos, key, i, j)
  <2>0. j \in 1..Len(memos[i].calls) /\ Len(memos[i].calls) \in Nat
    BY AtTypes
  <2>1. i \in 1..i /\ j <= j
    BY <1>2, <2>0
  <2>2. Has(memos[i].calls[j], key)
    BY <1>1 DEF Has
  <2> QED
    BY <1>1, <2>1, <2>2 DEF Updated
<1>4. /\ i \in DOMAIN stored /\ stored[i].module = key.module
      /\ stored[i].calls = StoredInCalls(memos, key, out, i)
  BY <1>1, StoredInFacts
<1>5. j \in DOMAIN stored[i].calls /\ stored[i].calls[j] = new
  <2>1. DOMAIN memos[i].calls = 1..Len(memos[i].calls) /\ Len(memos[i].calls) \in Nat
    BY AtTypes
  <2> QED
    BY <1>1, <1>4, <2>1, StoredInCallsFacts
<1>6. /\ new.binding = key.binding /\ n \in DOMAIN new.results
      /\ new.results[n] = ResultOf(key, out)
  BY <1>1, <1>3, StoredInCallFacts
<1>7. new.results[n].input = key.input
  BY <1>6, NewParts
<1> HIDE DEF new, stored
<1> QED
  BY <1>4, <1>5, <1>6, <1>7 DEF At, stored

(* After Store, its key is there. *)
LEMMA StoredAtSome ==
  ASSUME NEW memos \in Content, NEW key \in Keys, NEW out \in Outputs
  PROVE  \E i, j, n : At(StoredIn(memos, key, out), key, i, j, n)
<1> DEFINE stored == StoredIn(memos, key, out)
<1>1. DOMAIN memos = 1..Len(memos) /\ Len(memos) \in Nat
  BY ContentTypes
<1>2. CASE ~ \E i \in DOMAIN memos : memos[i].module = key.module
  <2>1. /\ DOMAIN stored = 1..(Len(memos) + 1)
        /\ stored[Len(memos) + 1] = MemoOf(key, out)
    BY <1>2, StoredInFacts
  <2>2. At(stored, key, Len(memos) + 1, 1, 1)
    BY <1>1, <2>1, NewParts DEF At
  <2> QED
    BY <2>2
<1>3. ASSUME NEW i \in DOMAIN memos, memos[i].module = key.module
      PROVE  \E i2, j, n : At(stored, key, i2, j, n)
  <2> DEFINE calls == memos[i].calls
  <2>1. /\ i \in DOMAIN stored /\ stored[i].module = key.module
        /\ stored[i].calls = StoredInCalls(memos, key, out, i)
    BY <1>3, StoredInFacts
  <2>2. DOMAIN calls = 1..Len(calls) /\ Len(calls) \in Nat
    BY AllTypes
  <2>3. CASE ~FoundCall(memos, key, i)
    <3>1. /\ DOMAIN stored[i].calls = 1..(Len(calls) + 1)
          /\ stored[i].calls[Len(calls) + 1] = CallOf(key, out)
      BY <2>1, <2>3, StoredInCallsFacts
    <3>2. Len(calls) + 1 \in DOMAIN stored[i].calls
      BY <2>2, <3>1
    <3>3. At(stored, key, i, Len(calls) + 1, 1)
      BY <2>1, <3>1, <3>2, NewParts DEF At
    <3> QED
      BY <3>3
  <2>4. CASE FoundCall(memos, key, i)
    <3>0. PICK f \in 1..i : memos[f].module = key.module /\ CallsBinding(memos[f], key)
      BY <2>4 DEF FoundCall
    <3>1. PICK c \in DOMAIN memos[f].calls :
            memos[f].module = key.module /\ memos[f].calls[c].binding = key.binding
      BY <3>0 DEF CallsBinding
    <3>2. f \in DOMAIN memos
      BY <1>1, <3>0
    <3>3. CASE Updated(memos, key, f, c)
      <4>0. PICK i2 \in 1..f : memos[i2].module = key.module
                              /\ \E j2 \in DOMAIN memos[i2].calls : Has(memos[i2].calls[j2], key)
        BY <3>3 DEF Updated
      <4>1. PICK j2 \in DOMAIN memos[i2].calls :
              memos[i2].module = key.module /\ Has(memos[i2].calls[j2], key)
        BY <4>0
      <4>2. i2 \in DOMAIN memos
        BY <1>1, <3>2, <4>0
      <4>3. PICK n \in DOMAIN memos[i2].calls[j2].results : At(memos, key, i2, j2, n)
        BY <4>1, <4>2 DEF Has, At
      <4> QED
        BY <4>3, StoredKeepsAt
    <3>4. CASE ~Updated(memos, key, f, c)
      <4> DEFINE call == memos[f].calls[c]
      <4>1. StoredInCall(memos, key, out, f, c).results
              = Append(call.results, ResultOf(key, out))
            /\ StoredInCall(memos, key, out, f, c).binding = key.binding
        BY <3>1, <3>2, <3>4, StoredInCallFacts
      <4>2. /\ call.results \in Seq(ResultRecs) /\ Len(call.results) \in Nat
            /\ ResultOf(key, out) \in ResultRecs /\ ResultOf(key, out).input = key.input
        <5>1. call \in CallRecs
          BY <3>1, <3>2, AllTypes
        <5> QED
          BY <5>1, CallTypes, NewParts
      <4>3. /\ f \in DOMAIN stored /\ stored[f].module = key.module
            /\ stored[f].calls = StoredInCalls(memos, key, out, f)
        BY <3>1, <3>2, StoredInFacts
      <4>4. /\ c \in DOMAIN stored[f].calls
            /\ stored[f].calls[c] = StoredInCall(memos, key, out, f, c)
        <5>1. DOMAIN memos[f].calls = 1..Len(memos[f].calls) /\ Len(memos[f].calls) \in Nat
          BY <3>2, AllTypes
        <5> QED
          BY <3>1, <3>2, <4>3, <5>1, StoredInCallsFacts
      <4> HIDE DEF call, stored
      <4>5. /\ Len(call.results) + 1 \in DOMAIN stored[f].calls[c].results
            /\ stored[f].calls[c].results[Len(call.results) + 1] = ResultOf(key, out)
        BY <4>1, <4>2, <4>4, AppendFacts
      <4>6. At(stored, key, f, c, Len(call.results) + 1)
        BY <4>1, <4>2, <4>3, <4>4, <4>5 DEF At
      <4> QED
        BY <4>6
    <3> QED
      BY <3>3, <3>4
  <2> QED
    BY <2>3, <2>4
<1> QED
  BY <1>2, <1>3

(* Store, as the table sees it. *)
LEMMA StoreTable ==
  ASSUME NEW memos \in Content, NEW key \in Keys, NEW out \in Outputs
  PROVE  /\ StoredIn(memos, key, out) \in Content
         /\ AsTable(StoredIn(memos, key, out)) = [AsTable(memos) EXCEPT ![key] = out]
<1> DEFINE stored == StoredIn(memos, key, out)
<1>1. stored \in Content
  BY StoredInFacts
<1>2. Retrieved(stored, key) = out
  <2>1. \E i, j, n : At(stored, key, i, j, n)
    BY StoredAtSome
  <2>2. \A i, j, n : At(stored, key, i, j, n) => Out(stored, i, j, n) = out
    BY StoredAtKey
  <2> HIDE DEF stored
  <2> QED
    BY <1>1, <2>1, <2>2, RetrievedAll
<1>3. ASSUME NEW k \in Keys, k # key PROVE Retrieved(stored, k) = Retrieved(memos, k)
  <2>1. \A i, j, n : /\ At(stored, k, i, j, n) <=> At(memos, k, i, j, n)
                     /\ At(memos, k, i, j, n) =>
                          Out(stored, i, j, n) = Out(memos, i, j, n)
    BY <1>3, StoredAtOther
  <2> HIDE DEF stored
  <2> QED
    BY <1>1, <2>1, RetrievedSameAt
<1> HIDE DEF stored
<1>4. AsTable(stored) = [AsTable(memos) EXCEPT ![key] = out]
  BY <1>2, <1>3 DEF AsTable
<1> QED
  BY <1>1, <1>4 DEF stored

-----------------------------------------------------------------------------
(* What Remove makes of the content, part by part. *)
LEMMA KeptWas ==
  ASSUME NEW S, NEW seq \in Seq(S), NEW kept, kept \subseteq DOMAIN seq,
         NEW n \in DOMAIN Kept(seq, kept)
  PROVE  \E m \in kept : Kept(seq, kept)[n] = seq[m]
<1>1. n \in 1..Cardinality(kept)
  BY KeptFacts
<1>2. Place(kept, n) \in kept /\ Kept(seq, kept)[n] = seq[Place(kept, n)]
  BY <1>1, KeptFacts
<1> QED
  BY <1>2

LEMMA KeptRank ==
  ASSUME NEW S, NEW seq \in Seq(S), NEW kept, kept \subseteq DOMAIN seq, NEW m \in kept
  PROVE  \E n \in DOMAIN Kept(seq, kept) :
           /\ n \in Nat /\ Kept(seq, kept)[n] = seq[m]
           /\ \A before \in 1..(n - 1) :
                /\ before \in DOMAIN Kept(seq, kept)
                /\ \E a \in 1..(m - 1) : Kept(seq, kept)[before] = seq[a]
<1> DEFINE N == Cardinality(kept)
<1>1. Len(seq) \in Nat /\ kept \subseteq 1..Len(seq) /\ m \in 1..Len(seq)
  BY LenProperties
<1>2. /\ N \in Nat
      /\ \A i \in kept : Rank(kept, i) \in 1..N /\ Place(kept, Rank(kept, i)) = i
      /\ \A n \in 1..N : Place(kept, n) \in kept /\ Rank(kept, Place(kept, n)) = n
      /\ \A i, j \in kept : i < j <=> Rank(kept, i) < Rank(kept, j)
  BY <1>1, PlaceFacts
<1>3. /\ DOMAIN Kept(seq, kept) = 1..N
      /\ \A n \in 1..N : Kept(seq, kept)[n] = seq[Place(kept, n)]
  BY KeptFacts
<1> HIDE DEF N
<1>4. Rank(kept, m) \in 1..N /\ Kept(seq, kept)[Rank(kept, m)] = seq[m]
  BY <1>2, <1>3
<1>5. ASSUME NEW before \in 1..(Rank(kept, m) - 1)
      PROVE  /\ before \in DOMAIN Kept(seq, kept)
             /\ \E a \in 1..(m - 1) : Kept(seq, kept)[before] = seq[a]
  <2>1. before \in 1..N /\ before < Rank(kept, m)
    BY <1>2, <1>4
  <2>2. /\ Place(kept, before) \in kept /\ Place(kept, before) \in 1..Len(seq)
        /\ Rank(kept, Place(kept, before)) = before
    BY <1>1, <1>2, <2>1
  <2>3. Place(kept, before) < m
    BY <1>2, <2>1, <2>2
  <2>4. Place(kept, before) \in 1..(m - 1)
    BY <1>1, <2>2, <2>3
  <2> QED
    BY <1>3, <2>1, <2>4
<1> QED
  BY <1>2, <1>3, <1>4, <1>5

LEMMA CallWithoutFacts ==
  ASSUME NEW call \in CallRecs, NEW key \in Keys
  PROVE  LET without == CallWithout(call, key)
         IN  /\ without \in CallRecs /\ without.binding = call.binding
             /\ call.binding # key.binding => without = call
             /\ call.binding = key.binding =>
                  without.results = Kept(call.results, OtherResults(call, key))
<1>1. call.results \in Seq(ResultRecs) /\ OtherResults(call, key) \subseteq DOMAIN call.results
  BY CallTypes DEF OtherResults
<1>2. Kept(call.results, OtherResults(call, key)) \in Seq(ResultRecs)
  BY <1>1, KeptFacts
<1> QED
  BY <1>2 DEF CallWithout, CallRecs

LEMMA CallsWithoutFacts ==
  ASSUME NEW memo \in MemoRecs, NEW key \in Keys
  PROVE  LET calls == CallsWithout(memo, key)
         IN  /\ calls \in Seq(CallRecs) /\ DOMAIN calls = DOMAIN memo.calls
             /\ \A j \in DOMAIN calls : calls[j] = CallWithout(memo.calls[j], key)
<1>1. /\ Len(memo.calls) \in Nat /\ DOMAIN memo.calls = 1..Len(memo.calls)
      /\ \A j \in DOMAIN memo.calls : CallWithout(memo.calls[j], key) \in CallRecs
  BY MemoTypes, CallWithoutFacts
<1>2. CallsWithout(memo, key) \in [1..Len(memo.calls) -> CallRecs]
  BY <1>1 DEF CallsWithout
<1>3. CallsWithout(memo, key) \in Seq(CallRecs)
  BY <1>1, <1>2, SeqDef
<1> QED
  BY <1>1, <1>3 DEF CallsWithout

LEMMA MemoWithoutFacts ==
  ASSUME NEW memo \in MemoRecs, NEW key \in Keys
  PROVE  LET calls == CallsWithout(memo, key)
             without == MemoWithout(memo, key)
         IN  /\ without \in MemoRecs /\ without.module = memo.module
             /\ memo.module # key.module => without = memo
             /\ memo.module = key.module =>
                  without.calls = Kept(calls, CallsLeft(calls, key))
<1> DEFINE calls == CallsWithout(memo, key)
<1>1. calls \in Seq(CallRecs) /\ CallsLeft(calls, key) \subseteq DOMAIN calls
  BY CallsWithoutFacts DEF CallsLeft
<1>2. Kept(calls, CallsLeft(calls, key)) \in Seq(CallRecs)
  BY <1>1, KeptFacts
<1> HIDE DEF calls
<1>3. memo.module = key.module =>
        MemoWithout(memo, key) = [memo EXCEPT !.calls = Kept(calls, CallsLeft(calls, key))]
  BY DEF MemoWithout, calls
<1>4. memo.module # key.module => MemoWithout(memo, key) = memo
  BY DEF MemoWithout
<1>5. /\ MemoWithout(memo, key) \in MemoRecs /\ MemoWithout(memo, key).module = memo.module
      /\ memo.module = key.module =>
           MemoWithout(memo, key).calls = Kept(calls, CallsLeft(calls, key))
  BY <1>2, <1>3, <1>4 DEF MemoRecs
<1> QED
  BY <1>4, <1>5 DEF calls

LEMMA MemosWithoutFacts ==
  ASSUME NEW memos \in Content, NEW key \in Keys
  PROVE  LET edited == MemosWithout(memos, key)
         IN  /\ edited \in Seq(MemoRecs) /\ DOMAIN edited = DOMAIN memos
             /\ \A i \in DOMAIN edited : edited[i] = MemoWithout(memos[i], key)
             /\ MemosLeft(edited, key) \subseteq DOMAIN edited
             /\ RemovedFrom(memos, key) = Kept(edited, MemosLeft(edited, key))
             /\ RemovedFrom(memos, key) \in Content
<1> DEFINE edited == MemosWithout(memos, key)
<1>1. /\ Len(memos) \in Nat /\ DOMAIN memos = 1..Len(memos)
      /\ \A i \in DOMAIN memos : MemoWithout(memos[i], key) \in MemoRecs
  BY ContentTypes, MemoWithoutFacts
<1>2. edited \in [1..Len(memos) -> MemoRecs]
  BY <1>1 DEF MemosWithout
<1>3. edited \in Seq(MemoRecs)
  BY <1>1, <1>2, SeqDef
<1>4. DOMAIN edited = DOMAIN memos
      /\ \A i \in DOMAIN edited : edited[i] = MemoWithout(memos[i], key)
  BY DEF MemosWithout
<1>5. MemosLeft(edited, key) \subseteq DOMAIN edited
  BY DEF MemosLeft
<1>6. RemovedFrom(memos, key) = Kept(edited, MemosLeft(edited, key))
  BY DEF RemovedFrom
<1> HIDE DEF edited
<1>7. Kept(edited, MemosLeft(edited, key)) \in Seq(MemoRecs)
  BY <1>3, <1>5, KeptFacts
<1> QED
  BY <1>3, <1>4, <1>5, <1>6, <1>7 DEF edited, Content

-----------------------------------------------------------------------------
(* What is left was there before: a result, a call and a memo. *)
LEMMA ResultWas ==
  ASSUME NEW call \in CallRecs, NEW key \in Keys,
         NEW n \in DOMAIN CallWithout(call, key).results
  PROVE  \E m \in DOMAIN call.results :
           /\ CallWithout(call, key).results[n] = call.results[m]
           /\ call.binding = key.binding => call.results[m].input # key.input
<1>1. CASE call.binding # key.binding
  BY <1>1, CallWithoutFacts
<1>2. CASE call.binding = key.binding
  <2>1. call.results \in Seq(ResultRecs) /\ OtherResults(call, key) \subseteq DOMAIN call.results
    BY CallTypes DEF OtherResults
  <2>2. CallWithout(call, key).results = Kept(call.results, OtherResults(call, key))
    BY <1>2, CallWithoutFacts
  <2>3. PICK m \in OtherResults(call, key) :
          CallWithout(call, key).results[n] = call.results[m]
    BY <2>1, <2>2, KeptWas
  <2> QED
    BY <2>1, <2>3 DEF OtherResults
<1> QED
  BY <1>1, <1>2

LEMMA CallWas ==
  ASSUME NEW memo \in MemoRecs, NEW key \in Keys,
         NEW c \in DOMAIN MemoWithout(memo, key).calls
  PROVE  \E j \in DOMAIN memo.calls :
           MemoWithout(memo, key).calls[c] = IF memo.module = key.module
                                             THEN CallWithout(memo.calls[j], key)
                                             ELSE memo.calls[j]
<1>1. CASE memo.module # key.module
  BY <1>1, MemoWithoutFacts
<1>2. CASE memo.module = key.module
  <2> DEFINE calls == CallsWithout(memo, key)
  <2>1. /\ calls \in Seq(CallRecs) /\ DOMAIN calls = DOMAIN memo.calls
        /\ \A j \in DOMAIN calls : calls[j] = CallWithout(memo.calls[j], key)
    BY CallsWithoutFacts
  <2>2. MemoWithout(memo, key).calls = Kept(calls, CallsLeft(calls, key))
    BY <1>2, MemoWithoutFacts
  <2> HIDE DEF calls
  <2>3. CallsLeft(calls, key) \subseteq DOMAIN calls
    BY DEF CallsLeft
  <2>4. PICK j \in DOMAIN calls : MemoWithout(memo, key).calls[c] = calls[j]
    BY <2>1, <2>2, <2>3, KeptWas
  <2> QED
    BY <1>2, <2>1, <2>4
<1> QED
  BY <1>1, <1>2

LEMMA MemoWas ==
  ASSUME NEW memos \in Content, NEW key \in Keys, NEW m \in DOMAIN RemovedFrom(memos, key)
  PROVE  \E i \in DOMAIN memos : RemovedFrom(memos, key)[m] = MemoWithout(memos[i], key)
<1> DEFINE edited == MemosWithout(memos, key)
<1>1. /\ edited \in Seq(MemoRecs) /\ DOMAIN edited = DOMAIN memos
      /\ \A i \in DOMAIN edited : edited[i] = MemoWithout(memos[i], key)
      /\ MemosLeft(edited, key) \subseteq DOMAIN edited
      /\ RemovedFrom(memos, key) = Kept(edited, MemosLeft(edited, key))
  BY MemosWithoutFacts
<1> HIDE DEF edited
<1>2. PICK i \in DOMAIN edited : RemovedFrom(memos, key)[m] = edited[i]
  BY <1>1, KeptWas
<1> QED
  BY <1>1, <1>2

(* Whatever has a key after Remove had it before, and nothing has the key  *)
(* that was removed.                                                       *)
LEMMA HasWas ==
  ASSUME NEW call \in CallRecs, NEW key \in Keys, NEW k \in Keys,
         Has(CallWithout(call, key), k)
  PROVE  Has(call, k)
  BY ResultWas, CallWithoutFacts DEF Has

LEMMA HasInWas ==
  ASSUME NEW memo \in MemoRecs, NEW key \in Keys, NEW k \in Keys,
         HasIn(MemoWithout(memo, key), k)
  PROVE  HasIn(memo, k) /\ k # key
<1>1. memo.module = k.module
  BY MemoWithoutFacts DEF HasIn
<1>2. PICK c \in DOMAIN MemoWithout(memo, key).calls : Has(MemoWithout(memo, key).calls[c], k)
  BY DEF HasIn
<1>3. PICK j \in DOMAIN memo.calls :
        MemoWithout(memo, key).calls[c] = IF memo.module = key.module
                                          THEN CallWithout(memo.calls[j], key)
                                          ELSE memo.calls[j]
  BY CallWas
<1>4. memo.calls[j] \in CallRecs
  BY MemoTypes
<1>5. Has(memo.calls[j], k)
  BY <1>2, <1>3, <1>4, HasWas
<1>6. k # key
  <2> SUFFICES ASSUME k = key PROVE FALSE
    OBVIOUS
  <2>1. Has(CallWithout(memo.calls[j], key), key)
    BY <1>1, <1>2, <1>3
  <2> QED
    BY <1>4, <2>1, ResultWas, CallWithoutFacts DEF Has
<1> QED
  BY <1>1, <1>5, <1>6 DEF HasIn

LEMMA RemovedAt ==
  ASSUME NEW memos \in Content, NEW key \in Keys, NEW k \in Keys,
         NEW m \in DOMAIN RemovedFrom(memos, key), HasIn(RemovedFrom(memos, key)[m], k)
  PROVE  k # key /\ \E i \in DOMAIN memos : HasIn(memos[i], k)
<1>1. PICK i \in DOMAIN memos : RemovedFrom(memos, key)[m] = MemoWithout(memos[i], key)
  BY MemoWas
<1>2. memos[i] \in MemoRecs
  BY ContentTypes
<1> QED
  BY <1>1, <1>2, HasInWas

(* What is not removed is left, after nothing but what it was after. *)
LEMMA ResultLeft ==
  ASSUME NEW call \in CallRecs, NEW key \in Keys, NEW m \in DOMAIN call.results,
         call.binding = key.binding => call.results[m].input # key.input
  PROVE  LET results == CallWithout(call, key).results
         IN  \E n \in DOMAIN results :
               /\ results[n] = call.results[m]
               /\ \A before \in 1..(n - 1) :
                    \E a \in 1..(m - 1) : results[before] = call.results[a]
<1>1. CASE call.binding # key.binding
  <2>1. CallWithout(call, key) = call
    BY <1>1, CallWithoutFacts
  <2> QED
    BY <2>1
<1>2. CASE call.binding = key.binding
  <2>1. call.results \in Seq(ResultRecs) /\ OtherResults(call, key) \subseteq DOMAIN call.results
    BY CallTypes DEF OtherResults
  <2>2. CallWithout(call, key).results = Kept(call.results, OtherResults(call, key))
    BY <1>2, CallWithoutFacts
  <2>3. m \in OtherResults(call, key)
    BY <1>2 DEF OtherResults
  <2> DEFINE results == call.results
             kept == OtherResults(call, key)
  <2> HIDE DEF results, kept
  <2>4. results \in Seq(ResultRecs) /\ kept \subseteq DOMAIN results /\ m \in kept
    BY <2>1, <2>3 DEF results, kept
  <2>5. PICK n \in DOMAIN Kept(results, kept) :
          /\ n \in Nat /\ Kept(results, kept)[n] = results[m]
          /\ \A before \in 1..(n - 1) :
               /\ before \in DOMAIN Kept(results, kept)
               /\ \E a \in 1..(m - 1) : Kept(results, kept)[before] = results[a]
    BY <2>4, KeptRank
  <2> QED
    BY <2>2, <2>5 DEF results, kept
<1> QED
  BY <1>1, <1>2

LEMMA CallLeft ==
  ASSUME NEW memo \in MemoRecs, NEW key \in Keys, NEW j \in DOMAIN memo.calls,
         memo.module = key.module,
         CallWithout(memo.calls[j], key).results # <<>>
  PROVE  LET calls == MemoWithout(memo, key).calls
         IN  \E c \in DOMAIN calls :
               /\ calls[c] = CallWithout(memo.calls[j], key)
               /\ \A before \in 1..(c - 1) :
                    \E a \in 1..(j - 1) : calls[before] = CallWithout(memo.calls[a], key)
<1> DEFINE calls == CallsWithout(memo, key)
<1>1. /\ calls \in Seq(CallRecs) /\ DOMAIN calls = DOMAIN memo.calls
      /\ \A i \in DOMAIN calls : calls[i] = CallWithout(memo.calls[i], key)
  BY CallsWithoutFacts
<1>2. MemoWithout(memo, key).calls = Kept(calls, CallsLeft(calls, key))
  BY MemoWithoutFacts
<1> HIDE DEF calls
<1>3. CallsLeft(calls, key) \subseteq DOMAIN calls /\ j \in CallsLeft(calls, key)
  BY <1>1 DEF CallsLeft
<1> DEFINE kept == CallsLeft(calls, key)
<1> HIDE DEF kept
<1>4. PICK c \in DOMAIN Kept(calls, kept) :
        /\ c \in Nat /\ Kept(calls, kept)[c] = calls[j]
        /\ \A before \in 1..(c - 1) :
             /\ before \in DOMAIN Kept(calls, kept)
             /\ \E a \in 1..(j - 1) : Kept(calls, kept)[before] = calls[a]
  <2>1. calls \in Seq(CallRecs) /\ kept \subseteq DOMAIN calls /\ j \in kept
    BY <1>1, <1>3 DEF kept
  <2> QED
    BY <2>1, KeptRank
<1>5. \A a \in 1..(j - 1) : a \in DOMAIN calls
  <2>1. DOMAIN memo.calls = 1..Len(memo.calls) /\ Len(memo.calls) \in Nat
    BY MemoTypes
  <2> QED
    BY <1>1, <2>1
<1> QED
  BY <1>1, <1>2, <1>4, <1>5 DEF kept

LEMMA MemoLeft ==
  ASSUME NEW memos \in Content, NEW key \in Keys, NEW i \in DOMAIN memos,
         memos[i].module = key.module => MemoWithout(memos[i], key).calls # <<>>
  PROVE  LET removed == RemovedFrom(memos, key)
         IN  \E m \in DOMAIN removed :
               /\ removed[m] = MemoWithout(memos[i], key)
               /\ \A before \in 1..(m - 1) :
                    /\ before \in DOMAIN removed
                    /\ \E a \in 1..(i - 1) : /\ a \in DOMAIN memos
                                             /\ removed[before] = MemoWithout(memos[a], key)
<1> DEFINE edited == MemosWithout(memos, key)
           removed == RemovedFrom(memos, key)
<1>1. /\ edited \in Seq(MemoRecs) /\ DOMAIN edited = DOMAIN memos
      /\ \A a \in DOMAIN edited : edited[a] = MemoWithout(memos[a], key)
      /\ MemosLeft(edited, key) \subseteq DOMAIN edited
      /\ removed = Kept(edited, MemosLeft(edited, key))
  BY MemosWithoutFacts
<1>2. MemoWithout(memos[i], key).module = memos[i].module
  BY ContentTypes, MemoWithoutFacts
<1>3. \A a \in 1..(i - 1) : a \in DOMAIN memos
  BY ContentTypes
<1> HIDE DEF edited, removed
<1>4. i \in MemosLeft(edited, key)
  BY <1>1, <1>2 DEF MemosLeft
<1>5. PICK m \in DOMAIN removed :
        /\ removed[m] = edited[i]
        /\ \A before \in 1..(m - 1) :
             before \in DOMAIN removed /\ \E a \in 1..(i - 1) : removed[before] = edited[a]
  BY <1>1, <1>4, KeptRank
<1> QED
  BY <1>1, <1>3, <1>5 DEF removed

(* Remove keeps the first position of every other key first. *)
LEMMA RemovedFirst ==
  ASSUME NEW memos \in Content, NEW key \in Keys, NEW k \in Keys, k # key,
         NEW i, NEW j, NEW n, First(memos, k, i, j, n)
  PROVE  LET removed == RemovedFrom(memos, key)
         IN  \E i2, j2, n2 : /\ First(removed, k, i2, j2, n2)
                             /\ Out(removed, i2, j2, n2) = Out(memos, i, j, n)
<1> DEFINE removed == RemovedFrom(memos, key)
           memo == memos[i]
           call == memo.calls[j]
<1>1. /\ At(memos, k, i, j, n)
      /\ \A before \in 1..(i - 1) : ~HasIn(memos[before], k)
      /\ \A before \in 1..(j - 1) : ~Has(memo.calls[before], k)
      /\ \A before \in 1..(n - 1) : call.results[before].input # k.input
  BY DEF First
<1>2. /\ i \in DOMAIN memos /\ memo.module = k.module
      /\ j \in DOMAIN memo.calls /\ call.binding = k.binding
      /\ n \in DOMAIN call.results /\ call.results[n].input = k.input
  BY <1>1 DEF At
<1>3. memo \in MemoRecs /\ call \in CallRecs
  BY <1>1, AtTypes
<1>4. MemoWithout(memo, key).module = memo.module
  BY <1>3, MemoWithoutFacts
<1>5. \A a \in DOMAIN memos : memos[a] \in MemoRecs
  BY ContentTypes
<1> HIDE DEF memo, call
<1>6. ASSUME NEW m \in DOMAIN removed, removed[m] = MemoWithout(memo, key),
             \A before \in 1..(m - 1) :
               /\ before \in DOMAIN removed
               /\ \E a \in 1..(i - 1) : /\ a \in DOMAIN memos
                                        /\ removed[before] = MemoWithout(memos[a], key)
      PROVE  \A before \in 1..(m - 1) : ~HasIn(removed[before], k)
  BY <1>1, <1>5, <1>6, HasInWas
<1>7. CASE memo.module # key.module
  <2>1. MemoWithout(memo, key) = memo
    BY <1>3, <1>7, MemoWithoutFacts
  <2>2. PICK m \in DOMAIN removed :
          /\ removed[m] = MemoWithout(memo, key)
          /\ \A before \in 1..(m - 1) :
               /\ before \in DOMAIN removed
               /\ \E a \in 1..(i - 1) : /\ a \in DOMAIN memos
                                        /\ removed[before] = MemoWithout(memos[a], key)
    BY <1>2, <1>7, MemoLeft DEF memo
  <2>3. \A before \in 1..(m - 1) : ~HasIn(removed[before], k)
    BY <1>6, <2>2
  <2> HIDE DEF removed
  <2>4. First(removed, k, m, j, n)
    BY <1>1, <1>2, <2>1, <2>2, <2>3 DEF First, At, call
  <2>5. Out(removed, m, j, n) = Out(memos, i, j, n)
    BY <2>1, <2>2 DEF Out, memo
  <2> QED
    BY <2>4, <2>5 DEF removed
<1>8. CASE memo.module = key.module
  <2> DEFINE call2 == CallWithout(call, key)
             memo2 == MemoWithout(memo, key)
  <2>1. call.binding = key.binding => call.results[n].input # key.input
    BY <1>2, <1>8, SameKey
  <2>2. PICK r \in DOMAIN call2.results :
          /\ call2.results[r] = call.results[n]
          /\ \A before \in 1..(r - 1) :
               \E a \in 1..(n - 1) : call2.results[before] = call.results[a]
    BY <1>2, <1>3, <2>1, ResultLeft
  <2>3. call2.binding = call.binding /\ call2.results # <<>>
    BY <1>3, <2>2, CallWithoutFacts
  <2>4. PICK c \in DOMAIN memo2.calls :
          /\ memo2.calls[c] = call2
          /\ \A before \in 1..(c - 1) : \E a \in 1..(j - 1) :
               memo2.calls[before] = CallWithout(memo.calls[a], key)
    BY <1>2, <1>3, <1>8, <2>3, CallLeft DEF call
  <2>5. memo2.calls # <<>>
    BY <2>4
  <2>6. PICK m \in DOMAIN removed :
          /\ removed[m] = memo2
          /\ \A before \in 1..(m - 1) :
               /\ before \in DOMAIN removed
               /\ \E a \in 1..(i - 1) : /\ a \in DOMAIN memos
                                        /\ removed[before] = MemoWithout(memos[a], key)
    BY <1>2, <2>5, MemoLeft DEF memo
  <2>7. \A before \in 1..(m - 1) : ~HasIn(removed[before], k)
    BY <1>6, <2>6
  <2>8. ASSUME NEW before \in 1..(c - 1) PROVE ~Has(memo2.calls[before], k)
    <3>1. PICK a \in 1..(j - 1) : memo2.calls[before] = CallWithout(memo.calls[a], key)
      BY <2>4
    <3>2. memo.calls[a] \in CallRecs
      <4>1. DOMAIN memo.calls = 1..Len(memo.calls) /\ Len(memo.calls) \in Nat
        BY <1>3, MemoTypes
      <4>2. a \in DOMAIN memo.calls
        BY <1>2, <4>1
      <4> QED
        BY <1>3, <4>2, MemoTypes
    <3> QED
      BY <1>1, <3>1, <3>2, HasWas
  <2>9. \A before \in 1..(r - 1) : call2.results[before].input # k.input
    BY <1>1, <2>2
  <2> HIDE DEF removed, call2, memo2
  <2>10. memo2.module = k.module
    BY <1>2, <1>4 DEF memo2
  <2>11. At(removed, k, m, c, r)
    BY <1>2, <2>2, <2>3, <2>4, <2>6, <2>10 DEF At
  <2>12. First(removed, k, m, c, r)
    BY <2>4, <2>6, <2>7, <2>8, <2>9, <2>11 DEF First
  <2>13. Out(removed, m, c, r) = Out(memos, i, j, n)
    BY <2>2, <2>4, <2>6 DEF Out, memo, call
  <2> QED
    BY <2>12, <2>13 DEF removed
<1> QED
  BY <1>7, <1>8

(* Remove, as the table sees it. *)
LEMMA RemoveTable ==
  ASSUME NEW memos \in Content, NEW key \in Keys
  PROVE  /\ RemovedFrom(memos, key) \in Content
         /\ AsTable(RemovedFrom(memos, key)) = [AsTable(memos) EXCEPT ![key] = NoOutput]
<1> DEFINE removed == RemovedFrom(memos, key)
<1>1. removed \in Content
  BY MemosWithoutFacts
<1>2. \A k \in Keys, m \in DOMAIN removed :
        HasIn(removed[m], k) => k # key /\ \E i \in DOMAIN memos : HasIn(memos[i], k)
  BY RemovedAt
<1>3. \A k \in Keys : k # key =>
        \A i, j, n : First(memos, k, i, j, n) =>
          \E i2, j2, n2 : /\ First(removed, k, i2, j2, n2)
                          /\ Out(removed, i2, j2, n2) = Out(memos, i, j, n)
  BY RemovedFirst
<1> HIDE DEF removed
<1>4. Retrieved(removed, key) = NoOutput
  BY <1>2 DEF Retrieved
<1>5. ASSUME NEW k \in Keys, k # key PROVE Retrieved(removed, k) = Retrieved(memos, k)
  <2>1. ASSUME NEW i, NEW j, NEW n, At(removed, k, i, j, n)
        PROVE  \E i2, j2, n2 : At(memos, k, i2, j2, n2)
    <3>1. i \in DOMAIN removed /\ HasIn(removed[i], k)
      BY <1>1, <2>1, HasInAt DEF At
    <3>2. PICK i2 \in DOMAIN memos : HasIn(memos[i2], k)
      BY <1>2, <3>1
    <3> QED
      BY <3>2, HasInAt
  <2> QED
    BY <1>1, <1>3, <1>5, <2>1, RetrievedSame
<1>6. AsTable(removed) = [AsTable(memos) EXCEPT ![key] = NoOutput]
  BY <1>4, <1>5 DEF AsTable
<1> QED
  BY <1>1, <1>6 DEF removed

-----------------------------------------------------------------------------
(* bump, as the table sees it. *)
KeyAt(module, call, n) ==
  [module |-> module, binding |-> call.binding, input |-> call.results[n].input]

LEMMA BumpedCallFacts ==
  ASSUME NEW module \in Modules, NEW call \in CallRecs, NEW recomputed \in [Keys -> Outputs]
  PROVE  LET bumped == BumpedCall(module, call, recomputed)
         IN  /\ bumped \in CallRecs /\ bumped.binding = call.binding
             /\ DOMAIN bumped.results = DOMAIN call.results
             /\ \A n \in DOMAIN call.results :
                  /\ KeyAt(module, call, n) \in Keys
                  /\ bumped.results[n].input = call.results[n].input
                  /\ bumped.results[n].output = recomputed[KeyAt(module, call, n)]
<1> DEFINE KeyOf(n) == KeyAt(module, call, n)
           results == [n \in DOMAIN call.results |->
                         ResultOf(call.results[n], recomputed[KeyOf(n)])]
<1>1. /\ call.binding \in Bindings
      /\ Len(call.results) \in Nat /\ DOMAIN call.results = 1..Len(call.results)
      /\ \A n \in DOMAIN call.results : call.results[n].input \in Inputs
  BY CallTypes
<1>2. \A n \in DOMAIN call.results : KeyOf(n) \in Keys /\ recomputed[KeyOf(n)] \in Outputs
  BY <1>1 DEF Keys, KeyAt
<1> HIDE DEF KeyOf
<1>3. \A n \in DOMAIN call.results :
        /\ results[n] \in ResultRecs
        /\ results[n].input = call.results[n].input
        /\ results[n].output = recomputed[KeyOf(n)]
  BY <1>1, <1>2 DEF ResultOf, ResultRecs
<1>4. results \in Seq(ResultRecs) /\ DOMAIN results = DOMAIN call.results
  <2>1. results \in [1..Len(call.results) -> ResultRecs]
    BY <1>1, <1>3
  <2> QED
    BY <1>1, <2>1, SeqDef
<1>5. BumpedCall(module, call, recomputed) = [call EXCEPT !.results = results]
  BY DEF BumpedCall, KeyOf, KeyAt
<1> HIDE DEF results
<1>6. BumpedCall(module, call, recomputed) \in CallRecs
      /\ BumpedCall(module, call, recomputed).binding = call.binding
      /\ BumpedCall(module, call, recomputed).results = results
  BY <1>4, <1>5 DEF CallRecs
<1> QED
  BY <1>2, <1>3, <1>4, <1>6 DEF KeyOf

LEMMA BumpedFacts ==
  ASSUME NEW memos \in Content, NEW recomputed \in [Keys -> Outputs]
  PROVE  LET bumped == Bumped(memos, recomputed)
         IN  /\ bumped \in Content /\ DOMAIN bumped = DOMAIN memos
             /\ \A i \in DOMAIN memos :
                  /\ bumped[i].module = memos[i].module
                  /\ DOMAIN bumped[i].calls = DOMAIN memos[i].calls
                  /\ \A j \in DOMAIN memos[i].calls :
                       bumped[i].calls[j]
                         = BumpedCall(memos[i].module, memos[i].calls[j], recomputed)
<1> DEFINE calls(i) == [j \in DOMAIN memos[i].calls |->
                          BumpedCall(memos[i].module, memos[i].calls[j], recomputed)]
           memo(i) == [memos[i] EXCEPT !.calls = calls(i)]
<1>1. ASSUME NEW i \in DOMAIN memos
      PROVE  /\ memo(i) \in MemoRecs /\ memo(i).module = memos[i].module
             /\ memo(i).calls = calls(i)
  <2>1. /\ memos[i] \in MemoRecs /\ memos[i].module \in Modules
        /\ DOMAIN memos[i].calls = 1..Len(memos[i].calls) /\ Len(memos[i].calls) \in Nat
    BY AllTypes, MemoTypes
  <2>2. \A j \in DOMAIN memos[i].calls :
          BumpedCall(memos[i].module, memos[i].calls[j], recomputed) \in CallRecs
    BY <2>1, AllTypes, BumpedCallFacts
  <2>3. calls(i) \in [1..Len(memos[i].calls) -> CallRecs]
    BY <2>1, <2>2
  <2>4. calls(i) \in Seq(CallRecs)
    BY <2>1, <2>3, SeqDef
  <2> HIDE DEF calls
  <2> QED
    BY <2>1, <2>4 DEF MemoRecs
<1>2. Bumped(memos, recomputed) = [i \in DOMAIN memos |-> memo(i)]
  BY DEF Bumped
<1> HIDE DEF memo
<1>3. /\ DOMAIN Bumped(memos, recomputed) = DOMAIN memos
      /\ \A i \in DOMAIN memos : Bumped(memos, recomputed)[i] = memo(i)
  BY <1>2
<1>4. Bumped(memos, recomputed) \in Content
  <2>1. DOMAIN memos = 1..Len(memos) /\ Len(memos) \in Nat
    BY ContentTypes
  <2>2. Bumped(memos, recomputed) \in [1..Len(memos) -> MemoRecs]
    BY <1>1, <1>2, <2>1
  <2> QED
    BY <2>1, <2>2, SeqDef DEF Content
<1>5. ASSUME NEW i \in DOMAIN memos
      PROVE  /\ Bumped(memos, recomputed)[i].module = memos[i].module
             /\ Bumped(memos, recomputed)[i].calls = calls(i)
  BY <1>1, <1>3
<1> QED
  BY <1>3, <1>4, <1>5

LEMMA BumpedAt ==
  ASSUME NEW memos \in Content, NEW recomputed \in [Keys -> Outputs], NEW key \in Keys,
         NEW i, NEW j, NEW n
  PROVE  LET bumped == Bumped(memos, recomputed)
         IN  /\ At(bumped, key, i, j, n) <=> At(memos, key, i, j, n)
             /\ At(memos, key, i, j, n) => Out(bumped, i, j, n) = recomputed[key]
<1> DEFINE bumped == Bumped(memos, recomputed)
<1>0. /\ bumped \in Content /\ DOMAIN bumped = DOMAIN memos
      /\ \A x \in DOMAIN memos :
           /\ bumped[x].module = memos[x].module
           /\ DOMAIN bumped[x].calls = DOMAIN memos[x].calls
           /\ \A y \in DOMAIN memos[x].calls :
                bumped[x].calls[y] = BumpedCall(memos[x].module, memos[x].calls[y], recomputed)
  BY BumpedFacts
<1> HIDE DEF bumped
<1>1. ASSUME i \in DOMAIN memos, j \in DOMAIN memos[i].calls
      PROVE  /\ bumped[i].calls[j].binding = memos[i].calls[j].binding
             /\ DOMAIN bumped[i].calls[j].results = DOMAIN memos[i].calls[j].results
             /\ n \in DOMAIN memos[i].calls[j].results =>
                  /\ bumped[i].calls[j].results[n].input
                       = memos[i].calls[j].results[n].input
                  /\ bumped[i].calls[j].results[n].output
                       = recomputed[KeyAt(memos[i].module, memos[i].calls[j], n)]
  <2>1. memos[i].module \in Modules /\ memos[i].calls[j] \in CallRecs
    BY <1>1, AllTypes, MemoTypes
  <2> DEFINE module == memos[i].module
             call == memos[i].calls[j]
  <2>2. bumped[i].calls[j] = BumpedCall(module, call, recomputed)
    BY <1>0, <1>1
  <2> HIDE DEF module, call
  <2>3. module \in Modules /\ call \in CallRecs
    BY <2>1 DEF module, call
  <2>4. /\ BumpedCall(module, call, recomputed).binding = call.binding
        /\ DOMAIN BumpedCall(module, call, recomputed).results = DOMAIN call.results
    BY <2>3, BumpedCallFacts
  <2>5. ASSUME n \in DOMAIN call.results
        PROVE  /\ BumpedCall(module, call, recomputed).results[n].input
                    = call.results[n].input
               /\ BumpedCall(module, call, recomputed).results[n].output
                    = recomputed[KeyAt(module, call, n)]
    BY <2>3, <2>5, BumpedCallFacts
  <2> QED
    BY <2>2, <2>4, <2>5 DEF module, call
<1>2. At(bumped, key, i, j, n) <=> At(memos, key, i, j, n)
  BY <1>0, <1>1 DEF At
<1>3. ASSUME At(memos, key, i, j, n) PROVE Out(bumped, i, j, n) = recomputed[key]
  <2>1. key = [module |-> key.module, binding |-> key.binding, input |-> key.input]
    BY DEF Keys
  <2> QED
    BY <1>1, <1>3, <2>1 DEF At, Out, KeyAt
<1> QED
  BY <1>2, <1>3 DEF bumped

LEMMA BumpTable ==
  ASSUME NEW memos \in Content, NEW recomputed \in [Keys -> Outputs]
  PROVE  /\ Bumped(memos, recomputed) \in Content
         /\ AsTable(Bumped(memos, recomputed))
              = [key \in Keys |-> IF AsTable(memos)[key] = NoOutput THEN NoOutput
                                  ELSE recomputed[key]]
<1> DEFINE bumped == Bumped(memos, recomputed)
<1>1. bumped \in Content
  BY BumpedFacts
<1>2. \A key \in Keys : \A i, j, n :
        /\ At(bumped, key, i, j, n) <=> At(memos, key, i, j, n)
        /\ At(memos, key, i, j, n) => Out(bumped, i, j, n) = recomputed[key]
  BY BumpedAt
<1> HIDE DEF bumped
<1>3. ASSUME NEW key \in Keys
      PROVE  Retrieved(bumped, key) = IF Retrieved(memos, key) = NoOutput THEN NoOutput
                                      ELSE recomputed[key]
  <2>1. CASE \E i, j, n : At(memos, key, i, j, n)
    <3>1. Retrieved(bumped, key) = recomputed[key]
      BY <1>1, <1>2, <2>1, RetrievedAll
    <3>2. Retrieved(memos, key) # NoOutput
      BY <2>1, RetrievedTypes
    <3> QED
      BY <3>1, <3>2
  <2>2. CASE \A i, j, n : ~At(memos, key, i, j, n)
    BY <1>1, <1>2, <2>2, RetrievedNone
  <2> QED
    BY <2>1, <2>2
<1> QED
  BY <1>1, <1>3 DEF AsTable, bumped

-----------------------------------------------------------------------------
(* What is known of a key after an edit: nothing that was not, except what *)
(* was stored or recomputed.                                               *)
LEMMA KnownAt ==
  ASSUME NEW memos \in Content, NEW key \in Keys, NEW out
  PROVE  out \in Known(memos, key)
           <=> \E i, j, n : At(memos, key, i, j, n) /\ Out(memos, i, j, n) = out
<1>1. ASSUME out \in Known(memos, key)
      PROVE  \E i, j, n : At(memos, key, i, j, n) /\ Out(memos, i, j, n) = out
  <2>1. PICK i \in DOMAIN memos :
          \E j \in DOMAIN memos[i].calls :
            /\ memos[i].module = key.module
            /\ memos[i].calls[j].binding = key.binding
            /\ \E n \in DOMAIN memos[i].calls[j].results :
                 memos[i].calls[j].results[n] = ResultOf(key, out)
    BY <1>1 DEF Known
  <2>2. PICK j \in DOMAIN memos[i].calls :
          /\ memos[i].module = key.module
          /\ memos[i].calls[j].binding = key.binding
          /\ \E n \in DOMAIN memos[i].calls[j].results :
               memos[i].calls[j].results[n] = ResultOf(key, out)
    BY <2>1
  <2>3. PICK n \in DOMAIN memos[i].calls[j].results :
          memos[i].calls[j].results[n] = ResultOf(key, out)
    BY <2>2
  <2>4. ResultOf(key, out).input = key.input /\ ResultOf(key, out).output = out
    BY DEF ResultOf
  <2>5. At(memos, key, i, j, n) /\ Out(memos, i, j, n) = out
    BY <2>2, <2>3, <2>4 DEF At, Out
  <2> QED
    BY <2>5
<1>2. ASSUME NEW i, NEW j, NEW n, At(memos, key, i, j, n), Out(memos, i, j, n) = out
      PROVE  out \in Known(memos, key)
  <2>1. memos[i].calls[j].results[n] = ResultOf(key, out) /\ out \in Outputs
    BY <1>2, AtTypes DEF ResultOf
  <2> QED
    BY <1>2, <2>1 DEF Known, At
<1> QED
  BY <1>1, <1>2

LEMMA KnownStored ==
  ASSUME NEW memos \in Content, NEW key \in Keys, NEW out \in Outputs, NEW k \in Keys
  PROVE  Known(StoredIn(memos, key, out), k)
           \subseteq Known(memos, k) \cup (IF k = key THEN {out} ELSE {})
<1>1. StoredIn(memos, key, out) \in Content
  BY StoredInFacts
<1>2. CASE k = key
  BY <1>1, <1>2, KnownAt, StoredAtKey
<1>3. CASE k # key
  <2>1. ASSUME NEW o \in Known(StoredIn(memos, key, out), k) PROVE o \in Known(memos, k)
    <3>1. PICK i, j, n : /\ At(StoredIn(memos, key, out), k, i, j, n)
                         /\ Out(StoredIn(memos, key, out), i, j, n) = o
      BY <1>1, KnownAt
    <3>2. At(memos, k, i, j, n) /\ Out(memos, i, j, n) = o
      BY <1>3, <3>1, StoredAtOther
    <3> QED
      BY <3>2, KnownAt
  <2> QED
    BY <2>1
<1> QED
  BY <1>2, <1>3

LEMMA KnownRemoved ==
  ASSUME NEW memos \in Content, NEW key \in Keys, NEW k \in Keys
  PROVE  Known(RemovedFrom(memos, key), k) \subseteq Known(memos, k)
<1> DEFINE removed == RemovedFrom(memos, key)
<1>1. removed \in Content
  BY MemosWithoutFacts
<1>2. ASSUME NEW i, NEW j, NEW n, At(removed, k, i, j, n)
      PROVE  Out(removed, i, j, n) \in Known(memos, k)
  <2>1. /\ i \in DOMAIN removed /\ removed[i].module = k.module
        /\ j \in DOMAIN removed[i].calls /\ removed[i].calls[j].binding = k.binding
        /\ n \in DOMAIN removed[i].calls[j].results
        /\ removed[i].calls[j].results[n].input = k.input
    BY <1>2 DEF At
  <2>2. PICK i2 \in DOMAIN memos : removed[i] = MemoWithout(memos[i2], key)
    BY <2>1, MemoWas
  <2> HIDE DEF removed
  <2>3. memos[i2] \in MemoRecs /\ memos[i2].module = k.module
    BY <2>1, <2>2, ContentTypes, MemoWithoutFacts
  <2>4. PICK j2 \in DOMAIN memos[i2].calls :
          removed[i].calls[j] = IF memos[i2].module = key.module
                                THEN CallWithout(memos[i2].calls[j2], key)
                                ELSE memos[i2].calls[j2]
    BY <2>1, <2>2, <2>3, CallWas
  <2>5. memos[i2].calls[j2] \in CallRecs
    BY <2>3, MemoTypes
  <2>6. memos[i2].calls[j2].binding = k.binding
    BY <2>1, <2>4, <2>5, CallWithoutFacts
  <2>7. PICK n2 \in DOMAIN memos[i2].calls[j2].results :
          removed[i].calls[j].results[n] = memos[i2].calls[j2].results[n2]
    BY <2>1, <2>4, <2>5, ResultWas
  <2>8. At(memos, k, i2, j2, n2) /\ Out(memos, i2, j2, n2) = Out(removed, i, j, n)
    BY <2>1, <2>3, <2>6, <2>7 DEF At, Out
  <2> QED
    BY <2>8, KnownAt
<1> HIDE DEF removed
<1> QED
  BY <1>1, <1>2, KnownAt DEF removed

LEMMA KnownBumped ==
  ASSUME NEW memos \in Content, NEW recomputed \in [Keys -> Outputs], NEW k \in Keys
  PROVE  Known(Bumped(memos, recomputed), k)
           \subseteq IF Known(memos, k) = {} THEN {} ELSE {recomputed[k]}
<1>1. Bumped(memos, recomputed) \in Content
  BY BumpedFacts
<1>2. \A i, j, n : At(Bumped(memos, recomputed), k, i, j, n) =>
        /\ At(memos, k, i, j, n)
        /\ Out(Bumped(memos, recomputed), i, j, n) = recomputed[k]
  BY BumpedAt
<1>3. ASSUME NEW out \in Known(Bumped(memos, recomputed), k)
      PROVE  out = recomputed[k] /\ Known(memos, k) # {}
  <2>1. PICK i, j, n : /\ At(Bumped(memos, recomputed), k, i, j, n)
                       /\ Out(Bumped(memos, recomputed), i, j, n) = out
    BY <1>1, KnownAt
  <2>2. At(memos, k, i, j, n) /\ out = recomputed[k]
    BY <1>2, <2>1
  <2>3. Out(memos, i, j, n) \in Known(memos, k)
    BY <2>2, KnownAt
  <2> QED
    BY <2>2, <2>3
<1> QED
  BY <1>3

(* Contents made of the memos of others know what those do. *)
LEMMA KnownOfParts ==
  ASSUME NEW a \in Content, NEW b \in Content, NEW whole \in Content, NEW k \in Keys,
         \A i \in DOMAIN whole : \/ \E j \in DOMAIN a : whole[i] = a[j]
                                 \/ \E j \in DOMAIN b : whole[i] = b[j]
  PROVE  Known(whole, k) \subseteq Known(a, k) \cup Known(b, k)
<1> SUFFICES ASSUME NEW out \in Known(whole, k)
             PROVE  out \in Known(a, k) \cup Known(b, k)
  OBVIOUS
<1>1. PICK i, j, n : At(whole, k, i, j, n) /\ Out(whole, i, j, n) = out
  BY KnownAt
<1>2. i \in DOMAIN whole
  BY <1>1 DEF At
<1>3. ASSUME NEW c \in Content, NEW m \in DOMAIN c, whole[i] = c[m]
      PROVE  out \in Known(c, k)
  <2>1. At(c, k, m, j, n) /\ Out(c, m, j, n) = out
    BY <1>1, <1>3 DEF At, Out
  <2> QED
    BY <2>1, KnownAt
<1> QED
  BY <1>2, <1>3

LEMMA KnownSubSeq ==
  ASSUME NEW memos \in Content, NEW from \in Int, NEW to \in Int, NEW k \in Keys,
         1 <= from, to <= Len(memos)
  PROVE  /\ SubSeq(memos, from, to) \in Content
         /\ Known(SubSeq(memos, from, to), k) \subseteq Known(memos, k)
<1> DEFINE part == SubSeq(memos, from, to)
<1>1. DOMAIN memos = 1..Len(memos) /\ Len(memos) \in Nat
  BY ContentTypes
<1>2. part \in Content /\ \A i \in DOMAIN part : \E j \in DOMAIN memos : part[i] = memos[j]
  BY <1>1, SubSeqProperties DEF Content
<1> HIDE DEF part
<1>3. Known(part, k) \subseteq Known(memos, k) \cup Known(memos, k)
  BY <1>2, KnownOfParts
<1> QED
  BY <1>2, <1>3 DEF part

LEMMA KnownConcat ==
  ASSUME NEW a \in Content, NEW b \in Content, NEW k \in Keys
  PROVE  a \o b \in Content /\ Known(a \o b, k) \subseteq Known(a, k) \cup Known(b, k)
<1>1. /\ DOMAIN a = 1..Len(a) /\ Len(a) \in Nat
      /\ DOMAIN b = 1..Len(b) /\ Len(b) \in Nat
  BY ContentTypes
<1>2. a \o b \in Content /\ Len(a \o b) = Len(a) + Len(b)
      /\ \A i \in 1..(Len(a) + Len(b)) :
           (a \o b)[i] = IF i <= Len(a) THEN a[i] ELSE b[i - Len(a)]
  BY ConcatProperties DEF Content
<1>3. ASSUME NEW i \in DOMAIN (a \o b)
      PROVE  \/ \E j \in DOMAIN a : (a \o b)[i] = a[j]
             \/ \E j \in DOMAIN b : (a \o b)[i] = b[j]
  <2>1. i \in 1..(Len(a) + Len(b))
    BY <1>2, ContentTypes
  <2>2. CASE i <= Len(a)
    BY <1>1, <1>2, <2>1, <2>2
  <2>3. CASE ~(i <= Len(a))
    <3>1. i - Len(a) \in DOMAIN b
      BY <1>1, <2>1, <2>3
    <3> QED
      BY <1>2, <2>1, <2>3, <3>1
  <2> QED
    BY <2>2, <2>3
<1> QED
  BY <1>2, <1>3, KnownOfParts

(* Nothing is known of an empty content. *)
LEMMA KnownEmpty ==
  ASSUME NEW k \in Keys
  PROVE  <<>> \in Content /\ Known(<<>>, k) = {}
  BY DEF Content, Known

-----------------------------------------------------------------------------
(* What it means to have no duplicates, level by level. *)
OneMemoEach(content) ==
  \A i, j \in DOMAIN content : content[i].module = content[j].module => i = j

OneCallEach(memo) ==
  \A i, j \in DOMAIN memo.calls : memo.calls[i].binding = memo.calls[j].binding => i = j

OneResultEach(call) ==
  \A i, j \in DOMAIN call.results : call.results[i].input = call.results[j].input => i = j

UniqueIn(memo) ==
  OneCallEach(memo) /\ \A j \in DOMAIN memo.calls : OneResultEach(memo.calls[j])

LEMMA UniqueMeans ==
  ASSUME NEW content
  PROVE  Unique(content) <=> /\ OneMemoEach(content)
                             /\ \A i \in DOMAIN content : UniqueIn(content[i])
  BY DEF Unique, NoRepeat, OneMemoEach, UniqueIn, OneCallEach, OneResultEach

(* Places that are kept are of elements that differ if those of seq do. *)
LEMMA KeptApart ==
  ASSUME NEW S, NEW seq \in Seq(S), NEW kept, kept \subseteq DOMAIN seq
  PROVE  \A n, m \in DOMAIN Kept(seq, kept) :
           \E i, j \in kept : /\ Kept(seq, kept)[n] = seq[i] /\ Kept(seq, kept)[m] = seq[j]
                              /\ i = j => n = m
<1>1. kept \subseteq 1..Len(seq) /\ Len(seq) \in Nat
  BY LenProperties
<1>2. DOMAIN Kept(seq, kept) = 1..Cardinality(kept)
  BY KeptFacts
<1>3. \A n \in 1..Cardinality(kept) :
        /\ Place(kept, n) \in kept /\ Kept(seq, kept)[n] = seq[Place(kept, n)]
  BY KeptFacts
<1>4. \A n \in 1..Cardinality(kept) : Rank(kept, Place(kept, n)) = n
  BY <1>1, PlaceFacts
<1>5. ASSUME NEW n \in 1..Cardinality(kept), NEW m \in 1..Cardinality(kept),
             Place(kept, n) = Place(kept, m)
      PROVE  n = m
  BY <1>4, <1>5
<1> QED
  BY <1>2, <1>3, <1>5

(* Store makes no duplicates. *)
LEMMA StoreUnique ==
  ASSUME NEW memos \in Content, NEW key \in Keys, NEW out \in Outputs, Unique(memos)
  PROVE  Unique(StoredIn(memos, key, out))
<1> DEFINE stored == StoredIn(memos, key, out)
<1>1. /\ OneMemoEach(memos) /\ \A i \in DOMAIN memos : UniqueIn(memos[i])
      /\ DOMAIN memos = 1..Len(memos) /\ Len(memos) \in Nat
  BY UniqueMeans, ContentTypes
<1>2. OneMemoEach(stored)
  <2>1. CASE \E i \in DOMAIN memos : memos[i].module = key.module
    <3>1. /\ DOMAIN stored = DOMAIN memos
          /\ \A i \in DOMAIN memos : stored[i].module = memos[i].module
      BY <2>1, StoredInFacts
    <3> HIDE DEF stored
    <3> QED
      BY <1>1, <3>1 DEF OneMemoEach
  <2>2. CASE ~ \E i \in DOMAIN memos : memos[i].module = key.module
    <3>1. /\ DOMAIN stored = 1..(Len(memos) + 1)
          /\ stored[Len(memos) + 1].module = key.module
          /\ \A i \in DOMAIN memos : stored[i].module = memos[i].module
      BY <2>2, StoredInFacts, NewParts
    <3> HIDE DEF stored
    <3> QED
      BY <1>1, <2>2, <3>1 DEF OneMemoEach
  <2> QED
    BY <2>1, <2>2
<1>3. ASSUME NEW i \in DOMAIN memos, memos[i].module = key.module
      PROVE  UniqueIn(stored[i])
  <2> DEFINE calls == memos[i].calls
             new == stored[i].calls
             each(j) == StoredInCall(memos, key, out, i, j)
  <2>1. /\ OneCallEach(memos[i]) /\ \A j \in DOMAIN calls : OneResultEach(calls[j])
        /\ DOMAIN calls = 1..Len(calls) /\ Len(calls) \in Nat
    BY <1>1, AllTypes DEF UniqueIn
  <2>2. new = StoredInCalls(memos, key, out, i)
    BY <1>3, StoredInFacts
  <2>3. /\ \A j \in DOMAIN calls : new[j] = each(j)
        /\ FoundCall(memos, key, i) => DOMAIN new = DOMAIN calls
        /\ ~FoundCall(memos, key, i) => /\ DOMAIN new = 1..(Len(calls) + 1)
                                        /\ new[Len(calls) + 1] = CallOf(key, out)
    BY <2>2, StoredInCallsFacts
  <2>4. \A j \in DOMAIN calls : each(j).binding = calls[j].binding
    BY StoredInCallFacts
  <2>5. ASSUME NEW j \in DOMAIN calls PROVE OneResultEach(each(j))
    <3> DEFINE call == calls[j]
    <3>1. call \in CallRecs /\ OneResultEach(call)
      BY <2>1, AllTypes
    <3>2. /\ call.results \in Seq(ResultRecs) /\ Len(call.results) \in Nat
          /\ DOMAIN call.results = 1..Len(call.results)
          /\ ResultOf(key, out) \in ResultRecs /\ ResultOf(key, out).input = key.input
      BY <3>1, CallTypes, NewParts
    <3>3. /\ call.binding # key.binding => each(j) = call
          /\ call.binding = key.binding /\ Updated(memos, key, i, j) =>
               /\ DOMAIN each(j).results = DOMAIN call.results
               /\ \A n \in DOMAIN call.results :
                    each(j).results[n] = IF call.results[n].input = key.input
                                         THEN ResultOf(key, out) ELSE call.results[n]
          /\ call.binding = key.binding /\ ~Updated(memos, key, i, j) =>
               each(j).results = Append(call.results, ResultOf(key, out))
      BY StoredInCallFacts
    <3>4. ~Updated(memos, key, i, j) => ~Has(call, key)
      BY <1>1, <1>3, <2>1 DEF Updated
    <3> HIDE DEF call, each
    <3>5. CASE call.binding # key.binding
      BY <3>1, <3>3, <3>5
    <3>6. CASE call.binding = key.binding /\ Updated(memos, key, i, j)
      <4>1. \A n \in DOMAIN call.results : each(j).results[n].input = call.results[n].input
        BY <3>2, <3>3, <3>6
      <4> QED
        BY <3>1, <3>3, <3>6, <4>1 DEF OneResultEach
    <3>7. CASE call.binding = key.binding /\ ~Updated(memos, key, i, j)
      <4>1. \A n \in DOMAIN call.results : call.results[n].input # key.input
        BY <3>4, <3>7 DEF Has
      <4>2. /\ DOMAIN each(j).results = 1..(Len(call.results) + 1)
            /\ each(j).results[Len(call.results) + 1] = ResultOf(key, out)
            /\ \A n \in DOMAIN call.results : each(j).results[n] = call.results[n]
        BY <3>2, <3>3, <3>7, AppendFacts
      <4>3. DOMAIN each(j).results = DOMAIN call.results \cup {Len(call.results) + 1}
        BY <3>2, <4>2, OneMore
      <4> QED
        BY <3>1, <3>2, <4>1, <4>2, <4>3 DEF OneResultEach
    <3> QED
      BY <3>5, <3>6, <3>7
  <2> HIDE DEF calls, new, each
  <2>6. CASE FoundCall(memos, key, i)
    <3>1. \A j \in DOMAIN new : j \in DOMAIN calls /\ new[j] = each(j)
      BY <2>3, <2>6
    <3>2. OneCallEach(stored[i])
      BY <2>1, <2>4, <3>1 DEF OneCallEach, new, calls
    <3>3. \A j \in DOMAIN new : OneResultEach(new[j])
      BY <2>5, <3>1
    <3> QED
      BY <3>2, <3>3 DEF UniqueIn, new
  <2>7. CASE ~FoundCall(memos, key, i)
    <3>1. \A j \in DOMAIN calls : calls[j].binding # key.binding
      BY <1>1, <1>3, <2>7 DEF FoundCall, CallsBinding, calls
    <3>2. /\ new[Len(calls) + 1].binding = key.binding
          /\ OneResultEach(new[Len(calls) + 1])
      BY <2>3, <2>7, NewParts DEF OneResultEach
    <3>3. \A j \in DOMAIN calls : /\ new[j].binding = calls[j].binding
                                  /\ OneResultEach(new[j])
      BY <2>3, <2>4, <2>5
    <3>4. DOMAIN new = DOMAIN calls \cup {Len(calls) + 1}
      BY <2>1, <2>3, <2>7, OneMore
    <3>5. OneCallEach(stored[i])
      BY <2>1, <3>1, <3>2, <3>3, <3>4 DEF OneCallEach, new, calls
    <3>6. \A j \in DOMAIN new : OneResultEach(new[j])
      BY <3>2, <3>3, <3>4
    <3> QED
      BY <3>5, <3>6 DEF UniqueIn, new
  <2> QED
    BY <2>6, <2>7
<1>4. ASSUME NEW i \in DOMAIN stored PROVE UniqueIn(stored[i])
  <2>1. CASE i \in DOMAIN memos /\ memos[i].module # key.module
    BY <1>1, <2>1, StoredInFacts
  <2>2. CASE i \in DOMAIN memos /\ memos[i].module = key.module
    BY <1>3, <2>2
  <2>3. CASE i \notin DOMAIN memos
    <3>1. DOMAIN stored = 1..(Len(memos) + 1) /\ stored[Len(memos) + 1] = MemoOf(key, out)
      BY <2>3, StoredInFacts
    <3>2. stored[i] = MemoOf(key, out)
      <4> HIDE DEF stored
      <4> QED
        BY <1>1, <2>3, <3>1
    <3>3. UniqueIn(MemoOf(key, out))
      BY NewParts DEF UniqueIn, OneCallEach, OneResultEach
    <3> QED
      BY <3>2, <3>3
  <2> QED
    BY <2>1, <2>2, <2>3
<1> HIDE DEF stored
<1> QED
  BY <1>2, <1>4, UniqueMeans DEF stored

(* Remove makes no duplicates. *)
LEMMA RemoveUnique ==
  ASSUME NEW memos \in Content, NEW key \in Keys, Unique(memos)
  PROVE  Unique(RemovedFrom(memos, key))
<1> DEFINE edited == MemosWithout(memos, key)
           left == MemosLeft(edited, key)
           removed == RemovedFrom(memos, key)
<1>1. /\ OneMemoEach(memos) /\ \A i \in DOMAIN memos : UniqueIn(memos[i])
      /\ \A i \in DOMAIN memos : memos[i] \in MemoRecs
  BY UniqueMeans, ContentTypes
<1>2. /\ edited \in Seq(MemoRecs) /\ DOMAIN edited = DOMAIN memos
      /\ \A i \in DOMAIN edited : edited[i] = MemoWithout(memos[i], key)
      /\ left \subseteq DOMAIN edited
      /\ removed = Kept(edited, left)
  BY MemosWithoutFacts
<1>3. ASSUME NEW call \in CallRecs, OneResultEach(call)
      PROVE  OneResultEach(CallWithout(call, key))
  <2>1. CASE call.binding # key.binding
    BY <1>3, <2>1, CallWithoutFacts
  <2>2. CASE call.binding = key.binding
    <3> DEFINE kept == OtherResults(call, key)
               results == call.results
    <3>1. results \in Seq(ResultRecs) /\ kept \subseteq DOMAIN results
      BY CallTypes DEF OtherResults
    <3>2. CallWithout(call, key).results = Kept(results, kept)
      BY <2>2, CallWithoutFacts
    <3>3. \A i, j \in DOMAIN results : results[i].input = results[j].input => i = j
      BY <1>3 DEF OneResultEach
    <3> HIDE DEF kept, results
    <3>4. \A n, m \in DOMAIN Kept(results, kept) :
            Kept(results, kept)[n].input = Kept(results, kept)[m].input => n = m
      BY <3>1, <3>3, KeptApart
    <3> QED
      BY <3>2, <3>4 DEF OneResultEach
  <2> QED
    BY <2>1, <2>2
<1>4. ASSUME NEW memo \in MemoRecs, UniqueIn(memo)
      PROVE  UniqueIn(MemoWithout(memo, key))
  <2>1. CASE memo.module # key.module
    BY <1>4, <2>1, MemoWithoutFacts
  <2>2. CASE memo.module = key.module
    <3> DEFINE calls == CallsWithout(memo, key)
               kept == CallsLeft(calls, key)
    <3>1. /\ calls \in Seq(CallRecs) /\ DOMAIN calls = DOMAIN memo.calls
          /\ \A j \in DOMAIN calls : calls[j] = CallWithout(memo.calls[j], key)
      BY CallsWithoutFacts
    <3>2. MemoWithout(memo, key).calls = Kept(calls, kept)
      BY <2>2, MemoWithoutFacts
    <3> HIDE DEF calls
    <3>3. kept \subseteq DOMAIN calls
      BY DEF CallsLeft
    <3> HIDE DEF kept
    <3>4. \A j \in DOMAIN calls : /\ memo.calls[j] \in CallRecs
                                  /\ calls[j].binding = memo.calls[j].binding
      BY <3>1, MemoTypes, CallWithoutFacts
    <3>5. \A i, j \in DOMAIN calls : calls[i].binding = calls[j].binding => i = j
      BY <1>4, <3>1, <3>4 DEF UniqueIn, OneCallEach
    <3>6. \A n, m \in DOMAIN Kept(calls, kept) :
            Kept(calls, kept)[n].binding = Kept(calls, kept)[m].binding => n = m
      BY <3>1, <3>3, <3>5, KeptApart
    <3>7. \A j \in DOMAIN calls : OneResultEach(calls[j])
      BY <1>3, <1>4, <3>1, <3>4 DEF UniqueIn
    <3>8. \A n \in DOMAIN Kept(calls, kept) : OneResultEach(Kept(calls, kept)[n])
      BY <3>1, <3>3, <3>7, KeptWas
    <3> QED
      BY <3>2, <3>6, <3>8 DEF UniqueIn, OneCallEach
  <2> QED
    BY <2>1, <2>2
<1> HIDE DEF edited, left, removed
<1>5. \A i, j \in DOMAIN edited : edited[i].module = edited[j].module => i = j
  BY <1>1, <1>2, MemoWithoutFacts DEF OneMemoEach
<1>6. OneMemoEach(removed)
  <2>1. \A n, m \in DOMAIN Kept(edited, left) :
          Kept(edited, left)[n].module = Kept(edited, left)[m].module => n = m
    BY <1>2, <1>5, KeptApart
  <2> QED
    BY <1>2, <2>1 DEF OneMemoEach
<1>7. \A i \in DOMAIN edited : UniqueIn(edited[i])
  BY <1>1, <1>2, <1>4
<1>8. \A m \in DOMAIN removed : UniqueIn(removed[m])
  BY <1>2, <1>7, KeptWas
<1> QED
  BY <1>6, <1>8, UniqueMeans DEF removed

(* bump makes no duplicates. *)
LEMMA BumpUnique ==
  ASSUME NEW memos \in Content, NEW recomputed \in [Keys -> Outputs], Unique(memos)
  PROVE  Unique(Bumped(memos, recomputed))
<1> DEFINE bumped == Bumped(memos, recomputed)
<1>1. /\ OneMemoEach(memos) /\ \A i \in DOMAIN memos : UniqueIn(memos[i])
  BY UniqueMeans
<1>2. /\ DOMAIN bumped = DOMAIN memos
      /\ \A i \in DOMAIN memos :
           /\ bumped[i].module = memos[i].module
           /\ DOMAIN bumped[i].calls = DOMAIN memos[i].calls
           /\ \A j \in DOMAIN memos[i].calls :
                bumped[i].calls[j] = BumpedCall(memos[i].module, memos[i].calls[j], recomputed)
  BY BumpedFacts
<1> HIDE DEF bumped
<1>3. ASSUME NEW i \in DOMAIN memos, NEW j \in DOMAIN memos[i].calls
      PROVE  /\ bumped[i].calls[j].binding = memos[i].calls[j].binding
             /\ OneResultEach(bumped[i].calls[j])
  <2> DEFINE call == memos[i].calls[j]
             new == bumped[i].calls[j]
  <2>1. memos[i].module \in Modules /\ call \in CallRecs
    BY AllTypes, MemoTypes
  <2>2. /\ new.binding = call.binding /\ DOMAIN new.results = DOMAIN call.results
        /\ \A n \in DOMAIN call.results : new.results[n].input = call.results[n].input
    BY <1>2, <2>1, BumpedCallFacts
  <2>3. OneResultEach(call)
    BY <1>1 DEF UniqueIn
  <2> QED
    BY <2>2, <2>3 DEF OneResultEach
<1>4. OneMemoEach(bumped)
  BY <1>1, <1>2 DEF OneMemoEach
<1>5. \A i \in DOMAIN bumped : UniqueIn(bumped[i])
  BY <1>1, <1>2, <1>3 DEF UniqueIn, OneCallEach
<1> QED
  BY <1>4, <1>5, UniqueMeans DEF bumped

-----------------------------------------------------------------------------
(* The content is one, and the table is what it stands for. *)
EditsInv == lockfile \in Content /\ EditsFollowTable /\ UniqueStays

LEMMA EditsStart == EditsInit => EditsInv
  BY DEF EditsInit, EditsInv, EditsFollowTable, UniqueStays, Content

LEMMA EditsStep == EditsInv /\ [EditsNext]_editVars => EditsInv'
<1> SUFFICES ASSUME EditsInv, [EditsNext]_editVars PROVE EditsInv'
  OBVIOUS
<1>0. lockfile \in Content /\ AsTable(lockfile) = table /\ (unique => Unique(lockfile))
  BY DEF EditsInv, EditsFollowTable, UniqueStays
<1>1. ASSUME NEW key \in Keys, NEW out \in Outputs, Store(key, out), UNCHANGED unique
      PROVE  EditsInv'
  <2>1. lockfile' = StoredIn(lockfile, key, out) /\ table' = [table EXCEPT ![key] = out]
    BY <1>1 DEF Store
  <2>2. lockfile' \in Content /\ AsTable(lockfile') = table'
    BY <1>0, <2>1, StoreTable
  <2>3. unique' => Unique(lockfile')
    BY <1>0, <1>1, <2>1, StoreUnique
  <2> QED
    BY <2>2, <2>3 DEF EditsInv, EditsFollowTable, UniqueStays
<1>2. ASSUME NEW key \in Keys, Remove(key), UNCHANGED unique
      PROVE  EditsInv'
  <2>1. lockfile' = RemovedFrom(lockfile, key) /\ table' = [table EXCEPT ![key] = NoOutput]
    BY <1>2 DEF Remove
  <2>2. lockfile' \in Content /\ AsTable(lockfile') = table'
    BY <1>0, <2>1, RemoveTable
  <2>3. unique' => Unique(lockfile')
    BY <1>0, <1>2, <2>1, RemoveUnique
  <2> QED
    BY <2>2, <2>3 DEF EditsInv, EditsFollowTable, UniqueStays
<1>3. ASSUME NEW recomputed \in [Keys -> Outputs], Bump(recomputed), UNCHANGED unique
      PROVE  EditsInv'
  <2>1. /\ lockfile' = Bumped(lockfile, recomputed)
        /\ table' = [key \in Keys |-> IF table[key] = NoOutput THEN NoOutput
                                      ELSE recomputed[key]]
    BY <1>3 DEF Bump
  <2>2. lockfile' \in Content /\ AsTable(lockfile') = table'
    BY <1>0, <2>1, BumpTable
  <2>3. unique' => Unique(lockfile')
    BY <1>0, <1>3, <2>1, BumpUnique
  <2> QED
    BY <2>2, <2>3 DEF EditsInv, EditsFollowTable, UniqueStays
<1>4. CASE UNCHANGED editVars
  BY <1>4 DEF editVars, EditsInv, EditsFollowTable, UniqueStays, AsTable
<1>5. CASE EditsNext
  <2>1. \A out \in Outputs : [key \in Keys |-> out] \in [Keys -> Outputs]
    OBVIOUS
  <2> QED
    BY <1>1, <1>2, <1>3, <1>5, <2>1 DEF EditsNext
<1> QED
  BY <1>4, <1>5

(* memo.go: however a lock file was merged, Store, Remove and bump do to   *)
(* it what they would do to a table: the key recalls what was stored last, *)
(* or nothing, and no other key is disturbed.                              *)
THEOREM FollowsTable == EditsSpec => []EditsFollowTable
<1>1. EditsInv => EditsFollowTable
  BY DEF EditsInv
<1> QED
  BY <1>1, EditsStart, EditsStep, PTL DEF EditsSpec

(* memo.go: a lock file without duplicates keeps without them, whatever    *)
(* the edits.                                                              *)
THEOREM StaysUnique == EditsSpec => []UniqueStays
<1>1. EditsInv => UniqueStays
  BY DEF EditsInv
<1> QED
  BY <1>1, EditsStart, EditsStep, PTL DEF EditsSpec
=============================================================================
