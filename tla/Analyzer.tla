------------------------------ MODULE Analyzer ------------------------------
(***************************************************************************)
(* pkg/lsp/analyzer.go: what the language server finds out of the forms of *)
(* a text, each handed over when it is read, so the inner ones first.  A   *)
(* binding is contained until a form is read that bounds it.               *)
(***************************************************************************)
EXTENDS Reader, Scopes

NoAnalysis == [bindings |-> <<>>, contained |-> <<>>]

AllWithin(binders, bounds) ==
  [i \in DOMAIN binders |->
     [name |-> binders[i].name, range |-> binders[i].range, bounds |-> bounds]]

(* contain: what was found within the bounds is bound there. *)
Contain(a, bounds) ==
  LET in(b)  == IsWithin(b.range, bounds)
      out(b) == ~in(b)
  IN  [bindings  |-> a.bindings \o AllWithin(SelectSeq(a.contained, in), bounds),
       contained |-> SelectSeq(a.contained, out)]

AnalyzeBinding(a, form, bounds) ==
  [a EXCEPT !.bindings = @ \o AllWithin(BindersOf(form), bounds)]

AnalyzeContained(a, form) == [a EXCEPT !.contained = @ \o BindersOf(form)]

(* The elements that are analyzed, as far as the form has them: its pairs  *)
(* are decoded one by one.                                                 *)
RECURSIVE Elements(_)
Elements(v) == LET p == Plainly(v) IN IF p.is = "Pair" THEN <<p.a>> \o Elements(p.d) ELSE <<>>

(* A def, and what is provided: the second element. *)
AnalyzeDef(a, of) == IF Len(of) < 2 THEN a ELSE AnalyzeContained(a, of[2])

(* What is bound in the bounds, of the elements that there are. *)
RECURSIVE AnalyzeEach(_, _, _)
AnalyzeEach(a, forms, bounds) ==
  IF forms = <<>> THEN a
  ELSE AnalyzeEach(AnalyzeBinding(a, Head(forms), bounds), Tail(forms), bounds)

RECURSIVE Alternate(_)
Alternate(forms) ==
  IF Len(forms) < 2 THEN forms ELSE <<Head(forms)>> \o Alternate(SubSeq(forms, 3, Len(forms)))

(* Each: the elements up to the end of the list, or up to what is no list. *)
RECURSIVE Walked(_)
Walked(v) ==
  LET p == Plainly(v) IN IF p.is \in {"Pair", "Cons"} THEN <<p.a>> \o Walked(p.d) ELSE <<>>

AnalyzeLet(a, of, bounds) ==
  IF Len(of) < 2 THEN a ELSE AnalyzeEach(a, Alternate(Walked(of[2])), bounds)

AnalyzeUpTo(a, of, last, bounds) ==
  AnalyzeEach(a, SubSeq(of, 2, Min({last, Len(of)})), bounds)

AnalyzeFn(a, of, bounds) == AnalyzeUpTo(a, of, 2, bounds)

(* The formals and the scope *)
AnalyzeOp(a, of, bounds) == AnalyzeUpTo(a, of, 3, bounds)

(* The name is bound around it, what follows as in a fn and an op. *)
AnalyzeDefn(a, of, bounds) ==
  IF Len(of) < 2 THEN a ELSE AnalyzeFn(AnalyzeContained(a, of[2]), Tail(of), bounds)

AnalyzeDefop(a, of, bounds) ==
  IF Len(of) < 2 THEN a ELSE AnalyzeOp(AnalyzeContained(a, of[2]), Tail(of), bounds)

(* What binds within its bounds. *)
Bounds == {"let", "fn", "defn", "op", "defop", "provide"}

AnalyzeIn(a, sym, of, bounds) ==
  CASE sym = "let"     -> AnalyzeLet(a, of, bounds)
    [] sym = "fn"      -> AnalyzeFn(a, of, bounds)
    [] sym = "defn"    -> AnalyzeDefn(a, of, bounds)
    [] sym = "op"      -> AnalyzeOp(a, of, bounds)
    [] sym = "defop"   -> AnalyzeDefop(a, of, bounds)
    [] sym = "provide" -> AnalyzeDef(a, of)

Analyze(a, form) ==
  LET v    == Plainly(form)
      head == Plainly(v.a)
      sym  == IF v.is # "Pair" \/ head.is # "Symbol" THEN "" ELSE head.name
  IN  CASE form.value.is = "Annotate" -> a
        [] sym = "def" -> AnalyzeDef(a, Elements(form))
        [] sym \in Bounds -> AnalyzeIn(Contain(a, form.range), sym, Elements(form), form.range)
        [] OTHER -> a

RECURSIVE AnalyzeAll(_, _)
AnalyzeAll(a, forms) ==
  IF forms = <<>> THEN a ELSE AnalyzeAll(Analyze(a, Head(forms)), Tail(forms))

-----------------------------------------------------------------------------
Point(cursor) == [start |-> cursor, end |-> cursor]

Bounding(a, cursor) == SelectSeq(a.bindings, LAMBDA b : IsWithin(Point(cursor), b.bounds))

RECURSIVE PlaceOf(_, _)
PlaceOf(binders, name) ==
  CASE binders = <<>> -> <<>>
    [] Head(binders).name = name -> <<Head(binders).range>>
    [] OTHER -> PlaceOf(Tail(binders), name)

(* Mutant: the last of the bindings, not the first. *)
LocateLast(a, name, cursor) ==
  PlaceOf(Reverse(Bounding(a, cursor)) \o a.contained, name)

(* Locate: the bindings whose bounds the cursor is in, then those that are *)
(* in no bounds.  A sequence of at most one.                               *)
Locate(a, name, cursor) ==
  PlaceOf(Bounding(a, cursor) \o a.contained, name)

(* The names that begin with a prefix: names are not spelled out. *)
HasPrefix(name, prefix) == prefix \in {"", name}

Complete(a, prefix, cursor) ==
  {name \in {b.name : b \in Range(Bounding(a, cursor) \o a.contained)} : HasPrefix(name, prefix)}

(* Scope.Complete *)
CompleteIn(scopes, id, prefix) == {k \in KeySet(scopes, id) : HasPrefix(k, prefix)}
=============================================================================
