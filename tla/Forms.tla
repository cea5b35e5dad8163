------------------------------- MODULE Forms -------------------------------
(***************************************************************************)
(* The forms that the reader makes of a text and the values that they      *)
(* evaluate to, beyond those of Thunks: pkg/bass/pair.go, cons.go,         *)
(* bind.go, annotated.go, range.go and their neighbours.  A scope is a     *)
(* pointer, its id in a heap.                                              *)
(***************************************************************************)
EXTENDS Thunks

Sym(name)      == [is |-> "Symbol", name |-> name]
Kw(name)       == [is |-> "Keyword", name |-> name]
Bool(b)        == [is |-> "Bool", b |-> b]
Ignore         == [is |-> "Ignore"]
Empty          == [is |-> "Empty"]
Pair(a, d)     == [is |-> "Pair", a |-> a, d |-> d]
ConsForm(a, d) == [is |-> "Cons", a |-> a, d |-> d]
Bind(forms)    == [is |-> "Bind", forms |-> forms]
ScopeAt(id)    == [is |-> "ScopeAt", id |-> id]

(* The text of a comment, by its lines. *)
Doc(lines)     == [is |-> "Doc", lines |-> lines]

(* A form with its place, its comment (none is <<>>) and its meta (none is *)
(* <<>>, or a Bind in a sequence of one).                                  *)
Annotate(value, range, comment, meta) ==
  [is |-> "Annotate", value |-> value, range |-> range, comment |-> comment, meta |-> meta]

(* A value with a scope of meta. *)
Annotated(value, meta) == [is |-> "Annotated", value |-> value, meta |-> meta]

Builtin(name)          == [is |-> "Builtin", name |-> name]
Wrapped(combiner)      == [is |-> "Wrapped", underlying |-> combiner]
SymbolOperative(name)  == [is |-> "SymbolOperative", name |-> name]
Operative(bindings, eformal, body, scope) ==
  [is |-> "Operative", bindings |-> bindings, eformal |-> eformal, body |-> body,
   scope |-> scope]

(* NewList and NewConsList *)
ListOf(vals)     == FoldRight(LAMBDA v, rest : Pair(v, rest), vals, Empty)
ConsListOf(vals) == FoldRight(LAMBDA v, rest : ConsForm(v, rest), vals, Empty)

-----------------------------------------------------------------------------
(* Decode into anything but an annotation sees through annotations. *)
RECURSIVE Plainly(_)
Plainly(v) == IF v.is \in {"Annotate", "Annotated"} THEN Plainly(v.value) ELSE v

IsList(v) == v.is \in {"Pair", "Cons", "Empty"}
First(v)  == IF v.is = "Empty" THEN Empty ELSE v.a
Rest(v)   == IF v.is = "Empty" THEN Empty ELSE v.d

(* ToSlice: a sequence of at most one slice, none for a list that ends in  *)
(* what is not a list.                                                     *)
Prepended(v, slice) == IF slice = <<>> THEN <<>> ELSE << <<v>> \o slice[1] >>

RECURSIVE ToSlice(_)
ToSlice(v) ==
  LET list == Plainly(v)
  IN  CASE list.is = "Empty" -> << <<>> >>
        [] list.is \in {"Pair", "Cons"} -> Prepended(list.a, ToSlice(list.d))
        [] OTHER -> <<>>

(* MetaBind: the meta and the comment as its doc. *)
MetaBind(form) ==
  (IF form.meta = <<>> THEN <<>> ELSE form.meta[1].forms)
  \o (IF form.comment = <<>> THEN <<>> ELSE <<Kw("doc"), Doc(form.comment)>>)

-----------------------------------------------------------------------------
(* Range.IsWithin: positions are <<line, column>>. *)
IsWithin(inner, outer) ==
  /\ inner.start[1] >= outer.start[1]
  /\ inner.end[1] <= outer.end[1]
  /\ inner.start[1] = outer.start[1] => inner.start[2] >= outer.start[2]
  /\ inner.end[1] = outer.end[1] => inner.end[2] <= outer.end[2]
=============================================================================
