------------------------------- MODULE Scopes -------------------------------
(***************************************************************************)
(* pkg/bass/scope.go and the EachBinding and Equal of values: scopes in a  *)
(* heap, by their ids, and what a binding binds.  A scope is never freed   *)
(* and its parents are older than it is or it is their only child.         *)
(***************************************************************************)
EXTENDS Forms

NewScope(binds, parents) == [binds |-> binds, parents |-> parents]

RECURSIVE GetIn(_, _, _), GetInFrom(_, _, _, _), KeysIn(_, _), KeysInFrom(_, _, _),
          KeySet(_, _)

(* Scope.Get: a sequence of at most one. *)
GetInFrom(found, scopes, parents, sym) ==
  IF found # <<>> \/ parents = <<>> THEN found
  ELSE GetInFrom(GetIn(scopes, Head(parents), sym), scopes, Tail(parents), sym)
GetIn(scopes, id, sym) ==
  GetInFrom(Own(scopes[id].binds, sym), scopes, scopes[id].parents, sym)

SetIn(scopes, id, sym, val) == [scopes EXCEPT ![id] = Set(@, sym, val)]

(* eachShadow: the keys of the parents first, each once. *)
KeysInFrom(keys, scopes, parents) ==
  IF parents = <<>> THEN keys
  ELSE KeysInFrom(WithKeys(keys, KeysIn(scopes, Head(parents))), scopes, Tail(parents))
KeysIn(scopes, id) ==
  WithKeys(KeysInFrom(<<>>, scopes, scopes[id].parents), KeysOf(scopes[id].binds))

KeySet(scopes, id) ==
  {b[1] : b \in Range(scopes[id].binds)}
  \cup UNION {KeySet(scopes, p) : p \in Range(scopes[id].parents)}

EachInKeys(scopes, id, keys) == [i \in DOMAIN keys |-> <<keys[i], GetIn(scopes, id, keys[i])[1]>>]
EachIn(scopes, id) == EachInKeys(scopes, id, KeysIn(scopes, id))

-----------------------------------------------------------------------------
(* Equal.  The values of the language that are pointers are compared as    *)
(* such: a scope by its id first, an operative by what it was made of.     *)
RECURSIVE Same1(_, _, _), Alike(_, _, _)

(* Both, or neither, are there, and they are the same. *)
SameFound(scopes, x, y) ==
  (x = <<>> /\ y = <<>>) \/ (x # <<>> /\ y # <<>> /\ Same1(scopes, x[1], y[1]))

SameBindings(scopes, a, b) ==
  \A key \in KeySet(scopes, a) \cup KeySet(scopes, b) :
    SameFound(scopes, GetIn(scopes, a, key), GetIn(scopes, b, key))

Same1(scopes, x, y) == Alike(scopes, Plainly(x), Plainly(y))
Alike(scopes, a, b) ==
  /\ a.is = b.is
  /\ CASE a.is \in {"Pair", "Cons"} -> Same1(scopes, a.a, b.a) /\ Same1(scopes, a.d, b.d)
       [] a.is = "Bind" -> /\ Len(a.forms) = Len(b.forms)
                           /\ \A i \in DOMAIN a.forms : Same1(scopes, a.forms[i], b.forms[i])
       [] a.is = "ScopeAt" -> a.id = b.id \/ SameBindings(scopes, a.id, b.id)
       [] OTHER -> a = b

-----------------------------------------------------------------------------
Constants == {"Keyword", "Empty", "Int", "String", "Doc", "Bool", "Null", "CommandPath",
              "DirPath", "FilePath"}
IsBindable(v) == Plainly(v).is \in Constants \cup {"Symbol", "Ignore", "Pair", "Cons", "Bind",
                                                   "ExtendPath"}

(* EachBinding: the symbols that are bound and where, up to an error. *)
Binders(all, ok) == [all |-> all, ok |-> ok]

RECURSIVE EachBinding(_)

EachOf(forms) ==
  FoldLeft(LAMBDA done, f : IF ~done.ok \/ ~IsBindable(f) THEN [done EXCEPT !.ok = FALSE]
                            ELSE Binders(done.all \o EachBinding(f).all, EachBinding(f).ok),
           Binders(<<>>, TRUE), forms)

(* The place of an annotated binding is that of the innermost annotation. *)
EachBinding(v) ==
  CASE v.is = "Symbol"    -> Binders(<<[name |-> v.name, range |-> Nil]>>, TRUE)
    [] v.is = "Annotated" -> EachBinding(v.value)
    [] v.is = "Annotate"  ->
         LET inner == EachBinding(v.value)
         IN  [inner EXCEPT !.all = [i \in DOMAIN @ |->
                IF @[i].range = Nil THEN [@[i] EXCEPT !.range = v.range] ELSE @[i]]]
    [] v.is \in {"Pair", "Cons"} -> EachOf(<<v.a, v.d>>)
    [] v.is = "Bind" -> IF Len(v.forms) % 2 # 0 THEN Binders(<<>>, FALSE)
                        ELSE EachOf([i \in 1..(Len(v.forms) \div 2) |-> v.forms[2 * i]])
    [] OTHER -> Binders(<<>>, TRUE)

BindersOf(form) == IF IsBindable(form) THEN EachBinding(form).all ELSE <<>>
=============================================================================
