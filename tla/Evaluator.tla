----------------------------- MODULE Evaluator -----------------------------
(***************************************************************************)
(* The evaluator of pkg/bass in continuation-passing style: Eval, Bind and *)
(* Call descend into a form and end with a continuation that is ready to   *)
(* be called with a value or an error; Trampoline (eval.go) calls it.  The *)
(* machine is the heap of scopes, the trace, and what is ready: cont, with *)
(* a result or an error that is not "".  A continuation is a record of     *)
(* what it closes over, with the frames that were recorded for it, of      *)
(* which the code keeps the number.                                        *)
(***************************************************************************)
EXTENDS Scopes, Traces

Identity == [op |-> "identity", traced |-> <<>>]

(* Continuation.Call: the frames are popped before the call, unless it is  *)
(* an error.                                                               *)
Resume(m, k, v) ==
  [m EXCEPT !.trace = IF k.traced = <<>> THEN @ ELSE Pop(@, Len(k.traced)),
            !.cont = k, !.res = v, !.err = ""]

Raise(m, k, err) == [m EXCEPT !.cont = k, !.err = err]

(* WithFrame: the frame is recorded for a copy of the continuation. *)
WithFrame(m, frame) == [m EXCEPT !.trace = Record(@, frame)]
Traced(k, frame)    == [k EXCEPT !.traced = Append(@, frame)]

(* NewEmptyScope, and the id that it has. *)
Fresh(m)             == Len(m.scopes) + 1
Allocate(m, parents) == [m EXCEPT !.scopes = Append(@, NewScope(<<>>, parents))]
SetAt(m, id, s, v)   == [m EXCEPT !.scopes = SetIn(@, id, s, v)]

(* Paths, which make a thunk or extend a path, and thunks, which are run,  *)
(* are combiners as well; no value that is evaluated here is one of them.  *)
Combiners == {"Builtin", "Wrapped", "Operative", "Symbol", "SymbolOperative"}
Applicatives == {"Wrapped", "Symbol"}
Operatives == {"def", "if", "do", "op"}

-----------------------------------------------------------------------------
(* DecodeAs: what an argument of a builtin is decoded into, none if it is  *)
(* not of the kind.                                                        *)
DecodeAs(kind, v) ==
  LET p  == Plainly(v)
      ok == CASE kind = "value"       -> TRUE
              [] kind = "bindable"    -> IsBindable(v)
              [] kind = "combiner"    -> p.is \in Combiners
              [] kind = "applicative" -> p.is \in Applicatives
              [] kind = "scope"       -> p.is = "ScopeAt"
              [] kind = "symbol"      -> p.is = "Symbol"
              [] kind = "keyword"     -> p.is = "Keyword"
              [] kind = "string"      -> p.is = "String"
              [] kind = "list"        -> p.is \in {"Pair", "Empty"} /\ ToSlice(p) # <<>>
              [] kind = "int"         -> p.is = "Int"
  IN  IF ~ok THEN <<>> ELSE IF kind \in {"value", "bindable"} THEN <<v>> ELSE <<p>>

(* primPreds: what a value is of, seen through its annotations. *)
KindsOf ==
  ("null?" :> {"Null"}) @@ ("ignore?" :> {"Ignore"}) @@ ("boolean?" :> {"Bool"})
  @@ ("number?" :> {"Int"}) @@ ("string?" :> {"String"}) @@ ("symbol?" :> {"Symbol"})
  @@ ("keyword?" :> {"Keyword"}) @@ ("scope?" :> {"ScopeAt"})

Kinship == ("applicative?" :> Applicatives) @@ ("combiner?" :> Combiners)

Predicates == <<"null?", "ignore?", "boolean?", "number?", "string?", "symbol?", "keyword?",
                "scope?", "applicative?", "combiner?", "list?">>

(* The signatures: the kinds of the arguments and of those after them. *)
Takes(kinds, more) == [kinds |-> kinds, more |-> more]

Adds(names, takes) == [i \in DOMAIN names |-> <<names[i], takes>>]

Signatures ==
  << <<"def", Takes(<<"bindable", "value">>, <<>>)>>,
     <<"if", Takes(<<"value", "value", "value">>, <<>>)>>,
     <<"do", Takes(<<>>, <<"value">>)>>,
     <<"op", Takes(<<"bindable", "bindable", "value">>, <<>>)>>,
     <<"cons", Takes(<<"value", "value">>, <<>>)>>,
     <<"wrap", Takes(<<"combiner">>, <<>>)>>,
     <<"unwrap", Takes(<<"applicative">>, <<>>)>>,
     <<"eval", Takes(<<"value", "scope">>, <<>>)>>,
     <<"make-scope", Takes(<<>>, <<"scope">>)>>,
     <<"bind", Takes(<<"scope", "bindable", "value">>, <<>>)>>,
     <<"with-meta", Takes(<<"value", "value">>, <<>>)>>,
     <<"log", Takes(<<"value">>, <<"value">>)>>,
     <<"reduce-kv", Takes(<<"applicative", "value", "scope">>, <<>>)>>,
     <<"assoc", Takes(<<"scope">>, <<"value">>)>>,
     <<"binds?", Takes(<<"scope", "symbol">>, <<>>)>>,
     <<"scope->list", Takes(<<"scope">>, <<>>)>>,
     <<"list->bind", Takes(<<"list">>, <<>>)>>,
     <<"symbol->string", Takes(<<"symbol">>, <<>>)>>,
     <<"string->symbol", Takes(<<"string">>, <<>>)>>,
     <<"keyword->string", Takes(<<"keyword">>, <<>>)>>,
     <<"string->keyword", Takes(<<"string">>, <<>>)>>,
     <<"quot", Takes(<<"int", "int">>, <<>>)>>,
     <<"=", Takes(<<"value">>, <<"value">>)>> >>
  \o Adds(<<"error", "meta", "dump", "empty?", "pair?", "operative?">>, Takes(<<"value">>, <<>>))
  \o Adds(Predicates, Takes(<<"value">>, <<>>))
  \o Adds(<<"+", "*">>, Takes(<<>>, <<"int">>))
  \o Adds(<<"-", "max", "min", ">", ">=", "<", "<=">>, Takes(<<"int">>, <<"int">>))

Signature(name) == (CHOOSE sig \in Range(Signatures) : sig[1] = name)[2]

GroundBinds == [i \in DOMAIN Signatures |->
  LET name == Signatures[i][1]
  IN  <<name, IF name \in Operatives THEN Builtin(name) ELSE Wrapped(Builtin(name))>>]

(* Builtin.Call, up to the call: the arguments, or an error. *)
NoArgs(err) == [args |-> <<>>, err |-> err]

Decoded(args) ==
  IF \E i \in DOMAIN args : args[i] = <<>> THEN NoArgs("decode")
  ELSE [args |-> [i \in DOMAIN args |-> args[i][1]], err |-> ""]

Taken(sig, given) ==
  LET argc    == Len(given[1])
      Kind(i) == IF i <= Len(sig.kinds) THEN sig.kinds[i] ELSE sig.more[1]
  IN  IF given = <<>> THEN NoArgs("bad syntax")
      ELSE IF argc < Len(sig.kinds) \/ (sig.more = <<>> /\ argc > Len(sig.kinds))
      THEN NoArgs("arity")
      ELSE Decoded([i \in 1..argc |-> DecodeAs(Kind(i), given[1][i])])

Arguments(name, val) == Taken(Signature(name), ToSlice(val))

-----------------------------------------------------------------------------
(* The builtins that are functions of numbers.  A quotient is rounded      *)
(* towards zero; what is divided by zero here is not, it ends the program. *)
Sum(nums)        == FoldLeft(LAMBDA sum, num : sum + num, 0, nums)
Product(nums)    == FoldLeft(LAMBDA mul, num : mul * num, 1, nums)
Difference(nums) == IF Len(nums) = 1 THEN -nums[1]
                    ELSE FoldLeft(LAMBDA sub, num : sub - num, nums[1], Tail(nums))
Largest(nums)  == FoldLeft(LAMBDA max, num : IF num > max THEN num ELSE max, nums[1], Tail(nums))
Smallest(nums) == FoldLeft(LAMBDA min, num : IF num < min THEN num ELSE min, nums[1], Tail(nums))

Quotient(num, denom) ==
  LET Size(n) == IF n < 0 THEN -n ELSE n
      whole   == Size(num) \div Size(denom)
  IN  IF (num < 0) = (denom < 0) THEN whole ELSE -whole

Descends(nums) == \A i \in 2..Len(nums) : nums[i] < nums[i - 1]
Falls(nums)    == \A i \in 2..Len(nums) : nums[i] <= nums[i - 1]
Ascends(nums)  == \A i \in 2..Len(nums) : nums[i] > nums[i - 1]
Rises(nums)    == \A i \in 2..Len(nums) : nums[i] >= nums[i - 1]

Numeric(name, nums) ==
  CASE name = "+"    -> Number(Sum(nums))
    [] name = "*"    -> Number(Product(nums))
    [] name = "-"    -> Number(Difference(nums))
    [] name = "quot" -> Number(Quotient(nums[1], nums[2]))
    [] name = "max"  -> Number(Largest(nums))
    [] name = "min"  -> Number(Smallest(nums))
    [] name = ">"    -> Bool(Descends(nums))
    [] name = ">="   -> Bool(Falls(nums))
    [] name = "<"    -> Bool(Ascends(nums))
    [] name = "<="   -> Bool(Rises(nums))

Arithmetic == {"+", "*", "-", "quot", "max", "min", ">", ">=", "<", "<="}

(* The builtins that are functions of values. *)
IsEmptyValue(m, v) ==
  LET p == Plainly(v)
  IN  CASE p.is = "Bind"    -> p.forms = <<>>
        [] p.is = "String"  -> p.s = ""
        [] p.is = "ScopeAt" -> KeySet(m.scopes, p.id) = {}
        [] OTHER -> p.is \in {"Empty", "Null"}

IsPairValue(v)      == Plainly(v).is \in {"Pair", "Cons"}
IsOperativeValue(v) == LET p == Plainly(v)
                       IN  p.is = "Operative" \/ (p.is = "Builtin" /\ p.name \in Operatives)
IsListValue(v)      == IsList(Plainly(v)) /\ ToSlice(v) # <<>>

Unwrap(app) == IF app.is = "Symbol" THEN SymbolOperative(app.name) ELSE app.underlying

MetaOf(v) == IF v.is = "Annotated" THEN ScopeAt(v.meta) ELSE Null

AllEqual(m, vals) == \A i \in 2..Len(vals) : Same1(m.scopes, vals[i], vals[1])

RECURSIVE FlatList(_)
FlatList(kvs) ==
  IF kvs = <<>> THEN Empty
  ELSE Pair(Sym(Head(kvs)[1]), Pair(Head(kvs)[2], FlatList(Tail(kvs))))

ScopeToList(m, scope) == FlatList(EachIn(m.scopes, scope.id))

Answers(m, name, v) ==
  CASE name = "empty?"     -> IsEmptyValue(m, v)
    [] name = "pair?"      -> IsPairValue(v)
    [] name = "operative?" -> IsOperativeValue(v)
    [] name = "list?"      -> IsListValue(v)
    [] name \in DOMAIN KindsOf -> Plainly(v).is \in KindsOf[name]
    [] name \in DOMAIN Kinship -> Plainly(v).is \in Kinship[name]

Pure(m, name, args) ==
  CASE name \in Arithmetic -> Numeric(name, [i \in DOMAIN args |-> args[i].i])
    [] name = "cons"        -> Pair(args[1], args[2])
    [] name = "wrap"        -> Wrapped(args[1])
    [] name = "unwrap"      -> Unwrap(args[1])
    [] name = "meta"        -> MetaOf(args[1])
    [] name = "="           -> Bool(AllEqual(m, args))
    [] name = "dump"        -> args[1]
    [] name = "binds?"      -> Bool(GetIn(m.scopes, args[1].id, args[2].name) # <<>>)
    [] name = "scope->list" -> ScopeToList(m, args[1])
    [] name = "list->bind"  -> Bind(ToSlice(args[1])[1])
    [] name \in {"symbol->string", "keyword->string"} -> Str(args[1].name)
    [] name = "string->symbol"  -> Sym(args[1].s)
    [] name = "string->keyword" -> Kw(args[1].s)
    [] OTHER -> Bool(Answers(m, name, args[1]))

(* Assoc: the copy of a scope with more set. *)
Copied(m, id) == Append(m.scopes, NewScope(EachIn(m.scopes, id), <<>>))

BadKeys(kvs) == \E i \in DOMAIN kvs : i % 2 = 1 /\ Plainly(kvs[i]).is # "Symbol"

RECURSIVE PutAll(_, _, _)
PutAll(scopes, id, kvs) ==
  IF kvs = <<>> THEN scopes
  ELSE PutAll(SetIn(scopes, id, Plainly(kvs[1]).name, kvs[2]), id, SubSeq(kvs, 3, Len(kvs)))

Assoc(m, id, kvs) == [m EXCEPT !.scopes = PutAll(Copied(m, id), Fresh(m), kvs)]

-----------------------------------------------------------------------------
RECURSIVE Eval(_, _, _, _), BindTo(_, _, _, _, _), CallOf(_, _, _, _, _), BuildScope(_, _, _, _)

(* Bind.Eval: the forms are evaluated in a child of the scope that then    *)
(* has no parent.                                                          *)
EvalBind(m, forms, scope, k) ==
  Eval(Allocate(m, <<scope>>), ConsListOf(forms), Fresh(m),
       [op |-> "bindVals", scope |-> Fresh(m), next |-> k, traced |-> <<>>])

EvalPair(m, pair, scope, k) ==
  Eval(m, pair.a, scope,
       [op |-> "pairD", d |-> pair.d, scope |-> scope, next |-> k, traced |-> <<>>])

(* A form with a comment or a meta is evaluated first, under its frame.    *)
EvalAnnotate(m, form, scope, k) ==
  Eval(WithFrame(m, form), form.value, scope,
       Traced(IF MetaBind(form) = <<>> THEN k
              ELSE [op |-> "annotate", form |-> form, scope |-> scope, next |-> k,
                    traced |-> <<>>], form))

EvalSymbol(m, found, k) ==
  IF found = <<>> THEN Raise(m, k, "unbound") ELSE Resume(m, k, found[1])

(* A list in parentheses is a call of its first. *)
EvalCombination(m, form, scope, k) ==
  Eval(m, form.a, scope,
       [op |-> "combine", d |-> form.d, scope |-> scope, next |-> k, traced |-> <<>>])

EvalCons(m, form, scope, k) ==
  Eval(m, form.a, scope,
       [op |-> "consD", d |-> form.d, scope |-> scope, next |-> k, traced |-> <<>>])

Eval(m, form, scope, k) ==
  CASE form.is = "Annotate"  -> EvalAnnotate(m, form, scope, k)
    [] form.is = "Annotated" -> Eval(m, form.value, scope, k)
    [] form.is = "Symbol"    -> EvalSymbol(m, GetIn(m.scopes, scope, form.name), k)
    [] form.is = "Keyword"   -> Resume(m, k, Sym(form.name))
    [] form.is = "Pair"      -> EvalCombination(m, form, scope, k)
    [] form.is = "Cons"      -> EvalCons(m, form, scope, k)
    [] form.is = "Bind"      -> EvalBind(m, form.forms, scope, k)
    [] OTHER -> Resume(m, k, form)

(* Mutant: the arguments are evaluated in the scope the operative was made in. *)
CallOperativeStatic(m, c, val, scope, k) ==
  BindTo(Allocate(m, <<c.scope>>), c.bindings, Fresh(m),
         [op |-> "bindEformal", combiner |-> c, sub |-> Fresh(m), scope |-> c.scope,
          next |-> k, traced |-> <<>>], val)

(* Operative.Call: the operands are bound in a child of the static scope. *)
CallOperative(m, c, val, scope, k) ==
  BindTo(Allocate(m, <<c.scope>>), c.bindings, Fresh(m),
         [op |-> "bindEformal", combiner |-> c, sub |-> Fresh(m), scope |-> scope,
          next |-> k, traced |-> <<>>], val)

(* Wrapped.Call: the operands are evaluated, one by one if they are a list *)
(* that was read as such.                                                  *)
CallWrapped(m, c, val, scope, k) ==
  LET call == [op |-> "call", combiner |-> c, scope |-> scope, next |-> k, traced |-> <<>>]
  IN  IF val.is = "Pair" THEN EvalPair(m, val, scope, call) ELSE Eval(m, val, scope, call)

(* SymbolOperative.Call: the binding of the scope, or a default. *)
FoundOr(m, found, rest, k) ==
  CASE found # <<>> -> Resume(m, k, found[1])
    [] ~IsList(rest) -> Raise(m, k, "decode")
    [] rest.is = "Empty" -> Raise(m, k, "unbound")
    [] OTHER -> Resume(m, k, First(rest))

CallSymbol(m, name, val, k) ==
  LET list == Plainly(val)
      src  == Plainly(First(list))
  IN  CASE ~IsList(list) -> Raise(m, k, "call symbol")
        [] list.is = "Empty" -> Raise(m, k, "arity")
        [] src.is # "ScopeAt" -> Raise(m, k, "decode")
        [] OTHER -> FoundOr(m, GetIn(m.scopes, src.id, name), Plainly(Rest(list)), k)

(* reduce-kv: the function is called with each binding in turn. *)
Reduce(m, f, res, keys, kv, scope, k) ==
  IF keys = <<>> THEN Resume(m, k, res)
  ELSE CallOf(m, f, ConsListOf(<<res, Sym(Head(keys)), GetIn(m.scopes, kv, Head(keys))[1]>>), scope,
              [op |-> "reduced", f |-> f, keys |-> Tail(keys), kv |-> kv, scope |-> scope,
               next |-> k, traced |-> <<>>])

Do(m, body, scope, k) ==
  IF body = <<>> THEN Resume(m, k, Null)
  ELSE Eval(m, Head(body), scope,
            IF Len(body) = 1 THEN k
            ELSE [op |-> "do", body |-> Tail(body), scope |-> scope, next |-> k, traced |-> <<>>])

(* The builtins of ground.go that evaluate, bind, call or may raise. *)
Def(m, args, scope, k) ==
  Eval(m, args[2], scope,
       [op |-> "def", formals |-> args[1], scope |-> scope, next |-> k, traced |-> <<>>])

If(m, args, scope, k) ==
  Eval(m, args[1], scope,
       [op |-> "if", yes |-> args[2], no |-> args[3], scope |-> scope, next |-> k,
        traced |-> <<>>])

OpFrom(m, args, scope, k) == Resume(m, k, Operative(args[1], args[2], args[3], scope))

EvalIn(m, args, k) == Eval(m, args[1], args[2].id, k)

MakeScope(m, args, k) ==
  Resume(Allocate(m, [i \in DOMAIN args |-> args[i].id]), k, ScopeAt(Fresh(m)))

(* What is bound in the scope stays if a later part does not bind. *)
TryBind(m, args, k) ==
  BindTo(m, args[2], args[1].id, [op |-> "bound", next |-> k, traced |-> <<>>], args[3])

WithMeta(m, args, k) ==
  LET meta == Plainly(args[2])
  IN  CASE meta.is = "Null"    -> Resume(m, k, args[1])
        [] meta.is = "ScopeAt" -> Resume(m, k, Annotated(args[1], meta.id))
        [] OTHER -> Raise(m, k, "decode")

Log(m, args, k) ==
  IF BadKeys(Tail(args)) THEN Raise(m, k, "decode") ELSE Resume(m, k, args[1])

ReduceKv(m, args, scope, k) ==
  Reduce(m, Unwrap(args[1]), args[2], KeysIn(m.scopes, args[3].id), args[3].id, scope, k)

AssocTo(m, args, k) ==
  IF BadKeys(Tail(args)) THEN Raise(m, k, "decode")
  ELSE Resume(Assoc(m, args[1].id, Tail(args)), k, ScopeAt(Fresh(m)))

Apply(m, name, args, scope, k) ==
  CASE name = "def"        -> Def(m, args, scope, k)
    [] name = "if"         -> If(m, args, scope, k)
    [] name = "do"         -> Do(m, args, scope, k)
    [] name = "op"         -> OpFrom(m, args, scope, k)
    [] name = "eval"       -> EvalIn(m, args, k)
    [] name = "make-scope" -> MakeScope(m, args, k)
    [] name = "bind"       -> TryBind(m, args, k)
    [] name = "with-meta"  -> WithMeta(m, args, k)
    [] name = "log"        -> Log(m, args, k)
    [] name = "error"      -> Raise(m, k, "error")
    [] name = "reduce-kv"  -> ReduceKv(m, args, scope, k)
    [] name = "assoc"      -> AssocTo(m, args, k)
    [] OTHER -> Resume(m, k, Pure(m, name, args))

CallBuiltin(m, name, given, scope, k) ==
  IF given.err # "" THEN Raise(m, k, given.err) ELSE Apply(m, name, given.args, scope, k)

CallOf(m, combiner, val, scope, k) ==
  LET c == Plainly(combiner)
  IN  CASE c.is = "Builtin" -> CallBuiltin(m, c.name, Arguments(c.name, val), scope, k)
        [] c.is = "Operative" -> CallOperative(m, c, val, scope, k)
        [] c.is = "Wrapped"   -> CallWrapped(m, c.underlying, val, scope, k)
        [] c.is = "Symbol"    -> CallWrapped(m, SymbolOperative(c.name), val, scope, k)
        [] c.is = "SymbolOperative" -> CallSymbol(m, c.name, val, k)

-----------------------------------------------------------------------------
(* The Bind of each kind of binding. *)

ConstantOf(binding) == IF binding.is = "Keyword" THEN Sym(binding.name) ELSE binding

BindConst(m, binding, constant, k, val) ==
  IF Same1(m.scopes, constant, val) THEN Resume(m, k, binding) ELSE Raise(m, k, "mismatch")

BindList(m, binding, scope, k, val) ==
  LET v == Plainly(val)
  IN  CASE ~IsList(v) \/ v.is = "Empty" -> Raise(m, k, "mismatch")
        [] ~IsBindable(binding.a) -> Raise(m, k, "cannot bind")
        [] OTHER -> BindTo(m, binding.a, scope,
                           [op |-> "bindRest", rest |-> binding.d, val |-> v.d, scope |-> scope,
                            next |-> k, traced |-> <<>>], v.a)

(* A field of a Bind: its keyword and a default, if it has one. *)
NoField(err) == [key |-> "", default |-> <<>>, err |-> err]

FieldOf(v, of) ==
  CASE v.is = "Keyword" -> [key |-> v.name, default |-> <<>>, err |-> ""]
    [] ~IsList(v) \/ of = <<>> -> NoField("decode")
    [] Len(of[1]) # 2 -> NoField("bad syntax")
    [] Plainly(of[1][1]).is # "Keyword" -> NoField("decode")
    [] OTHER -> [key |-> Plainly(of[1][1]).name, default |-> <<of[1][2]>>, err |-> ""]

Field(form) == FieldOf(Plainly(form), ToSlice(form))

BindFound(m, field, found, scope, k, doBind) ==
  CASE field.err # "" -> Raise(m, k, field.err)
    [] found # <<>> -> Resume(m, doBind, found[1])
    [] field.default # <<>> -> Eval(m, field.default[1], scope, doBind)
    [] OTHER -> Raise(m, k, "unbound")

BindField(m, bind, field, src, scope, k) ==
  BindFound(m, field, GetIn(m.scopes, src.id, field.key), scope, k,
            [op |-> "bindField", binding |-> bind.forms[2],
             rest |-> SubSeq(bind.forms, 3, Len(bind.forms)), src |-> src, scope |-> scope,
             next |-> k, traced |-> <<>>])

BindFields(m, bind, scope, k, val) ==
  LET src == Plainly(val)
  IN  CASE src.is # "ScopeAt" -> Raise(m, k, "mismatch")
        [] Len(bind.forms) % 2 # 0 -> Raise(m, k, "bad syntax")
        [] bind.forms = <<>> -> Resume(m, k, bind)
        [] ~IsBindable(bind.forms[2]) -> Raise(m, k, "cannot bind")
        [] OTHER -> BindField(m, bind, Field(bind.forms[1]), src, scope, k)

BindTo(m, binding, scope, k, val) ==
  CASE binding.is = "Annotate" ->
         IF MetaBind(binding) = <<>> THEN BindTo(m, binding.value, scope, k, val)
         ELSE EvalBind(m, MetaBind(binding), scope,
                       [op |-> "bindMeta", binding |-> binding, scope |-> scope, val |-> val,
                        next |-> k, traced |-> <<>>])
    [] binding.is = "Annotated" -> BindTo(m, binding.value, scope, k, val)
    [] binding.is = "Symbol"  -> Resume(SetAt(m, scope, binding.name, val), k, binding)
    [] binding.is = "Ignore"  -> Resume(m, k, Ignore)
    [] binding.is \in {"Pair", "Cons"} -> BindList(m, binding, scope, k, val)
    [] binding.is = "Bind"    -> BindFields(m, binding, scope, k, val)
    [] OTHER -> BindConst(m, binding, ConstantOf(binding), k, val)

(* scopeBuilder.Build: the values of a scope that is written out. *)
BuildScope(m, vals, scope, k) ==
  LET v      == Plainly(vals[1])
      bound  == IF vals[1].is = "Annotated" THEN Annotated(vals[2], vals[1].meta) ELSE vals[2]
      past   == [op |-> "build", vals |-> SubSeq(vals, 3, Len(vals)), scope |-> scope, next |-> k,
                 traced |-> <<>>]
      Adopt(id) == [m EXCEPT !.scopes[scope].parents = Append(@, id)]
  IN  CASE vals = <<>> -> Resume(m, k, ScopeAt(scope))
        [] v.is = "Symbol" /\ Len(vals) < 2 -> Raise(m, k, "bad syntax")
        [] v.is = "Symbol"  -> Resume(SetAt(m, scope, v.name, bound), past, v)
        [] v.is = "ScopeAt" -> BuildScope(Adopt(v.id), Tail(vals), scope, k)
        [] OTHER -> Raise(m, k, "bad syntax")

BuildAlone(m, content, scope, k) ==
  IF content = <<>> THEN Raise(m, k, "to slice")
  ELSE BuildScope([m EXCEPT !.scopes[scope].parents = <<>>], content[1], scope, k)

-----------------------------------------------------------------------------
(* Annotate.Eval, once the meta is evaluated: the value is annotated, and  *)
(* so is what it names in the scope.                                       *)
ToMeta(m, id, range) ==
  SetAt(SetAt(m, id, "line", Number(range.start[1])), id, "column", Number(range.start[2]))

Attached(bmeta, id, found, scope, name) ==
  IF found = <<>> THEN bmeta
  ELSE IF found[1].is = "Annotated"
  THEN SetAt(Allocate(bmeta, <<found[1].meta, id>>), scope, name,
             [found[1] EXCEPT !.meta = Fresh(bmeta)])
  ELSE SetAt(bmeta, scope, name, Annotated(found[1], id))

Attach(m, scope, name, meta, range) ==
  Attached(ToMeta(Allocate(m, <<meta>>), Fresh(m), range), Fresh(m),
           GetIn(m.scopes, scope, name), scope, name)

RECURSIVE AttachAll(_, _, _, _)
AttachAll(m, k, binders, meta) ==
  IF binders = <<>> THEN m
  ELSE AttachAll(Attach(m, k.scope, Head(binders).name, meta, k.form.range), k,
                 Tail(binders), meta)

AnnotateValue(m, k, metaVal) ==
  LET meta  == metaVal.id
      v     == k.value
      inner == IF v.is = "Annotated" THEN v.value ELSE v
      known == IF v.is = "Annotated"
               THEN [m EXCEPT !.scopes[meta].parents = Append(@, v.meta)] ELSE m
  IN  Resume(AttachAll(known, k, BindersOf(v), meta), k.next, Annotated(inner, meta))

Combine(m, k, v) ==
  IF Plainly(v).is \in Combiners THEN CallOf(m, v, k.d, k.scope, k.next)
  ELSE Raise(m, k.next, "apply")

EvalRest(m, k, v) ==
  LET cons == [op |-> "cons", a |-> v, next |-> k.next, traced |-> <<>>]
  IN  IF k.op = "pairD" /\ k.d.is = "Pair" THEN EvalPair(m, k.d, k.scope, cons)
      ELSE Eval(m, k.d, k.scope, cons)

(* All that is not false and not null is true. *)
Choose(m, k, v) ==
  LET no == Plainly(v) \in {Null, Bool(FALSE)}
  IN  Eval(m, IF no THEN k.no ELSE k.yes, k.scope, k.next)

(* ReadyContinuation.Go of a value: what each continuation does with it. *)
Continue(m, k, v) ==
  CASE k.op = "annotate"  -> EvalBind(m, MetaBind(k.form), k.scope,
                               [op |-> "annotated", form |-> k.form, value |-> v,
                                scope |-> k.scope, next |-> k.next, traced |-> <<>>])
    [] k.op = "annotated" -> AnnotateValue(m, k, v)
    [] k.op = "combine"   -> Combine(m, k, v)
    [] k.op = "call"      -> CallOf(m, k.combiner, v, k.scope, k.next)
    [] k.op \in {"pairD", "consD"} -> EvalRest(m, k, v)
    [] k.op = "cons"      -> Resume(m, k.next, Pair(k.a, v))
    [] k.op = "bindVals"  -> BuildAlone(m, ToSlice(v), k.scope, k.next)
    [] k.op = "build"     -> BuildScope(m, k.vals, k.scope, k.next)
    [] k.op = "bindEformal" ->
         BindTo(m, k.combiner.eformal, k.sub,
                [op |-> "body", body |-> k.combiner.body, sub |-> k.sub, next |-> k.next,
                 traced |-> <<>>], ScopeAt(k.scope))
    [] k.op = "body"      -> Eval(m, k.body, k.sub, k.next)
    [] k.op = "bindRest"  ->
         IF ~IsBindable(k.rest) THEN Raise(m, k.next, "cannot bind")
         ELSE BindTo(m, k.rest, k.scope,
                     [op |-> "cons", a |-> v, next |-> k.next, traced |-> <<>>], k.val)
    [] k.op = "bindField" ->
         BindTo(m, k.binding, k.scope,
                [op |-> "bindFields", rest |-> k.rest, src |-> k.src, scope |-> k.scope,
                 next |-> k.next, traced |-> <<>>], v)
    [] k.op = "bindFields" -> BindTo(m, Bind(k.rest), k.scope, k.next, k.src)
    [] k.op = "bindMeta"  ->
         BindTo(ToMeta(m, v.id, k.binding.range), k.binding.value, k.scope, k.next,
                Annotated(k.val, v.id))
    [] k.op = "def"       -> BindTo(m, k.formals, k.scope, k.next, v)
    [] k.op = "if"        -> Choose(m, k, v)
    [] k.op = "do"        -> Do(m, k.body, k.scope, k.next)
    [] k.op = "bound"     -> Resume(m, k.next, Bool(TRUE))
    [] k.op = "reduced"   -> Reduce(m, k.f, v, k.keys, k.kv, k.scope, k.next)

(* An error ends the Trampoline it is raised in: that of a (bind), whose   *)
(* value is then false, or the outermost.  Nothing is popped.              *)
RECURSIVE CatcherOf(_)
CatcherOf(k) == IF k.op \in {"bound", "identity"} THEN k ELSE CatcherOf(k.next)

Unwind(m) == Resume(m, CatcherOf(m.cont).next, Bool(FALSE))

Finished(m) == IF m.err # "" THEN CatcherOf(m.cont).op = "identity" ELSE m.cont.op = "identity"

(* What the Trampoline does each time around. *)
Go(m) == IF m.err # "" THEN Unwind(m) ELSE Continue(m, m.cont, m.res)

Start(scopes, trace, form, scope) ==
  Eval([scopes |-> scopes, trace |-> trace, cont |-> Identity, res |-> Null, err |-> ""],
       form, scope, Identity)
=============================================================================
