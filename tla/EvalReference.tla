---------------------------- MODULE EvalReference ----------------------------
(***************************************************************************)
(* What a form of the language means, without continuations: an outcome is *)
(* a heap with a value, or with an error that is not "".  This is what     *)
(* the machine of Evaluator is compared with; it shares with it only what  *)
(* neither evaluates nor calls.                                            *)
(***************************************************************************)
EXTENDS Evaluator

Gives(scopes, v)   == [scopes |-> scopes, val |-> v, err |-> ""]
Errors(scopes, e)  == [scopes |-> scopes, val |-> Null, err |-> e]

(* What is done with a value, if there is one. *)
Then(r, Use(_, _)) == IF r.err # "" THEN r ELSE Use(r.scopes, r.val)

Child(scopes, parents) == Append(scopes, NewScope(<<>>, parents))

RECURSIVE Means(_, _, _), MeansEach(_, _, _), Calls(_, _, _, _), Binds(_, _, _, _),
          BindsFields(_, _, _, _), Builds(_, _, _), Sequenced(_, _, _), Folded(_, _, _, _, _, _)

(* The values of the elements of a list, the first first.  A list that is  *)
(* the rest of one in brackets is a call.                                  *)
MeansRest(scopes, form, scope) ==
  IF form.is = "Cons" /\ form.d.is = "Pair" THEN Means(scopes, form.d, scope)
  ELSE MeansEach(scopes, form.d, scope)

MeansEach(scopes, form, scope) ==
  IF form.is \in {"Pair", "Cons"}
  THEN Then(Means(scopes, form.a, scope), LAMBDA s, a :
         Then(MeansRest(s, form, scope), LAMBDA s2, d : Gives(s2, Pair(a, d))))
  ELSE Means(scopes, form, scope)

(* The values of a scope that is written out, in a scope that has no parent. *)
Builds(scopes, vals, id) ==
  LET v     == Plainly(vals[1])
      bound == IF vals[1].is = "Annotated" THEN Annotated(vals[2], vals[1].meta) ELSE vals[2]
  IN  CASE vals = <<>> -> Gives(scopes, ScopeAt(id))
        [] v.is = "Symbol" /\ Len(vals) > 1 ->
             Builds(SetIn(scopes, id, v.name, bound), SubSeq(vals, 3, Len(vals)), id)
        [] v.is = "ScopeAt" ->
             Builds([scopes EXCEPT ![id].parents = Append(@, v.id)], Tail(vals), id)
        [] OTHER -> Errors(scopes, "bad syntax")

MeansBind(scopes, forms, scope) ==
  LET id == Len(scopes) + 1
  IN  Then(MeansEach(Child(scopes, <<scope>>), ConsListOf(forms), id),
           LAMBDA s, vals : Builds([s EXCEPT ![id].parents = <<>>], ToSlice(vals)[1], id))

(* A comment or a meta is evaluated after the value, which it annotates. *)
NewMachine(scopes) ==
  [scopes |-> scopes, trace |-> NewTrace, cont |-> Identity, res |-> Null, err |-> ""]
Outcome(m) == IF m.err # "" THEN Errors(m.scopes, m.err) ELSE Gives(m.scopes, m.res)

MeansAnnotated(scopes, form, scope, value) ==
  Then(MeansBind(scopes, MetaBind(form), scope), LAMBDA s, metaVal :
    Outcome(AnnotateValue(NewMachine(s),
                          [form |-> form, value |-> value, scope |-> scope, next |-> Identity],
                          metaVal)))

GivesFound(scopes, found) ==
  IF found = <<>> THEN Errors(scopes, "unbound") ELSE Gives(scopes, found[1])

Means(scopes, form, scope) ==
  CASE form.is = "Annotate" ->
         Then(Means(scopes, form.value, scope), LAMBDA s, v :
           IF MetaBind(form) = <<>> THEN Gives(s, v) ELSE MeansAnnotated(s, form, scope, v))
    [] form.is = "Annotated" -> Means(scopes, form.value, scope)
    [] form.is = "Symbol"  -> GivesFound(scopes, GetIn(scopes, scope, form.name))
    [] form.is = "Keyword" -> Gives(scopes, Sym(form.name))
    [] form.is = "Pair" ->
         Then(Means(scopes, form.a, scope), LAMBDA s, c :
           IF Plainly(c).is \in Combiners THEN Calls(s, Plainly(c), form.d, scope)
           ELSE Errors(s, "apply"))
    [] form.is = "Cons" -> MeansEach(scopes, form, scope)
    [] form.is = "Bind" -> MeansBind(scopes, form.forms, scope)
    [] OTHER -> Gives(scopes, form)

-----------------------------------------------------------------------------
FieldMeans(scopes, field, scope, id) ==
  IF field.err # "" THEN Errors(scopes, field.err)
  ELSE IF field.key \notin KeySet(scopes, id) /\ field.default # <<>>
  THEN Means(scopes, field.default[1], scope)
  ELSE GivesFound(scopes, GetIn(scopes, id, field.key))

BindsFields(scopes, forms, scope, val) ==
  LET src == Plainly(val)
  IN  CASE src.is # "ScopeAt" -> Errors(scopes, "mismatch")
        [] Len(forms) % 2 # 0 -> Errors(scopes, "bad syntax")
        [] forms = <<>> -> Gives(scopes, Bind(<<>>))
        [] ~IsBindable(forms[2]) -> Errors(scopes, "cannot bind")
        [] OTHER -> Then(FieldMeans(scopes, Field(forms[1]), scope, src.id), LAMBDA s, v :
                      Then(Binds(s, forms[2], scope, v), LAMBDA s2, b :
                        BindsFields(s2, SubSeq(forms, 3, Len(forms)), scope, val)))

Matches(scopes, binding, constant, val) ==
  IF Same1(scopes, constant, val) THEN Gives(scopes, binding) ELSE Errors(scopes, "mismatch")

Binds(scopes, binding, scope, val) ==
  LET v == Plainly(val)
  IN  CASE binding.is = "Annotate" /\ MetaBind(binding) = <<>> ->
             Binds(scopes, binding.value, scope, val)
        [] binding.is = "Annotate" ->
             Then(MeansBind(scopes, MetaBind(binding), scope), LAMBDA s, meta :
               Binds(ToMeta([scopes |-> s], meta.id, binding.range).scopes, binding.value, scope,
                     Annotated(val, meta.id)))
        [] binding.is = "Annotated" -> Binds(scopes, binding.value, scope, val)
        [] binding.is = "Symbol"  -> Gives(SetIn(scopes, scope, binding.name, val), binding)
        [] binding.is = "Ignore"  -> Gives(scopes, binding)
        [] binding.is \in {"Pair", "Cons"} /\ v.is \in {"Pair", "Cons"} ->
             IF ~IsBindable(binding.a) THEN Errors(scopes, "cannot bind")
             ELSE Then(Binds(scopes, binding.a, scope, v.a), LAMBDA s, a :
                    IF ~IsBindable(binding.d) THEN Errors(s, "cannot bind")
                    ELSE Then(Binds(s, binding.d, scope, v.d), LAMBDA s2, d :
                           Gives(s2, Pair(a, d))))
        [] binding.is \in {"Pair", "Cons"} -> Errors(scopes, "mismatch")
        [] binding.is = "Bind" -> BindsFields(scopes, binding.forms, scope, val)
        [] OTHER -> Matches(scopes, binding, ConstantOf(binding), val)

-----------------------------------------------------------------------------
Sequenced(scopes, body, scope) ==
  IF body = <<>> THEN Gives(scopes, Null)
  ELSE IF Len(body) = 1 THEN Means(scopes, body[1], scope)
  ELSE Then(Means(scopes, body[1], scope), LAMBDA s, v : Sequenced(s, Tail(body), scope))

Folded(scopes, f, res, keys, kv, scope) ==
  IF keys = <<>> THEN Gives(scopes, res)
  ELSE Then(Calls(scopes, f, ConsListOf(<<res, Sym(Head(keys)), GetIn(scopes, kv, Head(keys))[1]>>),
                  scope),
            LAMBDA s, v : Folded(s, f, v, Tail(keys), kv, scope))

(* The numbers, as they are usually defined. *)
Figured(name, nums) ==
  LET All(Before(_, _)) == \A i, j \in DOMAIN nums : i < j => Before(nums[i], nums[j])
      after == IF Len(nums) = 1 THEN <<>> ELSE Tail(nums)
      total == MapThenSumSet(LAMBDA i : nums[i], DOMAIN nums)
      Size(n) == IF n < 0 THEN -n ELSE n
      Fits(q) == /\ Size(q * nums[2]) <= Size(nums[1])
                 /\ Size(nums[1]) - Size(q * nums[2]) < Size(nums[2])
                 /\ q * nums[2] * nums[1] >= 0
  IN  CASE name = "+"    -> Number(total)
        [] name = "*"    -> Number(FoldRight(LAMBDA n, mul : n * mul, nums, 1))
        [] name = "-"    -> Number(IF after = <<>> THEN 0 - nums[1] ELSE 2 * nums[1] - total)
        [] name = "quot" -> Number(CHOOSE q \in -Size(nums[1])..Size(nums[1]) : Fits(q))
        [] name = "max"  -> Number(Max(Range(nums)))
        [] name = "min"  -> Number(Min(Range(nums)))
        [] name = ">"    -> Bool(All(LAMBDA x, y : x > y))
        [] name = ">="   -> Bool(All(LAMBDA x, y : x >= y))
        [] name = "<"    -> Bool(All(LAMBDA x, y : x < y))
        [] name = "<="   -> Bool(All(LAMBDA x, y : x <= y))

IsFalse(v) == Plainly(v) \in {Null, Bool(FALSE)}

Whether(r) == Gives(r.scopes, Bool(r.err = ""))

Builtins(scopes, name, args, scope) ==
  CASE name = "def" -> Then(Means(scopes, args[2], scope), LAMBDA s, v : Binds(s, args[1], scope, v))
    [] name = "if"  -> Then(Means(scopes, args[1], scope), LAMBDA s, v :
                         Means(s, IF IsFalse(v) THEN args[3] ELSE args[2], scope))
    [] name = "do"    -> Sequenced(scopes, args, scope)
    [] name = "op"    -> Gives(scopes, Operative(args[1], args[2], args[3], scope))
    [] name = "eval"  -> Means(scopes, args[1], args[2].id)
    [] name = "make-scope" ->
         Gives(Child(scopes, [i \in DOMAIN args |-> args[i].id]), ScopeAt(Len(scopes) + 1))
    [] name = "bind"  -> Whether(Binds(scopes, args[2], args[1].id, args[3]))
    [] name = "error" -> Errors(scopes, "error")
    [] name = "reduce-kv" ->
         Folded(scopes, Plainly(Unwrap(args[1])), args[2],
                KeysIn(scopes, args[3].id), args[3].id, scope)
    [] name = "with-meta" ->
         IF Plainly(args[2]).is = "Null" THEN Gives(scopes, args[1])
         ELSE IF Plainly(args[2]).is # "ScopeAt" THEN Errors(scopes, "decode")
         ELSE Gives(scopes, Annotated(args[1], Plainly(args[2]).id))
    [] name \in Arithmetic -> Gives(scopes, Figured(name, [i \in DOMAIN args |-> args[i].i]))
    [] name = "log" -> IF BadKeys(Tail(args)) THEN Errors(scopes, "decode")
                       ELSE Gives(scopes, args[1])
    [] name = "assoc" ->
         IF BadKeys(Tail(args)) THEN Errors(scopes, "decode")
         ELSE Gives(Assoc([scopes |-> scopes], args[1].id, Tail(args)).scopes,
                    ScopeAt(Len(scopes) + 1))
    [] OTHER -> Gives(scopes, Pure([scopes |-> scopes], name, args))

BuiltinMeans(scopes, name, given, scope) ==
  IF given.err # "" THEN Errors(scopes, given.err) ELSE Builtins(scopes, name, given.args, scope)

(* A list that was read as a call is not called when it is an argument. *)
ArgsMean(scopes, val, scope) ==
  IF val.is = "Pair" THEN MeansEach(scopes, val, scope) ELSE Means(scopes, val, scope)

Calls(scopes, c, val, scope) ==
  LET sub == Len(scopes) + 1
  IN  CASE c.is = "Builtin" -> BuiltinMeans(scopes, c.name, Arguments(c.name, val), scope)
        [] c.is = "Operative" ->
             Then(Binds(Child(scopes, <<c.scope>>), c.bindings, sub, val), LAMBDA s, b :
               Then(Binds(s, c.eformal, sub, ScopeAt(scope)), LAMBDA s2, e :
                 Means(s2, c.body, sub)))
        [] c.is \in Applicatives ->
             Then(ArgsMean(scopes, val, scope), LAMBDA s, vals :
               Calls(s, Plainly(Unwrap(c)), vals, scope))
        [] c.is = "SymbolOperative" ->
             Outcome(CallSymbol(NewMachine(scopes), c.name, val, Identity))
=============================================================================
