------------------------------- MODULE Ground -------------------------------
(***************************************************************************)
(* The scope that every script is run under, from the builtins and the     *)
(* text of the standard library (ground.go), and the scope that one is run *)
(* in (run_scope.go).                                                      *)
(***************************************************************************)
EXTENDS Reader, Evaluator

CONSTANT Prelude   (* the text of the standard library *)

(* The Ground scope: the builtins and what the standard library binds. *)
RECURSIVE RunFor(_, _), EvalForms(_, _, _)

(* The Trampoline, 2^n times around unless it ends before. *)
RunFor(m, n) ==
  IF Finished(m) THEN m ELSE IF n = 0 THEN Go(m) ELSE RunFor(RunFor(m, n - 1), n - 1)

RunOn(m) == RunFor(m, 12)

(* EvalReader, to the end: the forms one after another, up to an error. *)
EvalForms(m, forms, scope) ==
  IF forms = <<>> \/ m.err # "" THEN m
  ELSE EvalForms(RunOn(Start(m.scopes, m.trace, Head(forms), scope)), Tail(forms), scope)

Idle(scopes) ==
  [scopes |-> scopes, trace |-> NewTrace, cont |-> Identity, res |-> Null, err |-> ""]

GroundScope == 1

(* NewRunScope: a child of what the thunk is run with. *)
RunBindings(env) ==
  << <<"*dir*", Opaque>>, <<"*env*", ScopeAt(env)>>, <<"*stdin*", Opaque>>,
     <<"*stdout*", Opaque>>, <<"main", Opaque>> >>

NewRunScope(scopes, parent) ==
  LET env == Len(scopes) + 1
  IN  scopes \o <<NewScope(<<>>, <<>>), NewScope(RunBindings(env), <<parent>>),
                  NewScope(<<>>, <<env + 1>>)>>

(* That of a script has its id before the library is evaluated, which      *)
(* makes no difference to either.                                          *)
ScriptScope  == GroundScope + 3
ScriptScopes ==
  EvalForms(Idle(NewRunScope(<<NewScope(GroundBinds, <<>>)>>, GroundScope)),
            ReadAll(Prelude).forms, GroundScope).scopes
=============================================================================
