----------------------------- MODULE MCProgram -----------------------------
(***************************************************************************)
(* The parts of the program that each behaviour takes one of: thunks that  *)
(* are built, scripts and lines that are evaluated, documents that are     *)
(* edited, modules that are loaded, calls of a runtime elsewhere.          *)
(***************************************************************************)
EXTENDS ThunkBuilding, RemoteRuntime, Scripts, Editor, Sessions

VARIABLE aspect   (* the part *)

MCBaseConfig == [entrypoint |-> <<"sh">>, cmd |-> <<"help">>]

MCPool == <<[platform |-> "other", client |-> TRUE], [platform |-> "arch", client |-> TRUE],
            [platform |-> "nested", client |-> FALSE]>>

Sub   == DirPath(<<N("sub")>>, {})
Globbed == DirPath(<<N("sub")>>, {"*.go"})
EmbeddedFiles == {<< <<N("std"), N("git.bass")>>, "x">>}

MCPlain ==
  { Secret("token", "hunter2"), FilePath(<<N("out")>>),
    HostPath("host", Globbed), CachePath("host", "shared", Sub),
    FSPath(EmbeddedFiles, FilePath(<<N("std"), N("git.bass")>>)),
    List(<<Str("-o"), CachePath("gomod", "locked", DirPath(<<Here>>, {}))>>) }

MCSubpaths == { DirPath(<<Here>>, {}), Globbed, FilePath(<<Up, N("out")>>) }

MCDirs == { DirPath(<<N("a"), N("b")>>, {}), DirPath(<<Up>>, {}),
            DirPath(<<Sep, N("root")>>, {}), HostPath("host", Sub) }

MCTargets(source) ==
  {DirPath(<<Here>>, {})} \cup IF source.is = "HostPath" THEN {FilePath(<<Sep, N("etc")>>)} ELSE {}

MCEnvs == { Scope(<< <<"A", Str("1")>>, <<"B", Secret("token", "hunter2")>> >>, <<>>),
            Scope(<< <<"A", Null>>, <<"C", HostPath("host", Sub)>> >>, <<>>) }

-----------------------------------------------------------------------------
NothingGiven == [entrypoint |-> <<>>, cmd |-> <<>>]

StartFrom(r) ==
  [heap |-> r.heap,
   shelf |-> <<[thunk |-> r.thunk, built |-> Deref(r.heap, r.thunk, {}),
                by |-> "start", from |-> 0, given |-> NothingGiven]>>]

OnImage == WithImage(Blank, Ref("repo", Nil, "arch", "tag", ""))
Compile == WithCmd(<<>>, OnImage, <<Command("go"), Str("build")>>)

Ported(r) == WithPort(r.heap, r.thunk, "http", 80)
Mounting(r, name) ==
  WithMount(r.heap, r.thunk, HostPath("host", Sub), DirPath(<<N(name)>>, {}))
Serve ==
  LET cmd   == Ported(WithCmd(<<>>, OnImage, <<Command("serve")>>))
      label == WithLabel(cmd.heap, cmd.thunk, "k", Str("a"))
  IN  Mounting(Mounting(Mounting(label, "x"), "y"), "z")

MCStarts == {StartFrom(Compile), StartFrom(Serve), StartFrom(Built(<<>>, Blank))}

(* p and q load a, which loads b and then itself. *)
MCLoads == [m \in {"a", "b"} |-> IF m = "a" THEN <<"b", "a">> ELSE <<>>]

(* A list that is cut off, lines and rows, one of them too long, and what  *)
(* is no JSON.                                                             *)
MCProduces ==
  { <<"progress", "[", "1", "comma", "1", "2", "progress", "]", "nl", "1", "2">>,
    <<"1", "sp", "1", "2", "nl", "nl", "[", "2", "comma", "[", "]">>,
    <<"1", "2", "nl", "1", "2", "1", "2", "1", "nl", "2">>,
    <<"1", "sp", "]", "nl", "2">>, <<"progress">> }

-----------------------------------------------------------------------------
(* The texts of the instance: a piece of the standard library (std/root    *)
(* .bass), lines that are typed or run, and documents.                     *)
Delimiters == {"(", ")", "[", "]", "{", "}", ";", "^"}
Numbers    == ("0" :> 0) @@ ("1" :> 1) @@ ("7" :> 7)
Keywords   == (":a" :> "a") @@ (":b" :> "b") @@ (":m" :> "m")

Lex(word) ==
  CASE word \in Delimiters       -> Tok(word)
    [] word = "nl"               -> Tok("newline")
    [] word = "bad-string"       -> StringTok("bad", FALSE)
    [] word \in DOMAIN Numbers   -> NumberTok(Numbers[word])
    [] word \in DOMAIN Keywords  -> K(Keywords[word])
    [] OTHER                     -> W(word)

(* The words, with a space after each. *)
Words(words) ==
  SubSeq([i \in 1..(2 * Len(words)) |-> IF i % 2 = 0 THEN Tok("space") ELSE Lex(words[(i + 1) \div 2])],
         1, 2 * Len(words))

-----------------------------------------------------------------------------
(* first to let, without the comments *)
MCPrelude ==
  Words(<<"(", "def", "first", "(", "wrap", "(", "op", "[", "(", "f", "&", "_", ")", "]", "_",
         "f", ")", ")", ")", "nl", "(", "def", "rest", "(", "wrap", "(", "op", "[", "(", "_",
         "&", "r", ")", "]", "_", "r", ")", ")", ")", "nl", "(", "def", "length", "(",
         "wrap", "(", "op", "[", "xs", "]", "_", "(", "if", "(", "empty?", "xs", ")", "0",
         "(", "+", "1", "(", "length", "(", "rest", "xs", ")", ")", ")", ")", ")", ")", ")",
         "nl", "(", "def", "op", "(", "(", "wrap", "(", "op", "(", "op", ")", "_", "(", "op",
         "[", "formals", "eformal", "&", "body", "]", "scope", "(", "eval", "[", "op",
         "formals", "eformal", "(", "if", "(", ">", "(", "length", "body", ")", "1", ")",
         "(", "cons", "do", "body", ")", "(", "first", "body", ")", ")", "]", "scope", ")",
         ")", ")", ")", "op", ")", ")", "nl", "(", "def", "defop", "(", "op", "[", "name",
         "formals", "eformal", "&", "body", "]", "scope", "(", "eval", "[", "def", "name",
         "[", "op", "formals", "eformal", "&", "body", "]", "]", "scope", ")", ")", ")",
         "nl", "(", "defop", "fn", "[", "formals", "&", "body", "]", "scope", "(", "wrap",
         "(", "eval", "[", "op", "formals", "_", "&", "body", "]", "scope", ")", ")", ")",
         "nl", "(", "defop", "defn", "[", "name", "formals", "&", "body", "]", "scope", "(",
         "eval", "[", "def", "name", "[", "fn", "formals", "&", "body", "]", "]", "scope",
         ")", ")", "nl", "(", "defn", "map-pairs", "[", "f", "ps", "]", "nl", "(", "defn",
         "map-pairs-acc", "[", "f", "a", "ps", "]", "(", "if", "(", "empty?", "ps", ")", "(",
         "if", "(", "null?", "a", ")", "[", "]", "(", "error", "uneven", ")", ")", "(", "if",
         "(", "null?", "a", ")", "(", "map-pairs-acc", "f", "(", "first", "ps", ")", "(",
         "rest", "ps", ")", ")", "(", "cons", "(", "f", "a", "(", "first", "ps", ")", ")",
         "(", "map-pairs-acc", "f", "null", "(", "rest", "ps", ")", ")", ")", ")", ")", ")",
         "nl", "(", "map-pairs-acc", "f", "null", "ps", ")", ")", "nl", "(", "defop", "let",
         "(", "bindings", "&", "body", ")", "scope", "nl", "(", "def", "child", "(",
         "make-scope", "scope", ")", ")", "nl", "(", "map-pairs", "(", "fn", "[", "binding",
         "val", "]", "(", "eval", "[", "def", "binding", "val", "]", "child", ")", ")",
         "bindings", ")", "nl", "(", "eval", "[", "do", "&", "body", "]", "child", ")", ")">>)

MCLines ==
  { Words(<<"(", "def", "f", "(", "op", "[", "x", "]", "s", "(", "eval", "x", "s", ")", ")",
           ")", "nl", "(", "(", "op", "[", "x", "]", "_", "(", "f", "x", ")", ")", "(", "if",
           "null", "1", "x", ")", ")">>),
    Words(<<"(", "let", "[", "x", "1", "]", "x", ")">>),
    Words(<<";", "doc", "nl", "(", "def", "x", "1", ")", "nl", "(", "meta", "x", ")">>),
    Words(<<"(", "if", "(", "bind", "(", "make-scope", ")", "[", "a", "{", "(", ":b", "(",
           "error", "1", ")", ")", "c", "}", "]", "[", "1", "{", ":a", "x", "}", "]", ")",
           "0", "(", "+", "1", "(", "error", "0", ")", ")", ")">>),
    Words(<<"(", "def", "y", "(", "cons", "x">>),
    Words(<<"1", ")", ")">>),
    Words(<<"(", "reduce-kv", "(", "wrap", "(", "op", "[", "acc", "k", "v", "]", "_", "(",
           "cons", "v", "acc", ")", ")", ")", "[", "]", "{", ":a", "1", ":b", "0", "}", ")">>),
    Words(<<"(", "=", "(", ":a", "{", ":a", "1", "}", ")", "(", ":b", "{", "}", "1", ")", ")",
           "nl", "^", ":m", "(", "assoc", "{", ":b", "1", "}", ":b", "null", ")">>),
    Words(<<"(", "(", "fn", "[", "{", ":a", "x", "(", ":b", "7", ")", "y", "}", "]", "(", "+",
           "x", "y", ")", ")", "{", ":a", "1", "}", ")">>),
    Words(<<"(", "x", "bad-string", ")">>) }

MCPrograms ==
  { Words(<<"[", "(", "quot", "(", "-", "7", ")", "(", "+", "1", "1", ")", ")", "(", "quot",
           "(", "-", "7", ")", "(", "-", "(", "+", "1", "1", ")", ")", ")", "(", "-", "7", "1",
           "7", ")", "(", "*", "7", "7", ")", "(", "max", "1", "7", "0", ")", "(", "min", "7",
           "0", "1", ")", "(", "<", "0", "1", "7", ")", "(", "<", "0", "1", "1", ")", "(", "<=",
           "0", "1", "1", ")", "(", "<=", "1", "0", "7", ")", "(", ">=", "7", "7", "0", ")",
           "(", ">=", "1", "7", "0", ")", "(", ">", "7", "1", "0", ")", "]">>),
    Words(<<"(", "def", "m", "(", "with-meta", "(", "eval", "(", "list->bind", "[", "(",
           "string->keyword", "(", "symbol->string", ":a", ")", ")", "7", "]", ")", "(",
           "make-scope", ")", ")", "{", ":m", "1", "}", ")", ")", "nl", "[", "(", "scope->list",
           "m", ")", "(", ":m", "(", "meta", "m", ")", ")", "(", "binds?", "m", ":b", ")", "(",
           "list?", "[", "1", "&", "m", "]", ")", "(", "pair?", "[", "1", "&", "m", "]", ")",
           "(", "combiner?", ":b", ")", "(", "operative?", "op", ")", "(", "null?", "(", "log",
           "null", ":a", ")", ")", "(", "scope?", "(", "dump", "m", ")", ")", "(", "with-meta",
           "1", "1", ")", "]">>) }

MCContents ==
  << Words(<<"(", "let", "[", "x", "1", "y", "x", "&", "f", "]", "nl", "(", "let", "[",
            "x", "0", "]", "(", "+", "x", "y", ")", ")", ")">>),
     Words(<<"(", "defn", "f", "[", "x", "]", "nl", "(", "def", "y", "x", ")", "nl", "(", "(",
            "fn", "[", "y", "]", "(", "+", "x", "y", ")", ")", "1", ")", ")", "nl", "(", "f",
            "1", ")">>),
     Words(<<"(", "def", "f", "(", "fn", "[", "x", "&", "r", "]", "nl", "(", "let", "[", "{",
            ":a", "x", "}", "r", "]", "x", ")", ")", ")", "nl", ";", "doc", "nl", "(", "def",
            "x", "1", ")", "nl", "x">>),
     Words(<<"(", "op", "[", "x", "]", "s", "(", "do", "(", "def", "y", "x", ")", "y", ")",
            ")", "nl", "(", "defop", "g", "[", "a", "]", "x", "(", "def", "a", "x", ")", ")",
            "nl", "(", "def", "x", "(", "g", "y", ")", ")">>),
     Words(<<";", "doc", "nl", "(", "defn", "f", "[", "]", "nl", "(", "def", "x", "0", ")",
            ";", "doc", "nl", "^", ":m", "nl", "(", "def", "y", "x", ")", "y", ")", "nl",
            "f">>),
     Words(<<"(", "let", "[", "x", "1", "]", "nl", ";", "doc", "nl", "(", "def", "x", "0",
            ")", "nl", "x", ")", "nl", "(", "provide", "[", "x", "]", "(", "def", "y", "1",
            ")", "y", ")", "nl", "(", "def", "x", "y", ")">>),
     Words(<<"(", "def", "x", "1">>),
     Words(<<"(", "def", "x", "(", "fn", "[", "x", "]", "x", ")", ")", ")">>) >>

-----------------------------------------------------------------------------
NoThunks == heap = <<>> /\ shelf = <<>>
NoScript ==
  /\ prompt = FALSE /\ phase = "over"
  /\ stream = <<>> /\ offset = 0 /\ pending = <<>> /\ typed = 0
  /\ evaluation = [err |-> ""] /\ subject = <<>> /\ saved = <<>>
  /\ lost = FALSE /\ deepest = 0

AtRest == EditorInit /\ SessionsInit /\ RemoteInit

Init ==
  /\ AtRest
  /\ \/ aspect = "thunks" /\ BuildingInit /\ NoScript
     \/ aspect = "script" /\ NoThunks /\ ScriptsInit
     \/ aspect \in {"editor", "load", "remote"} /\ NoThunks /\ NoScript

vars == <<aspect, buildingVars, scriptVars, editorVars, sessionVars, remoteVars>>

Next ==
  /\ UNCHANGED aspect
  /\ \/ /\ aspect = "thunks" /\ BuildingNext
        /\ UNCHANGED <<scriptVars, editorVars, sessionVars, remoteVars>>
     \/ /\ aspect = "script" /\ ScriptsNext
        /\ UNCHANGED <<buildingVars, editorVars, sessionVars, remoteVars>>
     \/ /\ aspect = "editor" /\ EditorNext
        /\ UNCHANGED <<buildingVars, scriptVars, sessionVars, remoteVars>>
     \/ /\ aspect = "load" /\ SessionsNext
        /\ UNCHANGED <<buildingVars, scriptVars, editorVars, remoteVars>>
     \/ /\ aspect = "remote" /\ RemoteNext
        /\ UNCHANGED <<buildingVars, scriptVars, editorVars, sessionVars>>

Spec == Init /\ [][Next]_vars
=============================================================================
