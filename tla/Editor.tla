------------------------------- MODULE Editor -------------------------------
(***************************************************************************)
(* The language server of pkg/lsp: the text of each document, the scope    *)
(* that it was evaluated in and what was found in it.  Requests are        *)
(* handled one by one, so each is a step, and another sends the answer.    *)
(***************************************************************************)
EXTENDS Ground, Analyzer

CONSTANTS Uris,  (* the documents *)
          Contents  (* what they may contain, by a name *)

VARIABLES documents, (* the text of each open document, by its name, else <<>> *)
          scopeOf,   (* the scopes after its text was evaluated *)
          analyzers, (* and what was found in it *)
          asked,     (* the request that was answered last *)
          answer     (* and the places or the names it was answered with *)

editorVars == <<documents, scopeOf, analyzers, asked, answer>>

Nothing == [is |-> "nothing"]
IsFree  == asked = Nothing

-----------------------------------------------------------------------------
(* updateFile: a text is read with an analyzer, and evaluated if it could  *)
(* be read to its end.  What becomes of each text is computed once.        *)
FileOf(read) ==
  [read  |-> read,
   found |-> AnalyzeAll(NoAnalysis, read.seen),
   scopes |-> EvalForms(Idle(ScriptScopes), IF read.err = "EOF" THEN read.forms ELSE <<>>,
                        ScriptScope).scopes]

Updates == [name \in DOMAIN Contents |-> FileOf(ReadAll(Contents[name]))] @@ <<>>

UpdateFile(uri, name, file) ==
  /\ documents' = [documents EXCEPT ![uri] = <<name>>]
  /\ scopeOf' = [scopeOf EXCEPT ![uri] = file.scopes]
  /\ analyzers' = [analyzers EXCEPT ![uri] = file.found]
  /\ UNCHANGED <<asked, answer>>

EditorInit ==
  /\ documents = [uri \in Uris |-> <<>>]
  /\ scopeOf = [uri \in Uris |-> <<>>]
  /\ analyzers = [uri \in Uris |-> NoAnalysis]
  /\ asked = Nothing /\ answer = {}

DidOpen(uri, name, file) == IsFree /\ UpdateFile(uri, name, file)

(* A change of what is not open is an error. *)
DidChange(uri, name, file) == IsFree /\ documents[uri] # <<>> /\ UpdateFile(uri, name, file)

(* A save may come with the text. *)
DidSave(uri, name, file) == IsFree /\ documents[uri] # <<>> /\ UpdateFile(uri, name, file)

(* The scope and what was found stay. *)
DidClose(uri) ==
  /\ IsFree
  /\ documents' = [documents EXCEPT ![uri] = <<>>]
  /\ UNCHANGED <<scopeOf, analyzers, asked, answer>>

-----------------------------------------------------------------------------
(* getToken: what is at the cursor or ends there, of a cursor that so much *)
(* of the text is before, between what isTerminal: a name, or what no name *)
(* is like.  A completion in the middle of a line takes what is left of it *)
(* with the word.                                                          *)
Terminals == Spaces \cup {"(", ")", "[", "]", "{", "}", ";", "string"}

InWord(text, i) == i \in DOMAIN text /\ text[i].c \notin Terminals
IsAlone(text, i) == ~InWord(text, i - 1) /\ ~InWord(text, i + 1)

SymbolAt(text, i) ==
  LET tok == text[i]
  IN  IF tok.c = "word" /\ Len(tok.segments) = 1 /\ Len(tok.segments[1]) = 1 /\ IsAlone(text, i)
      THEN tok.segments[1][1] ELSE "no symbol"

EndsLine(text, i) == i > Len(text) \/ text[i].c = "newline"

GetToken(text, before, rest) ==
  CASE InWord(text, before + 1) ->
         IF rest \/ EndsLine(text, before + 2) THEN SymbolAt(text, before + 1) ELSE "no symbol"
    [] InWord(text, before) -> SymbolAt(text, before)
    [] OTHER -> ""

(* rangeFromMeta of a value that is annotated. *)
PointAt(line, column) ==
  IF line = <<>> \/ column = <<>> THEN {} ELSE {Point(<<line[1].i, column[1].i>>)}

FromMeta(scopes, v) ==
  IF v.is # "Annotated" THEN {}
  ELSE PointAt(GetIn(scopes, v.meta, "line"), GetIn(scopes, v.meta, "column"))

(* What was found in the text, or where the value in its scope is from. *)
PlaceOr(place, scopes, val) ==
  IF place # <<>> THEN {place[1]} ELSE IF val # <<>> THEN FromMeta(scopes, val[1]) ELSE {}

Request(is, uri, cursor, name) == [is |-> is, uri |-> uri, cursor |-> cursor, name |-> name]

Definition(uri, before) ==
  LET text   == Contents[documents[uri][1]]
      name   == GetToken(text, before, TRUE)
      cursor == Position(text, before)
  IN  /\ IsFree /\ documents[uri] # <<>> /\ before <= Len(text)
      /\ asked' = Request("definition", uri, cursor, name)
      /\ answer' = PlaceOr(Locate(analyzers[uri], name, cursor), scopeOf[uri],
                           GetIn(scopeOf[uri], ScriptScope, name))
      /\ UNCHANGED <<documents, scopeOf, analyzers>>

Completion(uri, before) ==
  LET text   == Contents[documents[uri][1]]
      prefix == GetToken(text, before, FALSE)
      cursor == Position(text, before)
  IN  /\ IsFree /\ documents[uri] # <<>> /\ before <= Len(text)
      /\ asked' = Request("completion", uri, cursor, prefix)
      /\ answer' = CompleteIn(scopeOf[uri], ScriptScope, prefix)
                   \cup Complete(analyzers[uri], prefix, cursor)
      /\ UNCHANGED <<documents, scopeOf, analyzers>>

(* The answer is sent, and the next request is handled. *)
Reply ==
  /\ ~IsFree
  /\ asked' = Nothing /\ answer' = {}
  /\ UNCHANGED <<documents, scopeOf, analyzers>>

MaxLength == Max({Len(Contents[name]) : name \in DOMAIN Contents})

EditorNext ==
  \/ Reply
  \/ \E uri \in Uris :
       \/ \E name \in DOMAIN Contents : \E file \in {Updates[name]} :
            DidOpen(uri, name, file) \/ DidChange(uri, name, file) \/ DidSave(uri, name, file)
       \/ DidClose(uri)
       \/ \E before \in 0..MaxLength : Definition(uri, before) \/ Completion(uri, before)

-----------------------------------------------------------------------------
(* The forms of a form, and those around a place, the innermost first. *)
Slice(of)   == IF of = <<>> THEN <<>> ELSE of[1]
Inner(form) == IF Plainly(form).is = "Bind" THEN Plainly(form).forms ELSE Slice(ToSlice(form))

HeadOf(form) ==
  LET v == Plainly(form)
  IN  IF v.is # "Pair" \/ Plainly(v.a).is # "Symbol" THEN "" ELSE Plainly(v.a).name

RECURSIVE Around(_, _), Loose(_)
Around(forms, cursor) ==
  LET f == Head(forms)
  IN  CASE forms = <<>> -> <<>>
        [] f.is = "Annotate" /\ IsWithin(Point(cursor), f.range) ->
             Around(Inner(f), cursor) \o (IF HeadOf(f) \in Bounds THEN <<f>> ELSE <<>>)
             \o Around(Tail(forms), cursor)
        [] OTHER -> Around(Tail(forms), cursor)

(* The names that those of the forms bind that there are. *)
NamesAt(forms, at) == UNION {Range(BindersOf(forms[i])) : i \in at \cap DOMAIN forms}
NamesIn(form, at)  == NamesAt(Inner(form), at)

(* What a form binds around it, and what it binds within. *)
Names(form) ==
  IF HeadOf(form) \in {"def", "defn", "defop", "provide"} THEN NamesIn(form, {2}) ELSE {}

Loose(forms) ==
  UNION {Names(forms[i]) \cup IF HeadOf(forms[i]) \in Bounds THEN {} ELSE Loose(Inner(forms[i]))
         : i \in DOMAIN forms}

Formals == ("fn" :> {2}) @@ ("defn" :> {3}) @@ ("op" :> {2, 3}) @@ ("defop" :> {3, 4})
           @@ ("provide" :> {})

BoundBy(form) ==
  LET bindings == Walked(Inner(form)[2])
  IN  Loose(Inner(form)) \cup
      IF HeadOf(form) = "let" THEN NamesAt(bindings, {i \in DOMAIN bindings : i % 2 = 1})
                              ELSE NamesIn(form, Formals[HeadOf(form)])

(* Where a cursor is in a text that could be read, what is bound there, by *)
(* the nested forms of the text: the innermost first, the text itself last.*)
Visible(forms, around) == [i \in DOMAIN around |-> BoundBy(around[i])] \o <<Loose(forms)>>

(* Those of the innermost that has the name. *)
Nearest(visible, name) ==
  LET has == {i \in DOMAIN visible : \E b \in visible[i] : b.name = name}
  IN  IF has = {} THEN {} ELSE {b \in visible[Min(has)] : b.name = name}

AnswerIsLexical(visible, names) ==
  /\ asked.is = "definition" => LET binders == Nearest(visible, asked.name)
                                IN  binders # {} => \E b \in binders : answer = {b.range}
  /\ asked.is = "completion" =>
       answer = {n \in {b.name : b \in UNION Range(visible)} \cup names :
                   HasPrefix(n, asked.name)}

(* A definition is answered with a binder of the innermost form that binds *)
(* the name, where there is one, and a completion offers what is bound in  *)
(* the forms around and no local name of another form: what Analyze        *)
(* gathers in the order of reading, and Locate and Complete search in the  *)
(* order it was gathered, of the texts as they were opened, changed and    *)
(* closed (pkg/lsp/analyzer.go, handle_text_document_definition.go).       *)
AnswersAreLexical ==
  asked.is # "nothing" => \A file \in {Updates[documents[asked.uri][1]]} :
    file.read.err = "EOF" =>
      AnswerIsLexical(Visible(file.read.forms, Around(file.read.forms, asked.cursor)),
                      KeySet(file.scopes, ScriptScope))
=============================================================================
