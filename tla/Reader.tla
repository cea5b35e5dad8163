------------------------------- MODULE Reader -------------------------------
(***************************************************************************)
(* pkg/bass/reader.go: what a text is read as.  A text is a sequence of    *)
(* tokens, each a delimiter, a newline, a space or a word: how a word is   *)
(* spelled is model data, split where the reader splits it, and each token *)
(* is one column wide.  A reader is a text and how much of it was          *)
(* consumed.  What a read returns is how much is consumed then, the forms  *)
(* it read, the error or "", and the forms it handed to the analyzer.      *)
(***************************************************************************)
EXTENDS Forms, FiniteSets

Tok(c) == [c |-> c]

(* A word, split at its slashes and each part at its colons. *)
Word(segments)   == [c |-> "word", segments |-> segments]
W(name)          == Word(<< <<name>> >>)
K(name)          == Word(<< <<"", name>> >>)
CommandTok(name) == [c |-> "command", name |-> name]
NumberTok(i)     == [c |-> "number", i |-> i]
(* ok is FALSE of a string with an escape that there is not. *)
StringTok(s, ok) == [c |-> "string", s |-> s, ok |-> ok]

Closing == ("(" :> ")") @@ ("[" :> "]") @@ ("{" :> "}")
Blanks  == {"space"}
Spaces  == {"space", "newline"}

Got(at, form, seen) == [at |-> at, forms |-> <<form>>, err |-> "", seen |-> seen]
Fails(at, err)      == [at |-> at, forms |-> <<>>, err |-> err, seen |-> <<>>]

-----------------------------------------------------------------------------
More(text, at) == at < Len(text)
Upcoming(text, at) == text[at + 1].c

(* How much is consumed when what is in the set has been skipped. *)
RECURSIVE Skip(_, _, _)
Skip(text, at, set) ==
  IF at < Len(text) /\ text[at + 1].c \in set THEN Skip(text, at + 1, set) ELSE at

SkipSpaces(text, at) == Skip(text, at, Spaces)

(* skipLeadingComment: the semicolons and the spaces after them. *)
SkipLeading(text, at) == Skip(text, Skip(text, at, {";"}), Blanks)

(* readCommentedLine: the line, and what is consumed after its newline. *)
RECURSIVE LineEnd(_, _)
LineEnd(text, at) ==
  IF at < Len(text) /\ text[at + 1].c # "newline" THEN LineEnd(text, at + 1) ELSE at
LineOf(text, at)   == IF LineEnd(text, at) = at THEN <<>>
                      ELSE <<SubSeq(text, at + 1, LineEnd(text, at))>>
PastLine(text, at) == IF More(text, LineEnd(text, at)) THEN LineEnd(text, at) + 1
                                                       ELSE Len(text)

(* slurp's Position: the line, from 1, and the column, from 0. *)
Position(text, at) ==
  LET newlines == {i \in 1..at : text[i].c = "newline"}
  IN  <<Cardinality(newlines) + 1, at - Max(newlines \cup {0})>>

Loc(text, from, to) == [start |-> Position(text, from), end |-> Position(text, to)]

-----------------------------------------------------------------------------
(* readSymbol, readKeywordsOrJustSymbol, readKeywords and readPath *)
Predefined == ("_" :> Ignore) @@ ("null" :> Null) @@ ("true" :> Bool(TRUE))
              @@ ("false" :> Bool(FALSE))

ReadKeywords(segments) ==
  LET isKeyword == segments[1] = "" /\ Len(segments) > 1
      start     == IF isKeyword THEN Kw(segments[2]) ELSE Sym(segments[1])
  IN  FoldLeft(LAMBDA val, kw : ListOf(<<Kw(kw), val>>), start,
               SubSeq(segments, IF isKeyword THEN 3 ELSE 2, Len(segments)))

RootOf(start) ==
  CASE start \in {<<".">>, <<"..">>} -> DirPath(<<N(start[1])>>, {})
    [] start = <<"">> -> DirPath(<<Sep>>, {})
    [] OTHER -> ReadKeywords(start)

ReadPath(segments) ==
  LET isDir == Last(segments) = <<"">>
      names == SubSeq(segments, 2, Len(segments) - (IF isDir THEN 1 ELSE 0))
      Child(i) == IF i = Len(names) /\ ~isDir THEN FilePath(<<N(names[i][1])>>)
                                              ELSE DirPath(<<N(names[i][1])>>, {})
  IN  FoldLeft(LAMBDA path, i : [is |-> "ExtendPath", parent |-> path, child |-> Child(i)],
               RootOf(segments[1]), [i \in DOMAIN names |-> i])

ReadSymbol(segments) ==
  IF Len(segments) > 1 THEN ReadPath(segments)
  ELSE IF Len(segments[1]) = 1 /\ segments[1][1] \in DOMAIN Predefined
  THEN Predefined[segments[1][1]]
  ELSE ReadKeywords(segments[1])

(* readList and readConsList: the last form after an ampersand is the tail. *)
Delimits(form) == LET v == Plainly(form) IN v.is = "Symbol" /\ v.name = "&"

Listed(open, forms) ==
  LET Cell(a, d) == IF open = "(" THEN Pair(a, d) ELSE ConsForm(a, d)
      amp  == SelectInSeq(forms, Delimits)
      tail == SelectSeq(SubSeq(forms, amp + 1, Len(forms)), LAMBDA f : ~Delimits(f))
  IN  IF amp = 0 THEN FoldRight(Cell, forms, Empty)
      ELSE FoldRight(Cell, SubSeq(forms, 1, amp - 1), IF tail = <<>> THEN Empty ELSE Last(tail))

Enclosed(open, forms) ==
  IF open = "{" THEN Bind(forms) ELSE Listed(open, forms)

(* desugarMeta: a sequence of at most one. *)
DesugarMeta(v) ==
  CASE v.is = "Bind"    -> <<v>>
    [] v.is = "Keyword" -> <<Bind(<<v, Bool(TRUE)>>)>>
    [] v.is \in {"Symbol", "String"} -> <<Bind(<<Kw("tag"), v>>)>>
    [] OTHER -> <<>>

(* tryReadTrailingComment *)
TrailingLine(text, line) == [at |-> PastLine(text, line), comment |-> LineOf(text, line)]

Trailing(text, past) ==
  IF ~More(text, past) \/ Upcoming(text, past) # ";" THEN [at |-> past, comment |-> <<>>]
  ELSE TrailingLine(text, SkipLeading(text, past + 1))

-----------------------------------------------------------------------------
RECURSIVE ReadAnnotate(_, _), Container(_, _, _, _, _), Contained(_, _, _, _, _),
          ReadCommented(_, _, _), One(_, _)

(* What is read before a closing delimiter. *)
Container(text, here, end, forms, seen) ==
  IF ~More(text, here) THEN [Fails(here, "unclosed") EXCEPT !.seen = seen]
  ELSE IF Upcoming(text, here) = end
  THEN [at |-> here + 1, forms |-> forms, err |-> "", seen |-> seen]
  ELSE Contained(text, ReadAnnotate(text, here), end, forms, seen)

Contained(text, r, end, forms, seen) ==
  IF r.err # "" THEN [r EXCEPT !.seen = seen \o @]
  ELSE Container(text, SkipSpaces(text, r.at), end, forms \o r.forms, seen \o r.seen)

EnclosedIn(open, r) == IF r.err # "" THEN r ELSE Got(r.at, Enclosed(open, r.forms), r.seen)

ReadEnclosed(text, at, open) ==
  EnclosedIn(open, Container(text, SkipSpaces(text, at), Closing[open], <<>>, <<>>))

(* The lines of a comment, and the form they are about. *)
Commented(r, lines) == IF r.err # "" THEN r ELSE [r EXCEPT !.forms[1].comment = lines]

ReadCommentOf(text, next, lines) ==
  IF ~More(text, next) THEN Fails(next, "EOF")
  ELSE IF Upcoming(text, next) = ";"
  THEN ReadCommented(text, SkipLeading(text, next + 1), lines)
  ELSE Commented(ReadAnnotate(text, next), lines)

ReadCommented(text, start, comment) ==
  ReadCommentOf(text, Skip(text, PastLine(text, start), Blanks), comment \o LineOf(text, start))

Merged(meta, of) == IF of = <<>> THEN meta ELSE <<Bind(of[1].forms \o meta[1].forms)>>

MetaOnto(m, f, meta) ==
  IF f.err # "" THEN [f EXCEPT !.seen = m.seen \o @]
  ELSE IF meta = <<>> THEN [Fails(f.at, "bad syntax") EXCEPT !.seen = m.seen \o f.seen]
  ELSE [f EXCEPT !.forms[1].meta = Merged(meta, @), !.seen = m.seen \o @]

ReadAfterMeta(text, m) ==
  IF m.err # "" THEN m
  ELSE MetaOnto(m, ReadAnnotate(text, m.at), DesugarMeta(Plainly(m.forms[1])))

ReadMeta(text, at) == ReadAfterMeta(text, ReadAnnotate(text, at))

(* slurp's One: one form by its first rune, past those that are skipped. *)
One(text, here) ==
  LET tok  == text[here + 1]
      past == here + 1
  IN  IF ~More(text, here) THEN Fails(here, "EOF")
      ELSE CASE tok.c = "word"    -> Got(past, ReadSymbol(tok.segments), <<>>)
             [] tok.c = "command" -> Got(past, Command(tok.name), <<>>)
             [] tok.c = "number"  -> Got(past, Number(tok.i), <<>>)
             [] tok.c = "string"  -> IF tok.ok THEN Got(past, Str(tok.s), <<>>)
                                     ELSE Fails(past, "illegal escape")
             [] tok.c \in DOMAIN Closing -> ReadEnclosed(text, past, tok.c)
             [] tok.c = ";"  -> ReadCommented(text, SkipLeading(text, past), <<>>)
             [] tok.c = "^"  -> ReadMeta(text, past)
             [] tok.c = "#!" -> IF More(text, LineEnd(text, past))
                                THEN One(text, SkipSpaces(text, PastLine(text, past)))
                                ELSE Fails(Len(text), "EOF")
             [] OTHER -> Fails(past, "unmatched delimiter")

AnnotatedAt(text, pre, one) ==
  IF one.forms[1].is = "Annotate" THEN one.forms[1]
  ELSE Annotate(one.forms[1], Loc(text, pre, one.at), <<>>, <<>>)

Noted(form, comment) ==
  IF form.comment # <<>> THEN form ELSE [form EXCEPT !.comment = comment]

HandOver(at, form, seen) == Got(at, form, Append(seen, form))

ReadTrailed(text, pre, one, trailer) ==
  HandOver(trailer.at, Noted(AnnotatedAt(text, pre, one), trailer.comment), one.seen)

ReadTrailing(text, pre, one) ==
  IF one.err # "" THEN one
  ELSE ReadTrailed(text, pre, one, Trailing(text, Skip(text, one.at, Blanks)))

ReadFrom(text, pre)    == ReadTrailing(text, pre, One(text, pre))
ReadAnnotate(text, at) == ReadFrom(text, SkipSpaces(text, at))

(* What a reader reads of a text, form by form, until an error or the end. *)
RECURSIVE ReadOn(_, _), ReadOnFrom(_, _, _)
ReadOnFrom(text, read, r) ==
  IF r.err # "" THEN [read EXCEPT !.err = r.err, !.seen = @ \o r.seen]
  ELSE ReadOn(text, [at |-> r.at, forms |-> read.forms \o r.forms, err |-> "",
                     seen |-> read.seen \o r.seen])
ReadOn(text, read) == ReadOnFrom(text, read, ReadAnnotate(text, read.at))

ReadAll(text) == ReadOn(text, [at |-> 0, forms |-> <<>>, err |-> "", seen |-> <<>>])
=============================================================================
