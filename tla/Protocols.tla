------------------------------ MODULE Protocols ------------------------------
(***************************************************************************)
(* pkg/bass/protocol.go, pipes.go and json.go: the values a script reads   *)
(* from a stream of bytes, which ends with "EOF" or an error.  A byte is   *)
(* "nl", "sp", a digit or one of the delimiters of JSON lists; objects are *)
(* read as lists are, and a value is its text without blanks.  A source is *)
(* the values that its Next returns and what it returns then: "end" or an  *)
(* error.  What is read from a place on is a function of the place, by     *)
(* recursion over the places after it.                                     *)
(***************************************************************************)
EXTENDS Naturals, Sequences, SequencesExt

CONSTANT MaxToken   \* bufio.MaxScanTokenSize: a line is shorter

ASSUME ProtocolsAssumption == MaxToken \in Nat

Digits     == {"1", "2"}
BlankBytes == {"sp", "nl"}
Bytes      == Digits \cup BlankBytes \cup {"[", "]", "comma"}

Source(vals, end) == [vals |-> vals, end |-> end]
EndOf(end)        == IF end = "EOF" THEN "end" ELSE end

RawSource(bytes, end) ==
  IF end = "EOF" THEN Source(<<bytes>>, "end") ELSE Source(<<>>, end)

(* The first place from one on that is not of a kind, or past the end. *)
Past(bytes, from, kind) ==
  Min({i \in from..Len(bytes) : bytes[i] \notin kind} \cup {Len(bytes) + 1})

Places(bytes) == 1..(Len(bytes) + 1)

-----------------------------------------------------------------------------
(* bufio.ScanLines: a rest without a newline is a line. *)
LinesFrom(lines, bytes, from) ==
  LET nl == Past(bytes, from, Bytes \ {"nl"})
  IN  IF from > Len(bytes) THEN <<>>
      ELSE <<SubSeq(bytes, from, nl - 1)>> \o IF nl > Len(bytes) THEN <<>> ELSE lines[nl + 1]

LinesOf(bytes) ==
  LET lines[from \in Places(bytes)] == LinesFrom(lines, bytes, from) IN lines[1]

(* bufio.Scanner: a rest is a line even if an error follows, and a line    *)
(* that does not fit ends the source.                                      *)
Scanned(lines, end) ==
  LET long == {i \in DOMAIN lines : Len(lines[i]) >= MaxToken}
  IN  IF long # {} THEN Source(SubSeq(lines, 1, Min(long) - 1), "ErrTooLong")
                   ELSE Source(lines, EndOf(end))

LineSource(bytes, end) == Scanned(LinesOf(bytes), end)

FieldsFrom(fields, line, from) ==
  LET at    == Past(line, from, BlankBytes)
      after == Past(line, at, Bytes \ BlankBytes)
  IN  IF at > Len(line) THEN <<>> ELSE <<SubSeq(line, at, after - 1)>> \o fields[after]

Fields(line) ==
  LET fields[from \in Places(line)] == FieldsFrom(fields, line, from) IN fields[1]

UnixTableSource(bytes, end) ==
  [LineSource(bytes, end) EXCEPT !.vals = [i \in DOMAIN @ |-> Fields(@[i])]]

-----------------------------------------------------------------------------
(* What decodeValue or a part of it returns: the place after the text that *)
(* it has read, or why it stops.                                           *)
Read(at, val) == [at |-> at, val |-> val, err |-> "nil"]
Stops(err)    == [at |-> 0, val |-> <<>>, err |-> err]

Prefixed(text, read) ==
  IF read.err # "nil" THEN read ELSE [read EXCEPT !.val = text \o @]

(* A number is read with what follows it. *)
DecodeNumber(bytes, at, end) ==
  LET after == Past(bytes, at, Digits)
  IN  IF after > Len(bytes) /\ end # "EOF" THEN Stops(end)
      ELSE Read(after, SubSeq(bytes, at, after - 1))

(* A value of a list, and what comes after it up to the end of the list. *)
DecodeItem(decoded, from) ==
  LET item == decoded[from]["value"]
  IN  IF item.err # "nil" THEN item ELSE Prefixed(item.val, decoded[item.at]["more"])

DecodeList(decoded, bytes, from) ==
  LET at == Past(bytes, from, BlankBytes)
  IN  IF at <= Len(bytes) /\ bytes[at] = "]" THEN Read(at + 1, <<"[", "]">>)
      ELSE Prefixed(<<"[">>, DecodeItem(decoded, at))

(* decodeValue, by the tokens of json.Decoder. *)
DecodeValue(decoded, bytes, from, end) ==
  LET at == Past(bytes, from, BlankBytes)
  IN  IF at > Len(bytes) THEN Stops(end)
      ELSE CASE bytes[at] = "["       -> DecodeList(decoded, bytes, at + 1)
             [] bytes[at] \in Digits  -> DecodeNumber(bytes, at, end)
             [] OTHER                 -> Stops("syntax")

(* dec.More after a value of a list: it ends as what ends before it. *)
DecodeMore(decoded, bytes, from, end) ==
  LET at == Past(bytes, from, BlankBytes)
  IN  IF at > Len(bytes) THEN Stops(end)
      ELSE CASE bytes[at] = "]"     -> Read(at + 1, <<"]">>)
             [] bytes[at] = "comma" -> Prefixed(<<"comma">>, DecodeItem(decoded, at + 1))
             [] OTHER               -> Stops("syntax")

Decode(decoded, bytes, from, end) ==
  [part \in {"value", "more"} |-> IF part = "value" THEN DecodeValue(decoded, bytes, from, end)
                                  ELSE DecodeMore(decoded, bytes, from, end)]

Decodings(bytes, end) ==
  LET decoded[from \in Places(bytes)] == Decode(decoded, bytes, from, end) IN decoded

JSONFrom(source, next) ==
  IF next.err # "nil" THEN Source(<<>>, EndOf(next.err))
  ELSE [source[next.at] EXCEPT !.vals = <<next.val>> \o @]

JSONSource(bytes, end) ==
  LET source[from \in Places(bytes)] == JSONFrom(source, Decodings(bytes, end)[from]["value"])
  IN  source[1]

-----------------------------------------------------------------------------
ByLines   == {"lines", "unix-table"}
Protocols == {"raw", "json"} \cup ByLines

DecodeProto(name, bytes, end) ==
  CASE name = "raw"        -> RawSource(bytes, end)
    [] name = "lines"      -> LineSource(bytes, end)
    [] name = "unix-table" -> UnixTableSource(bytes, end)
    [] name = "json"       -> JSONSource(bytes, end)
=============================================================================
