-------------------------------- MODULE Parser --------------------------------
(***************************************************************************)
(* NetParser and NetUnparser (libsponge/util/parser.{hh,cc}).              *)
(*                                                                         *)
(* A writer unparses fields of one, two and four bytes into a string; the  *)
(* string may be cut short on the way; a reader parses the same fields     *)
(* from a Buffer that holds what has arrived, and may also skip bytes and  *)
(* set the error to any result: one of its own, as header parsers do, or   *)
(* NoError to go on.  The Buffer is the byte string that module Buffer     *)
(* shows it to be.                                                         *)
(***************************************************************************)
EXTENDS Loops, Functions

CONSTANTS
  Base,       \* 256: the number of values of a byte
  Widths,     \* sizeof(T) of the integers: 1, 2 and 4
  MaxBytes,   \* bound on the length of the string
  MaxCalls    \* bound on the calls of the reader

ASSUME ParserAssumptions ==
  /\ Base \in Nat \ {0, 1}
  /\ Widths \subseteq Nat \ {0}
  /\ MaxBytes \in Nat
  /\ MaxCalls \in Nat

\* ParseResult, in the order of the enum.
ParseResults ==
  <<"NoError", "BadChecksum", "PacketTooShort", "WrongIPVersion", "HeaderTooShort",
    "TruncatedPacket", "Unsupported">>

VARIABLES
  fields,   \* history: the fields written, as <<width, value>>
  sent,     \* NetUnparser: the string they were unparsed into
  arrived,  \* history: the number of bytes that the reader was given
  buffer,   \* NetParser::_buffer
  error,    \* NetParser::_error
  parsed,   \* history: the calls of the reader that found no error, as
            \* <<width, value>>; skipped bytes have the value -1
  phase,    \* "write" or "parse"
  calls,    \* history: the number of calls of the reader
  shown     \* what as_string last returned

vars == <<fields, sent, arrived, buffer, error, parsed, phase, calls, shown>>

\* as_string has names for the first six results; past them it reads whatever
\* follows the table.
Names == SubSeq(ParseResults, 1, 6)
as_string(r) ==
  LET i == CHOOSE i \in 1 .. Len(ParseResults) : ParseResults[i] = r IN
  IF i <= Len(Names) THEN Names[i] ELSE "out of bounds"

-----------------------------------------------------------------------------
\* Mutant: the bits above the byte are not masked off.
unparse_int_unmasked(len, val) == [i \in 1 .. len |-> val \div Power(Base, len - i)]

\* Mutant: the least significant byte goes first.
unparse_int_little(len, val) == [i \in 1 .. len |-> (val \div Power(Base, i - 1)) % Base]

\* NetUnparser::_unparse_int: the bytes pushed for val.
unparse_int(len, val) == [i \in 1 .. len |-> (val \div Power(Base, len - i)) % Base]

\* The loop of NetParser::_parse_int over the first len bytes.
parse_loop(bytes, len) ==
  LET ret[i \in 0 .. len] ==
        IF i = 0 THEN 0 ELSE ((ret[i - 1] * Base) % Power(Base, len)) + bytes[i]
  IN  ret[len]

\* Mutant: a string of exactly the right length is too short.
check_size_strict(size) == IF size >= Len(buffer) THEN "PacketTooShort" ELSE error

\* Mutant: an error of the past is forgotten when there are bytes enough.
check_size_resets(size) == IF size > Len(buffer) THEN "PacketTooShort" ELSE "NoError"

\* NetParser::_check_size: the value of _error after it.  It replaces an error
\* that was set before.
check_size(size) == IF size > Len(buffer) THEN "PacketTooShort" ELSE error

Init ==
  /\ fields = <<>>
  /\ sent = <<>>
  /\ arrived = 0
  /\ buffer = <<>>
  /\ error = "NoError"
  /\ parsed = <<>>
  /\ phase = "write"
  /\ calls = 0
  /\ shown = "none"

\* NetUnparser::u8, u16, u32.
Unparse(len, val) ==
  /\ phase = "write"
  /\ Len(sent) + len <= MaxBytes
  /\ fields' = Append(fields, <<len, val>>)
  /\ sent' = sent \o unparse_int(len, val)
  /\ UNCHANGED <<arrived, buffer, error, parsed, phase, calls, shown>>

\* NetParser(buffer): the reader gets the first n bytes.
Construct(n) ==
  /\ phase = "write"
  /\ n <= Len(sent)
  /\ phase' = "parse"
  /\ arrived' = n
  /\ buffer' = SubSeq(sent, 1, n)
  /\ UNCHANGED <<fields, sent, error, parsed, calls, shown>>

\* The width of the field that the reader has come to.
NextWidth == fields[Len(parsed) + 1][1]

Take(len, value) ==
  /\ phase = "parse"
  /\ calls < MaxCalls
  /\ calls' = calls + 1
  /\ error' = check_size(len)
  /\ IF error' = "NoError"
       THEN /\ buffer' = SubSeq(buffer, len + 1, Len(buffer))
            /\ parsed' = Append(parsed, <<len, value>>)
       ELSE UNCHANGED <<buffer, parsed>>
  /\ UNCHANGED <<fields, sent, arrived, phase, shown>>

\* NetParser::u8, u16, u32 for the next field; 0 is returned on an error.
ParseInt ==
  /\ Len(parsed) < Len(fields)
  /\ Take(NextWidth, parse_loop(buffer, NextWidth))

\* NetParser::remove_prefix over the next field.
RemovePrefix ==
  /\ Len(parsed) < Len(fields)
  /\ Take(NextWidth, -1)

\* NetParser::set_error, which stores whatever it is given.
SetError(e) ==
  /\ phase = "parse"
  /\ calls < MaxCalls
  /\ calls' = calls + 1
  /\ error' = e
  /\ UNCHANGED <<fields, sent, arrived, buffer, parsed, phase, shown>>

\* as_string(get_error()).
Show ==
  /\ phase = "parse"
  /\ calls < MaxCalls
  /\ calls' = calls + 1
  /\ shown' = as_string(error)
  /\ UNCHANGED <<fields, sent, arrived, buffer, error, parsed, phase>>

Next ==
  \/ \E len \in Widths : \E val \in 0 .. Power(Base, len) - 1 : Unparse(len, val)
  \/ \E n \in 0 .. MaxBytes : Construct(n)
  \/ ParseInt
  \/ RemovePrefix
  \/ \E e \in Range(ParseResults) : SetError(e)
  \/ Show

Spec == Init /\ [][Next]_vars

-----------------------------------------------------------------------------
(***************************************************************************)
(* Properties.                                                             *)
(***************************************************************************)

\* The shapes of the state.
ParserTypeOK ==
  /\ \A i \in DOMAIN sent : sent[i] \in 0 .. Base - 1
  /\ Len(sent) <= MaxBytes
  /\ error \in Range(ParseResults)
  /\ phase \in {"write", "parse"}
  /\ Len(parsed) <= Len(fields)

\* What is parsed is what was unparsed: the reader's k-th integer is the
\* writer's k-th, whatever was skipped in between.
RoundTrip ==
  \A k \in DOMAIN parsed :
    /\ parsed[k][1] = fields[k][1]
    /\ parsed[k][2] \in {fields[k][2], -1}

\* The bytes that the first k fields of fs take.
TotalWidth(fs, k) == SumSeq([i \in 1 .. k |-> fs[i][1]])

\* The next field reaches past the bytes that arrived.
NextIsCut == TotalWidth(fields, Len(parsed) + 1) > arrived

\* A call for a field succeeds exactly when the whole of it was among the bytes
\* that the reader was given and no error is set, and it reports PacketTooShort
\* exactly when it was not, or that was the error: however many fields were
\* taken, skipped, refused and retried before, the size check has not lost
\* count of the bytes.
TooShortExact ==
  [][ParseInt \/ RemovePrefix =>
       /\ error' = "PacketTooShort" <=> NextIsCut \/ error = "PacketTooShort"
       /\ parsed' # parsed <=> ~NextIsCut /\ error = "NoError"]_vars

\* While there is an error nothing is taken from the buffer, so that a reader
\* that sets it back to NoError goes on at the field where it stopped.  The
\* error gives way only to one the reader sets, or to PacketTooShort for a
\* field that has not arrived.
ErrorStopsParsing ==
  [][error # "NoError" =>
       /\ UNCHANGED <<buffer, parsed>>
       /\ \/ error' = error
          \/ \E e \in Range(ParseResults) : SetError(e)
          \/ error' = "PacketTooShort" /\ NextIsCut]_vars

\* parser.hh: as_string is to "Output a string representation of a
\* ParseResult", whichever it is.
EveryResultHasAName == shown # "out of bounds"

=============================================================================
