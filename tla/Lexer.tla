-------------------------------- MODULE Lexer --------------------------------
(***************************************************************************)
(* The lexer, from a text to its tokens.  A text is a sequence of pieces:  *)
(* characters, except that a run of letters or of digits may be one piece. *)
(* A token is [t |-> type, v |-> value, line |-> number]; symbols and      *)
(* keywords are their own type, the value of the others is a sequence of   *)
(* pieces.                                                                 *)
(***************************************************************************)
EXTENDS Sequences, Integers, FiniteSets, SequencesExt

Quote == "\""
Slosh == "\\"

Digits  == {"0", "1", "2", "3", "4", "5", "7", "10", "20"}
TooLong == {"9223372036854775808"}            \* does not fit an i64
Space   == {" ", "\t", "\r", "\n"}
Pairs   == {"->", "==", "!=", "<=", ">=", "&&", "||"}
Singles == {"+", "-", "*", "/", "=", "!", "<", ">", "(", ")", "{", "}", "[", "]", ",", ":"}
Unknown == {"&", "|", ".", "@", ";"}

Keywords ==
  {"let", "fn", "return", "if", "else", "true", "false", "import", "async", "await", "infer",
   "enum", "tool", "effects", "test", "mock", "assert", "budget", "permissions", "as"}

Numeral(c) == c \in Digits \cup TooLong
Class(c) ==
  CASE Numeral(c) -> "numeral"
    [] c = "\n" -> "newline"
    [] c \in Space \ {"\n"} -> "space"
    [] c \in Singles \cup Unknown \cup {Quote, Slosh} -> "symbol"
    [] OTHER -> "letter"

Token(t, v, line) == [t |-> t, v |-> v, line |-> line]
NoTokens == <<>>        \* an error: a list of tokens ends with eof

RECURSIVE Past(_, _, _)
\* The first position from i on whose piece is of none of the classes.
Past(s, i, classes) == IF i <= Len(s) /\ Class(s[i]) \in classes THEN Past(s, i + 1, classes) ELSE i

\* The pieces from i to j - 1 as one name.
Word(s, i, j) == FoldLeft(LAMBDA a, c : a \o c, "", SubSeq(s, i, j - 1))

Piece(s, i) == IF i <= Len(s) THEN s[i] ELSE ""

Escapes == [c \in {Quote, Slosh, "n", "t", "r"} |->
              CASE c = "n" -> "\n" [] c = "t" -> "\t" [] c = "r" -> "\r" [] OTHER -> c]

RECURSIVE LexString(_, _, _)
\* The value of the string whose rest begins at i, and where it ends; 0 if it does not.
LexString(s, i, value) ==
  LET c == Piece(s, i)
      d == Piece(s, i + 1)
  IN CASE c \in {"", "\n"} -> [at |-> 0, value |-> value]
       [] c = Quote -> [at |-> i + 1, value |-> value]
       [] c = Slosh /\ d = "" -> [at |-> 0, value |-> value]
       [] c = Slosh /\ d \in DOMAIN Escapes -> LexString(s, i + 2, Append(value, Escapes[d]))
       [] c = Slosh /\ d \notin DOMAIN Escapes \cup {""} ->
            LexString(s, i + 2, value \o <<Slosh, d>>)
       [] OTHER -> LexString(s, i + 1, Append(value, c))

-----------------------------------------------------------------------------
(* The lexer l is the struct Lexer (the position and the line) with the    *)
(* tokens so far; `stopped` at the end or at an error.                     *)

Take(l, end, t, v) ==
  [l EXCEPT !.at = end, !.tokens = Append(@, Token(t, v, l.line))]
Error(l) == [l EXCEPT !.stopped = TRUE, !.tokens = NoTokens]

LexNumber(s, l) ==
  LET whole == Past(s, l.at, {"numeral"})
      point == Piece(s, whole) = "." /\ Numeral(Piece(s, whole + 1))
      end   == IF point THEN Past(s, whole + 1, {"numeral"}) ELSE whole
  IN IF Piece(s, end) = "." \/ (~point /\ \E k \in l.at..whole - 1 : s[k] \in TooLong) THEN Error(l)
     ELSE IF point THEN Take(l, end, "float", <<Word(s, l.at, whole), Word(s, whole + 1, end)>>)
     ELSE Take(l, end, "integer", <<Word(s, l.at, end)>>)

LexIdentifier(s, l) ==
  LET end  == Past(s, l.at, {"letter", "numeral"})
      word == Word(s, l.at, end)
  IN Take(l, end, IF word \in Keywords THEN word ELSE "identifier", <<word>>)

\* A line break that is escaped counts as one.
LexQuoted(s, l) ==
  LET string == LexString(s, l.at + 1, <<>>)
      lines  == Cardinality({k \in l.at..string.at - 1 : s[k] = "\n"})
  IN IF string.at = 0 THEN Error(l)
     ELSE [Take(l, string.at, "string", string.value) EXCEPT !.line = @ + lines]

\* The next token, or the white space or the comment before it.
LexNext(s, l) ==
  LET c == Piece(s, l.at)
      d == Piece(s, l.at + 1)
  IN CASE c = "" -> [Take(l, l.at, "eof", <<>>) EXCEPT !.stopped = TRUE]
       [] c = "\n" -> [l EXCEPT !.at = @ + 1, !.line = @ + 1]
       [] c \in Space \ {"\n"} -> [l EXCEPT !.at = Past(s, @, {"space"})]
       [] c = "/" /\ d = "/" -> [l EXCEPT !.at = Past(s, @, {"numeral", "space", "symbol", "letter"})]
       [] Numeral(c) -> LexNumber(s, l)
       [] c = Quote -> LexQuoted(s, l)
       [] c \o d \in Pairs -> Take(l, l.at + 2, c \o d, <<>>)
       [] c \in Singles /\ c \o d \notin Pairs \cup {"//"} -> Take(l, l.at + 1, c, <<>>)
       [] c \in Unknown \cup {Slosh} /\ c \o d \notin Pairs -> Error(l)
       [] OTHER -> LexIdentifier(s, l)

RECURSIVE LexSteps(_, _, _)
\* n steps, by halves: no deep recursion.
LexSteps(s, l, n) ==
  IF l.stopped THEN l ELSE IF n = 1 THEN LexNext(s, l)
  ELSE LexSteps(s, LexSteps(s, l, n \div 2), n - n \div 2)

Tokenize(text) ==
  LexSteps(text, [at |-> 1, line |-> 1, tokens |-> <<>>, stopped |-> FALSE], Len(text) + 1).tokens

-----------------------------------------------------------------------------
(* The formatter looks for comments with a scanner of its own. *)

ScanNext(s, k) ==
  LET c == Piece(s, k.at)
  IN CASE c = "" -> k
       [] c = Slosh /\ k.inString -> [k EXCEPT !.at = @ + 2]
       [] c = Quote -> [k EXCEPT !.at = @ + 1, !.inString = ~@]
       [] c = "/" /\ ~k.inString /\ Piece(s, k.at + 1) = "/" -> [k EXCEPT !.found = TRUE]
       [] OTHER -> [k EXCEPT !.at = @ + 1]

RECURSIVE ScanSteps(_, _, _)
ScanSteps(s, k, n) ==
  IF k.found THEN k ELSE IF n = 1 THEN ScanNext(s, k)
  ELSE ScanSteps(s, ScanSteps(s, k, n \div 2), n - n \div 2)

SourceHasComment(text) ==
  ScanSteps(text, [at |-> 1, inString |-> FALSE, found |-> FALSE], Len(text) + 1).found
=============================================================================
