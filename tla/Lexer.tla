------------------------------- MODULE Lexer --------------------------------
(***************************************************************************)
(* The lexer of crates/cj-lexer/src/lexer.rs: Lexer::tokenize over one     *)
(* source, one call of next_token per step.                                *)
(*                                                                         *)
(* A source is a sequence of characters.  The lexer's byte offset is       *)
(* modelled by the index of the character that starts there; a wide        *)
(* character (two bytes or more in UTF-8) keeps what its width is seen by: *)
(* the column it moves when it is passed byte by byte.  A scanner is an    *)
(* operator from the index it starts at to its scan: the kind of the       *)
(* token, the index `to` after it, the index `ate` it had read up to       *)
(* before it went back, and its errors.  The text a token carries is left  *)
(* out, except that its kind depends on it.                                *)
(***************************************************************************)
EXTENDS Integers, Sequences, FiniteSets

CONSTANTS Characters,   \* every character a source can hold
          WideStart,    \* wide characters an identifier may start with (XID_Start)
          WideContinue, \* wide characters that only continue one
          WideOther,    \* wide characters outside both
          Words         \* the keywords that can occur, as sequences of characters

ASSUME LexerAssumption ==
    /\ WideStart \cap WideContinue = {}
    /\ WideOther \cap (WideStart \cup WideContinue) = {}
    /\ "end" \notin Characters \cup WideStart \cup WideContinue \cup WideOther

VARIABLES src,
          at,      \* pos: index of the next character
          line,
          col,
          tokens,
          errors,
          ended    \* tokenize has returned

vars == <<src, at, line, col, tokens, errors, ended>>

NL == "\n"
Blanks == {" ", "\t", "\r"}
Digits == {"0", "1", "2", "3", "4", "5", "6", "7", "8", "9"}
HexLetters == {"a", "b", "c", "d", "e", "f", "A", "B", "C", "D", "E", "F"}
HexDigits == Digits \cup HexLetters
Letters == HexLetters \cup
    {"g", "h", "i", "j", "k", "l", "m", "n", "o", "p", "q", "r", "s", "t", "u", "v", "w", "x", "y", "z",
     "G", "H", "I", "J", "K", "L", "M", "N", "O", "P", "Q", "R", "S", "T", "U", "V", "W", "X", "Y", "Z"}
Alphanumeric == Letters \cup Digits
Wide == WideStart \cup WideContinue \cup WideOther
XidStart == Letters \cup WideStart
XidContinue == XidStart \cup Digits \cup {"_"} \cup WideContinue
Quotes == {"'", "\""}
BackQuote == "backquote"
End == "end"  \* what peek finds after the last character

At(i) == IF i \in 1 .. Len(src) THEN src[i] ELSE End

\* The end of the run of characters of S that starts at i.
EndOfRun(i, S) == CHOOSE j \in i .. Len(src) + 1 :
                     At(j) \notin S /\ \A k \in i .. j - 1 : At(k) \in S

Error(what, i) == [what |-> what, at |-> i]

Scan(kind, to, errs) == [kind |-> kind, to |-> to, ate |-> to, errors |-> errs]

-----------------------------------------------------------------------------
(***************************************************************************)
(* Lines and columns.                                                      *)
(***************************************************************************)
LastBreak(from, to) ==
    CHOOSE b \in {0} \cup (from .. to - 1) :
        /\ b = 0 \/ src[b] = NL
        /\ \A k \in b + 1 .. to - 1 : k >= from => src[k] # NL

\* Position after the characters from .. to - 1, read from [line, col]; a wide
\* character moves the column by `stride`.
Moved(pos, from, to, stride) ==
    LET b == LastBreak(from, to)
        wide(i) == Cardinality({k \in i .. to - 1 : src[k] \in Wide})
        columns(i) == (to - i) + (stride - 1) * wide(i)
    IN  [line |-> pos.line + Cardinality({k \in from .. to - 1 : src[k] = NL}),
         col  |-> IF b = 0 THEN pos.col + columns(from) ELSE 1 + columns(b + 1)]

\* bump_char: one column for each character.
BumpChar(pos, from, to) == Moved(pos, from, to, 1)

\* bump: one column for each byte, two for a wide character.
Bump(pos, from, to) == Moved(pos, from, to, 2)

\* Mutant of RolledBack: the column is not put back.
RolledBackAskew(pos, from, ate, to) == BumpChar(pos, from, ate)

\* The position when `ate` was reached and the cursor put back to `to`; what
\* is given back is on one line and not wide.
RolledBack(pos, from, ate, to) ==
    [BumpChar(pos, from, ate) EXCEPT !.col = LET c == @ - (ate - to) IN IF c > 1 THEN c ELSE 1]

-----------------------------------------------------------------------------
(***************************************************************************)
(* Identifiers.                                                            *)
(***************************************************************************)

ScanIdentifier(i) ==
    LET j == EndOfRun(i, XidContinue)
    IN  IF At(i) \notin XidStart \cup {"_"} THEN Scan("ILLEGAL", i + 1, << >>)
        ELSE Scan(IF SubSeq(src, i, j - 1) \in Words THEN "KEYWORD" ELSE "IDENTIFIER", j, << >>)

ScanBackquoted(i) ==
    LET j == EndOfRun(i + 1, XidContinue)
        odd == IF At(j) \in {BackQuote, End} THEN << >> ELSE <<Error("not in an identifier", j)>>
    IN  IF At(i + 1) \notin XidStart \cup {"_"}
        THEN Scan("ILLEGAL", i + 1, <<Error("expected identifier", i + 1)>>)
        ELSE IF At(j) = BackQuote THEN Scan("IDENTIFIER", j + 1, << >>)
        ELSE Scan("IDENTIFIER", j, odd \o <<Error("unterminated identifier", j)>>)

-----------------------------------------------------------------------------
(***************************************************************************)
(* Numbers.  Digits, fraction, exponent and suffix hand on a scan.         *)
(***************************************************************************)
SignedDigits(i) ==
    EndOfRun(IF At(i) \in {"+", "-"} THEN i + 1 ELSE i, Digits \cup {"_"})

\* Mutant of InSuffix: a dot never ends it.
InSuffixAnyDot(i) == At(i) \in Alphanumeric \cup {"_", "."}

\* A dot in a suffix ends it where a range or a member access begins.
InSuffix(i) ==
    \/ At(i) \in Alphanumeric \cup {"_"}
    \/ At(i) = "." /\ At(i + 1) \notin Letters \cup {".", "_"}

EndOfSuffix(i) == CHOOSE j \in i .. Len(src) + 1 :
                     ~InSuffix(j) /\ \A k \in i .. j - 1 : InSuffix(k)

FloatSuffix(s, i) ==
    LET j == EndOfRun(i, Alphanumeric)
    IN  IF SubSeq(src, i + 1, j - 1) \in {<<"1", "6">>, <<"3", "2">>, <<"6", "4">>}
        THEN Scan("FLOAT", j, s.errors)
        ELSE Scan("ILLEGAL", j, Append(s.errors, Error("illegal float suffix", i)))

NumberSuffix(s) ==
    LET i == s.to
        j == EndOfSuffix(i)
        width == SubSeq(src, i + 1, j - 1)
        integer == s.kind # "FLOAT" /\ At(i) \in {"i", "u"}
    IN  CASE At(i) = "f" -> FloatSuffix(s, i)
          [] integer -> IF width \in {<<"8">>, <<"1", "6">>, <<"3", "2">>, <<"6", "4">>}
                        THEN Scan(s.kind, j, s.errors)
                        ELSE Scan("ILLEGAL", j, Append(s.errors, Error("illegal integer suffix", i)))
          [] At(i) \notin Alphanumeric \cup {"_"} -> s
          [] OTHER -> Scan(s.kind, j, IF s.errors = << >> THEN <<Error("unknown suffix", i)>> ELSE s.errors)

HasRadix(i) == At(i) = "0" /\ At(i + 1) \in {"x", "X", "o", "O", "b", "B"}

RadixDigits(letter) == CASE letter \in {"x", "X"} -> HexDigits
                         [] letter \in {"o", "O"} -> Digits \ {"8", "9"}
                         [] letter \in {"b", "B"} -> {"0", "1"}

\* `0x1.8p1`: the digits after the dot count only when an exponent follows;
\* otherwise the token is the integer before the dot.
HexFraction(dot) ==
    LET f == EndOfRun(dot + 1, HexDigits \cup {"_"})
    IN  IF At(f) \in {"p", "P"} THEN Scan("FLOAT", SignedDigits(f + 1), << >>)
        ELSE [Scan("INTEGER", dot, << >>) EXCEPT !.ate = f]

RadixNumber(i) ==
    LET j == EndOfRun(i + 2, RadixDigits(At(i + 1)) \cup {"_"})
    IN  CASE j = i + 2 -> Scan("ILLEGAL", j, <<Error("expected digit", i)>>)
          [] At(i + 1) \in {"x", "X"} /\ j > i + 2 /\ At(j) = "." /\ At(j + 1) \in HexDigits ->
               HexFraction(j)
          [] OTHER -> NumberSuffix(Scan("INTEGER", j, << >>))

\* The digits before a dot; the first hex letter among them is reported.
Whole(i) ==
    LET strays == HexLetters \ {"e", "E", "f", "F"}
        j == EndOfRun(i, Digits \cup {"_"} \cup strays)
        stray == EndOfRun(i, Digits \cup {"_"})
    IN  Scan("INTEGER", j, IF stray = j THEN << >> ELSE <<Error("unexpected digit", stray)>>)

Exponent(s) ==
    LET i == s.to
        signed == At(i + 1) \in {"+", "-"}
        digits == At(IF signed THEN i + 2 ELSE i + 1) \in Digits
        decimal == At(i) \in {"e", "E"}
        hex == At(i) \in {"p", "P"}
        errs == IF hex /\ s.errors = << >> THEN <<Error("unexpected exponent", i)>> ELSE s.errors
    IN  IF (decimal /\ digits) \/ hex THEN Scan("FLOAT", SignedDigits(i + 1), errs) ELSE s

DecimalNumber(i) ==
    LET w == Whole(i)
        fraction == At(w.to) = "." /\ At(w.to + 1) \in Digits
        f == Scan("FLOAT", EndOfRun(w.to + 1, Digits \cup {"_"}), w.errors)
    IN  IF fraction THEN NumberSuffix(Exponent(f))
        ELSE IF At(w.to) = "." THEN w
        ELSE NumberSuffix(Exponent(w))

ScanNumber(i) == IF HasRadix(i) THEN RadixNumber(i) ELSE DecimalNumber(i)

-----------------------------------------------------------------------------
(***************************************************************************)
(* Runes, bytes and strings.                                               *)
(***************************************************************************)
HexDigit(c) == CHOOSE d \in 0 .. 15 :
    c = <<"0", "1", "2", "3", "4", "5", "6", "7", "8", "9", "a", "b", "c", "d", "e", "f">>[d + 1]
    \/ c = <<"0", "1", "2", "3", "4", "5", "6", "7", "8", "9", "A", "B", "C", "D", "E", "F">>[d + 1]

MaxScalar == 1114111 \* 0x10FFFF

\* The value of the digits from i to j - 1; everything above MaxScalar is one value.
HexValue(i, j) ==
    LET value[k \in i .. j] ==
            IF k = i THEN 0
            ELSE LET v == 16 * value[k - 1] + HexDigit(src[k - 1])
                 IN  IF v > MaxScalar THEN MaxScalar + 1 ELSE v
    IN  value[j]

IsScalar(v) == v <= 55295 \/ v \in 57344 .. MaxScalar

\* `\u{...}` whose backslash is at i: at most eight digits are read.
UnicodeEscape(i) ==
    LET open == i + 2
        run == EndOfRun(open + 1, HexDigits)
        j == IF run > open + 9 THEN open + 9 ELSE run
        escape(to, what) == [to |-> to, errors |-> IF what = "" THEN << >> ELSE <<Error(what, i)>>]
    IN  IF At(open) # "{" THEN escape(open, IF At(open) = End THEN "" ELSE "expected {")
        ELSE IF j = open + 1 THEN escape(j, "expected digit")
        ELSE IF At(j) # "}" THEN escape(j, IF At(j) = End THEN "" ELSE "expected }")
        ELSE escape(j + 1, IF IsScalar(HexValue(open + 1, j)) THEN "" ELSE "illegal scalar")

Escape(i, isByte) ==
    LET c == At(i + 1)
        legal == {"t", "b", "r", "n", "f", "v", "0", "'", "\"", "\\"} \cup (IF isByte THEN {} ELSE {"$"})
    IN  CASE c = End -> [to |-> i + 1, errors |-> << >>]
          [] c \in legal -> [to |-> i + 2, errors |-> << >>]
          [] c = "u" -> UnicodeEscape(i)
          [] OTHER -> [to |-> i + 2, errors |-> <<Error("unrecognized escape", i + 1)>>]

Tripled(i, quote) == At(i) = quote /\ At(i + 1) = quote /\ At(i + 2) = quote

\* From an index in a literal to its end: three quotes close a literal of
\* several lines.
LiteralFrom(quote, several, isByte) ==
    LET rest[i \in 1 .. Len(src) + 1] ==
            IF At(i) = End \/ (~several /\ At(i) = NL)
            THEN [to |-> i, closed |-> FALSE, errors |-> << >>]
            ELSE IF At(i) = quote /\ (several => Tripled(i, quote))
            THEN [to |-> i + (IF several THEN 3 ELSE 1), closed |-> TRUE, errors |-> << >>]
            ELSE IF At(i) = "\\"
            THEN LET e == Escape(i, isByte)
                 IN  [rest[e.to] EXCEPT !.errors = e.errors \o @]
            ELSE rest[i + 1]
    IN  rest

\* The literal whose quote is at q.
QuotedFrom(q, isByte) ==
    LET several == Tripled(q, At(q))
    IN  [several |-> several,
         scan |-> LiteralFrom(At(q), several, isByte)[q + (IF several THEN 3 ELSE 1)]]

ScanRuneOrString(i) ==
    LET isByte == At(i) = "b"
        q == IF At(i) \in Quotes THEN i ELSE i + 1
        quoted == QuotedFrom(q, isByte)
        s == quoted.scan
        kind == CASE At(q) = "'" -> IF isByte THEN "BYTE" ELSE "RUNE"
                  [] At(q) = "\"" -> IF quoted.several THEN "MULTILINE" ELSE "STRING"
    IN  Scan(kind, s.to, IF s.closed THEN s.errors
                         ELSE Append(s.errors, Error("unterminated literal", i)))

\* `#"..."#`: ends at the first hash after a quote, however many hashes opened it.
ScanHash(i) ==
    LET body == EndOfRun(i, {"#"})
        closing == {j \in body .. Len(src) :
                       src[j] = "#" /\ \E k \in body .. j - 1 : src[k] \in Quotes}
    IN  IF closing = {} THEN Scan("RAW", Len(src) + 1, <<Error("unterminated raw string", i)>>)
        ELSE Scan("RAW", (CHOOSE j \in closing : \A k \in closing : j <= k) + 1, << >>)

-----------------------------------------------------------------------------
(***************************************************************************)
(* Symbols and comments.                                                   *)
(***************************************************************************)
Symbols1 == {".", ",", "(", ")", "[", "]", "{", "}", ";", ":", "@", "$", "?", "~", "^", "&", "|",
             "!", "<", ">", "=", "+", "-", "*", "/", "%"}
Symbols2 == {<<".", ".">>, <<":", ":">>, <<"@", "!">>, <<"?", "?">>, <<"~", ">">>, <<"^", "=">>,
             <<"&", "&">>, <<"&", "=">>, <<"|", "|">>, <<"|", "=">>, <<"|", ">">>, <<"!", "=">>,
             <<"<", "=">>, <<"<", ":">>, <<"<", "-">>, <<"<", "<">>, <<">", "=">>, <<">", ">">>,
             <<"=", "=">>, <<"=", ">">>, <<"+", "+">>, <<"+", "=">>, <<"-", "-">>, <<"-", "=">>,
             <<"-", ">">>, <<"*", "*">>, <<"*", "=">>, <<"/", "=">>, <<"%", "=">>}
Symbols3 == {<<".", ".", ".">>, <<".", ".", "=">>, <<"&", "&", "=">>, <<"|", "|", "=">>,
             <<"<", "<", "=">>, <<">", ">", "=">>, <<"*", "*", "=">>, <<"!", "i", "n">>}

ScanSymbol(i) ==
    LET next(n) == [k \in 1 .. n |-> At(i + k - 1)]
        size == CASE next(3) \in Symbols3 -> 3
                  [] next(3) \notin Symbols3 /\ next(2) \in Symbols2 -> 2
                  [] OTHER -> 1
    IN  IF At(i) \in Symbols1 THEN Scan("SYMBOL", i + size, << >>)
        ELSE Scan("ILLEGAL", i + 1, <<Error("unknown start of token", i)>>)

ScanLineComment(i) ==
    Scan("COMMENT", CHOOSE j \in i .. Len(src) + 1 :
                       At(j) \in {NL, End} /\ \A k \in i .. j - 1 : src[k] # NL, << >>)

\* The end of the comment `depth` levels deep at an index.
CommentEnd ==
    LET rest[j \in 1 .. Len(src) + 1] ==
            [depth \in Nat |->
                IF depth = 0 \/ At(j) = End THEN j
                ELSE IF At(j) = "*" /\ At(j + 1) = "/" THEN rest[j + 2][depth - 1]
                ELSE IF At(j) = "/" /\ At(j + 1) = "*" THEN rest[j + 2][depth + 1]
                ELSE rest[j + 1][depth]]
    IN  rest

\* Comments nest; one that is not closed reaches the end of the source.
ScanBlockComment(i) == Scan("COMMENT", CommentEnd[i + 2][1], << >>)

-----------------------------------------------------------------------------
(***************************************************************************)
(* next_token: blanks are skipped, then the first character chooses the    *)
(* scanner.                                                                *)
(***************************************************************************)
First == EndOfRun(at, Blanks)

Begin == BumpChar([line |-> line, col |-> col], at, First)

Token(s, end) == [kind |-> s.kind, from |-> First, to |-> s.to, begin |-> Begin, end |-> end]

Emit(s, end) ==
    /\ ~ended
    /\ tokens' = Append(tokens, Token(s, end))
    /\ errors' = errors \o [n \in 1 .. Len(s.errors) |->
                               [what |-> s.errors[n].what, at |-> s.errors[n].at,
                                pos |-> BumpChar(Begin, First, s.errors[n].at)]]
    /\ at' = s.to
    /\ line' = end.line
    /\ col' = end.col
    /\ UNCHANGED <<src, ended>>

Read(s) == Emit(s, RolledBack(Begin, First, s.ate, s.to))

\* A comment is passed byte by byte.
ReadBytes(s) == Emit(s, Bump(Begin, First, s.to))

Prefixed == At(First) \in {"r", "b"} /\ At(First + 1) \in Quotes

DottedNumber == At(First) = "." /\ At(First + 1) \in Digits

NewLine == At(First) = NL /\ Read(Scan("NL", First + 1, << >>))

Number == (At(First) \in Digits \/ DottedNumber) /\ Read(ScanNumber(First))

RuneOrString == (At(First) \in Quotes \/ Prefixed) /\ Read(ScanRuneOrString(First))

Identifier == /\ At(First) \in XidStart \cup Wide \cup {"_"}
              /\ ~Prefixed
              /\ Read(ScanIdentifier(First))

Backquoted == At(First) = BackQuote /\ Read(ScanBackquoted(First))

Hash == At(First) = "#" /\ Read(ScanHash(First))

LineComment == At(First) = "/" /\ At(First + 1) = "/" /\ ReadBytes(ScanLineComment(First))

BlockComment == At(First) = "/" /\ At(First + 1) = "*" /\ ReadBytes(ScanBlockComment(First))

Symbol == /\ At(First) \notin XidStart \cup Wide \cup Digits \cup Quotes \cup {"_", BackQuote, "#", NL, End}
          /\ ~DottedNumber
          /\ ~(At(First) = "/" /\ At(First + 1) \in {"/", "*"})
          /\ Read(ScanSymbol(First))

EndOfSource ==
    /\ ~ended
    /\ At(First) = End
    /\ tokens' = Append(tokens, Token(Scan("END", First, << >>), Begin))
    /\ ended' = TRUE
    /\ at' = First
    /\ line' = Begin.line
    /\ col' = Begin.col
    /\ UNCHANGED <<src, errors>>

\* Lexer::new.
Start ==
    /\ at = 1
    /\ line = 1
    /\ col = 1
    /\ tokens = << >>
    /\ errors = << >>
    /\ ended = FALSE

Init == src \in Seq(Characters) /\ Start

Next ==
    \/ NewLine \/ Number \/ RuneOrString \/ Identifier \/ Backquoted \/ Hash
    \/ LineComment \/ BlockComment \/ Symbol \/ EndOfSource

Spec == Init /\ [][Next]_vars

-----------------------------------------------------------------------------
(***************************************************************************)
(* Lines and columns are those of the character: one column for each       *)
(* character since the last break, across newlines inside literals and     *)
(* numbers read too far.  Excepted is the rest of a line after a comment   *)
(* that holds a wide character: comments are passed byte by byte.          *)
(***************************************************************************)
TruePosition(i) ==
    LET b == LastBreak(1, i)
    IN  [line |-> 1 + Cardinality({k \in 1 .. i - 1 : src[k] = NL}), col |-> i - b]

AfterWideComment(i) ==
    \E n \in 1 .. Len(tokens) :
        /\ tokens[n].kind = "COMMENT"
        /\ tokens[n].to <= i
        /\ \E k \in tokens[n].from .. tokens[n].to - 1 : k > LastBreak(1, i) /\ src[k] \in Wide

TrueColumns ==
    /\ \A n \in 1 .. Len(tokens) :
          LET t == tokens[n]
          IN  /\ AfterWideComment(t.from) \/ t.begin = TruePosition(t.from)
              /\ AfterWideComment(t.to) \/ t.end = TruePosition(t.to)
    /\ \A n \in 1 .. Len(errors) :
          AfterWideComment(errors[n].at) \/ errors[n].pos = TruePosition(errors[n].at)

(***************************************************************************)
(* Between two tokens there is nothing but blanks, every token but the     *)
(* last takes at least one character ("never return without bumping"), the *)
(* last stands at the end of the source, and each has its true position:   *)
(* whatever is wrong with the source, no character is lost, the loop of    *)
(* tokenize ends, and every later pass speaks of the right place.          *)
(***************************************************************************)
TokensInPlace ==
    LET after(n) == IF n = 0 THEN 1 ELSE tokens[n].to
    IN  /\ \A n \in 1 .. Len(tokens) :
              /\ tokens[n].kind # "END" => tokens[n].from < tokens[n].to
              /\ after(n - 1) <= tokens[n].from
              /\ \A k \in after(n - 1) .. tokens[n].from - 1 : src[k] \in Blanks
        /\ ended => after(Len(tokens)) = Len(src) + 1
        /\ TrueColumns
=============================================================================
