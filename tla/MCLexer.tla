------------------------------ MODULE MCLexer -------------------------------
(* Words of the language, next to each other in every way that keeps them   *)
(* apart, and every short text over alphabets that provoke one scanner.     *)
EXTENDS Lexer, TLC

Chars(s) == [i \in 1 .. Len(s) |-> SubSeq(s, i, i)]

Of(kind, texts) == {[kind |-> kind, text |-> Chars(s)] : s \in texts}

Integers_ == Of("INTEGER", {"0", "1_1", "0x1f", "0o7", "0b1", "1u8", "0x1i64"})
Floats == Of("FLOAT", {"1.1", "1e1", "1.1e+1", "0x1.8p1", "1f16", "1.1f32"})
Numbers == Integers_ \cup Floats
Names == Of("IDENTIFIER", {"a", "rb1"}) \cup
    {[kind |-> "IDENTIFIER", text |-> t] :
        t \in {<<"wide">>, <<"_", "dot">>, <<BackQuote, "wide", "dot", BackQuote>>,
               <<BackQuote, "i", "n", BackQuote>>}}
Literals ==
    Of("RUNE", {"'a'", "r'\\u{D7FF}'"}) \cup Of("BYTE", {"b'\\''"}) \cup
    Of("STRING", {"\"\"", "\"\\\"\"", "r\"\\$\""}) \cup Of("RAW", {"#\"a\"#", "#'\n'#"}) \cup
    Of("MULTILINE", {"\"\"\"\n\"\"\"", "\"\"\"a\"\"b\"\"\""})
Comments == Of("COMMENT", {"/**/", "/*/**/*/", "/*/*\n*//**/*/"})
Keywords == Of("KEYWORD", {"in", "_"})
Operators == {[kind |-> "SYMBOL", text |-> t] : t \in {<<c>> : c \in Symbols1} \cup Symbols2 \cup Symbols3}
Elements == Numbers \cup Names \cup Literals \cup Comments \cup Keywords \cup Operators
                \cup Of("FLOAT", {".1"})

Name == CHOOSE e \in Names : e.text = <<"a">>

Separators == {<<" ">>, <<NL>>, <<" ", "\r", NL, "\t">>}

Span(element, from) == [kind |-> element.kind, from |-> from, to |-> from + Len(element.text)]

VARIABLE meant \* what the source was put together from; empty for any other text

Put(text, spans) == src = text /\ meant = spans

Apart == \E a \in Elements, b \in Elements, gap \in Separators :
    Put(a.text \o gap \o b.text, <<Span(a, 1), Span(b, Len(a.text \o gap) + 1)>>)

\* A number, a range and a number; an operator between two operands.  (`1u8.wide`
\* reads otherwise: see InSuffix.)
Together == \E a \in Numbers \cup Names, b \in Operators, c \in Numbers \cup {Name} :
    /\ c \in Numbers => a \in Numbers /\ b.text \in {<<".", ".">>, <<".", ".", "=">>, <<"+">>, <<"<", "<">>}
    /\ Put(a.text \o b.text \o c.text,
           <<Span(a, 1), Span(b, Len(a.text) + 1), Span(c, Len(a.text \o b.text) + 1)>>)

Alphabets ==
    {[of |-> {"0", "8", "a", "f", "p", "u", "x", "."}, size |-> 4],
     [of |-> {"1", "e", "p", "+", ".", "_"}, size |-> 5],
     [of |-> {"'", "\"", "\\", "u", "{", NL, "wide"}, size |-> 4],
     [of |-> {"\"", "b", "\\", NL}, size |-> 6],
     [of |-> {"/", "*", NL, "wide"}, size |-> 6],
     [of |-> {"#", "\"", BackQuote, "dot", "odd", "a"}, size |-> 4]}

AnyText == \E alphabet \in Alphabets : \E n \in 0 .. alphabet.size :
    \E text \in [1 .. n -> alphabet.of] : Put(text, << >>)

Escaped == \E digits \in {"D800", "10FFFF", "110000", "00000041", "000000041", "fffffff"} :
    Put(Chars("'\\u{" \o digits \o "}'"), << >>)

MCInit == (Apart \/ Together \/ AnyText \/ Escaped) /\ Start

MCSpec == MCInit /\ [][Next /\ UNCHANGED meant]_<<vars, meant>>

MCCharacters ==
    Letters \cup Digits \cup Symbols1 \cup Blanks \cup Quotes \cup Wide \cup {"_", "#", "\\", BackQuote, NL}

MCWords == {<<"i", "n">>, <<"_">>}

-----------------------------------------------------------------------------
(***************************************************************************)
(* A source put together from words of the language reads as those words,  *)
(* without an error: numbers next to ranges and member accesses, operators *)
(* of one to three characters, literals with escapes, nested comments.     *)
(***************************************************************************)
ReadAsMeant ==
    ended /\ meant # << >> =>
        /\ errors = << >>
        /\ LET read == SelectSeq(tokens, LAMBDA t : t.kind \notin {"NL", "END"})
           IN  meant = [n \in 1 .. Len(read) |->
                                  [kind |-> read[n].kind, from |-> read[n].from, to |-> read[n].to]]

=============================================================================
