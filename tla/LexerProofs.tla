---------------------------- MODULE LexerProofs -----------------------------
(***************************************************************************)
(* What is true of the lexer for every source and every set of characters: *)
(* the scanners stay in the source and take at least a character, the      *)
(* tokens tile the source, and every line and column is the true one.      *)
(***************************************************************************)
EXTENDS Lexer, FiniteSetTheorems, SequenceTheorems, WellFoundedInduction, TLAPS

Source == src \in Seq(Characters)

-----------------------------------------------------------------------------
(***************************************************************************)
(* Numbers and runs.                                                       *)
(***************************************************************************)

\* A set of natural numbers that is not empty has a least element.
LEMMA LeastOf ==
    ASSUME NEW S \in SUBSET Nat, S # {}
    PROVE  \E a \in S : \A b \in S : a <= b
<1>1. PICK a \in S : \A b \in S : ~ (<<b, a>> \in OpToRel(<, Nat))
    BY NatLessThanWellFounded, WFMin
<1>2. \A b \in S : a <= b
    <2> TAKE b \in S
    <2>1. a \in Nat /\ b \in Nat
        OBVIOUS
    <2>2. ~(b < a)
        BY <1>1, <2>1 DEF OpToRel
    <2> QED BY <2>1, <2>2
<1> QED BY <1>2

\* Of the members of S in an interval there is a first one.
LEMMA FirstSuch ==
    ASSUME NEW i \in Int, NEW m \in Int, NEW S, \E j \in i .. m : j \in S
    PROVE  \E j \in i .. m : j \in S /\ \A k \in i .. j - 1 : k \notin S
<1> DEFINE T == {j - i : j \in S \cap (i .. m)}
<1>1. T \in SUBSET Nat /\ T # {}
    OBVIOUS
<1>2. PICK a \in T : \A b \in T : a <= b
    BY <1>1, LeastOf
<1>3. PICK j \in S \cap (i .. m) : a = j - i
    BY <1>2
<1>4. ASSUME NEW k \in i .. j - 1, k \in S
      PROVE  FALSE
    <2>1. k \in i .. m /\ k - i < j - i
        BY <1>3
    <2>2. k - i \in T
        BY <1>4, <2>1
    <2> QED BY <1>2, <1>3, <2>1, <2>2
<1> QED BY <1>3, <1>4

\* And a last one.
LEMMA LastSuch ==
    ASSUME NEW i \in Int, NEW m \in Int, NEW S, \E j \in i .. m : j \in S
    PROVE  \E j \in i .. m : j \in S /\ \A k \in j + 1 .. m : k \notin S
<1> DEFINE T == {m - j : j \in S \cap (i .. m)}
<1>1. T \in SUBSET Nat /\ T # {}
    OBVIOUS
<1>2. PICK a \in T : \A b \in T : a <= b
    BY <1>1, LeastOf
<1>3. PICK j \in S \cap (i .. m) : a = m - j
    BY <1>2
<1>4. ASSUME NEW k \in j + 1 .. m, k \in S
      PROVE  FALSE
    <2>1. k \in i .. m /\ m - k < m - j
        BY <1>3
    <2>2. m - k \in T
        BY <1>4, <2>1
    <2> QED BY <1>2, <1>3, <2>1, <2>2
<1> QED BY <1>3, <1>4

\* The character at an index, and the mark where there is none.
LEMMA Reading ==
    ASSUME Source
    PROVE  /\ Len(src) \in Nat
           /\ \A i \in Int : /\ At(i) # End <=> i \in 1 .. Len(src)
                             /\ i \in 1 .. Len(src) => At(i) = src[i] /\ src[i] \in Characters
           /\ At(Len(src) + 1) = End
<1>1. Len(src) \in Nat /\ \A i \in 1 .. Len(src) : src[i] \in Characters
    BY DEF Source
<1>2. End \notin Characters
    BY LexerAssumption DEF End
<1> QED BY <1>1, <1>2 DEF At

LEMMA NotEnd ==
    /\ End \notin Digits /\ End \notin HexDigits /\ End \notin Letters /\ End \notin Alphanumeric
    /\ End \notin XidContinue /\ End \notin XidStart /\ End \notin Wide /\ End \notin Blanks
    /\ End \notin Quotes /\ End # NL /\ End # BackQuote /\ End # "_"
<1>1. End \notin Letters /\ End \notin Digits /\ End \notin HexDigits
    BY DEF End, Letters, HexLetters, Digits, HexDigits
<1>2. End \notin Wide
    BY LexerAssumption DEF End, Wide
<1> QED
    BY <1>1, <1>2 DEF End, Alphanumeric, XidContinue, XidStart, Wide, Blanks, Quotes, NL, BackQuote

\* A run ends in the source, at the first character outside its set.
LEMMA Run ==
    ASSUME Source, NEW S, End \notin S, NEW i \in 1 .. Len(src) + 1
    PROVE  /\ EndOfRun(i, S) \in i .. Len(src) + 1
           /\ At(EndOfRun(i, S)) \notin S
           /\ \A k \in i .. EndOfRun(i, S) - 1 : At(k) \in S
           /\ At(i) \in S => EndOfRun(i, S) > i
<1> DEFINE last == Len(src) + 1
           Out == {j \in i .. last : At(j) \notin S}
<1>1. /\ Len(src) \in Nat /\ last \in i .. last /\ last \in Out
      /\ i \in Int /\ last \in Int
    BY Reading
<1> HIDE DEF last, Out
<1>2. PICK j \in i .. last : j \in Out /\ \A k \in i .. j - 1 : k \notin Out
    BY <1>1, FirstSuch
<1> USE DEF last, Out
<1>3. At(j) \notin S /\ \A k \in i .. j - 1 : At(k) \in S
    BY <1>1, <1>2
<1>4. /\ EndOfRun(i, S) \in i .. last /\ At(EndOfRun(i, S)) \notin S
      /\ \A k \in i .. EndOfRun(i, S) - 1 : At(k) \in S
    BY <1>3 DEF EndOfRun
<1> QED BY <1>1, <1>4

LEMMA RunOfSuffix ==
    ASSUME Source, NEW i \in 1 .. Len(src) + 1
    PROVE  /\ EndOfSuffix(i) \in i .. Len(src) + 1
           /\ InSuffix(i) => EndOfSuffix(i) > i
<1> DEFINE last == Len(src) + 1
           Out == {j \in i .. last : ~InSuffix(j)}
<1>1. Len(src) \in Nat /\ last \in i .. last /\ i \in Int /\ last \in Int
    BY Reading
<1>2. last \in Out
    BY <1>1, Reading, NotEnd DEF InSuffix, End
<1> HIDE DEF last, Out
<1>3. PICK j \in i .. last : j \in Out /\ \A k \in i .. j - 1 : k \notin Out
    BY <1>1, <1>2, FirstSuch
<1> USE DEF last, Out
<1>4. ~InSuffix(j) /\ \A k \in i .. j - 1 : InSuffix(k)
    BY <1>1, <1>3
<1>5. /\ EndOfSuffix(i) \in i .. last /\ ~InSuffix(EndOfSuffix(i))
      /\ \A k \in i .. EndOfSuffix(i) - 1 : InSuffix(k)
    BY <1>4 DEF EndOfSuffix
<1> QED BY <1>1, <1>5

-----------------------------------------------------------------------------
(***************************************************************************)
(* Scans.  An error found from i on; a scan that was not taken back; and   *)
(* what every scanner hands to Emit: at least one character was read, none *)
(* after the end, and no line break is given back.                         *)
(***************************************************************************)
Kinds == {"NL", "END", "ILLEGAL", "KEYWORD", "IDENTIFIER", "INTEGER", "FLOAT", "BYTE", "RUNE", "STRING",
          "MULTILINE", "RAW", "SYMBOL", "COMMENT"}

Complaints ==
    {"not in an identifier", "expected identifier", "unterminated identifier",
     "illegal float suffix", "illegal integer suffix", "unknown suffix", "expected digit",
     "unexpected digit", "unexpected exponent", "expected {", "expected }", "illegal scalar",
     "unrecognized escape", "unterminated literal", "unterminated raw string", "unknown start of token"}

Found(i) == [what : Complaints, at : i .. Len(src) + 1]

Plain(s, i, j) ==
    /\ s \in [kind : Kinds, to : j .. Len(src) + 1, ate : j .. Len(src) + 1, errors : Seq(Found(i))]
    /\ s.ate = s.to

Sound(s, i) ==
    /\ s \in [kind : Kinds, to : i + 1 .. Len(src) + 1, ate : i + 1 .. Len(src) + 1, errors : Seq(Found(i))]
    /\ s.to <= s.ate
    /\ \A k \in s.to .. s.ate - 1 : src[k] # NL

LEMMA Errors ==
    ASSUME NEW i \in Int
    PROVE  /\ << >> \in Seq(Found(i))
           /\ \A a, b \in Seq(Found(i)) : a \o b \in Seq(Found(i))
           /\ \A what \in Complaints, k \in i .. Len(src) + 1, errs \in Seq(Found(i)) :
                 /\ <<Error(what, k)>> \in Seq(Found(i))
                 /\ Append(errs, Error(what, k)) \in Seq(Found(i))
<1>1. << >> \in Seq(Found(i)) /\ \A a, b \in Seq(Found(i)) : a \o b \in Seq(Found(i))
    BY EmptySeq
<1>2. ASSUME NEW what \in Complaints, NEW k \in i .. Len(src) + 1, NEW errs \in Seq(Found(i))
      PROVE  /\ <<Error(what, k)>> \in Seq(Found(i))
             /\ Append(errs, Error(what, k)) \in Seq(Found(i))
    <2>1. Error(what, k) \in Found(i)
        BY DEF Error, Found
    <2> QED BY <2>1
<1> QED BY <1>1, <1>2

LEMMA ScanIsPlain ==
    ASSUME NEW kind \in Kinds, NEW i \in Int, NEW j \in Int, NEW to \in j .. Len(src) + 1,
           NEW errs \in Seq(Found(i))
    PROVE  /\ Plain(Scan(kind, to, errs), i, j)
           /\ Scan(kind, to, errs).to = to /\ Scan(kind, to, errs).errors = errs
           /\ Scan(kind, to, errs).kind = kind
BY DEF Plain, Scan

LEMMA PlainIsSound ==
    ASSUME Source, NEW i \in Int, NEW s, Plain(s, i, i + 1)
    PROVE  Sound(s, i)
BY Reading DEF Plain, Sound

LEMMA ScanIsSound ==
    ASSUME Source, NEW i \in Int, NEW kind \in Kinds, NEW to \in i + 1 .. Len(src) + 1,
           NEW errs \in Seq(Found(i))
    PROVE  Sound(Scan(kind, to, errs), i)
<1>1. i + 1 \in Int
    OBVIOUS
<1>2. Plain(Scan(kind, to, errs), i, i + 1)
    BY <1>1, ScanIsPlain
<1> QED BY <1>2, PlainIsSound

LEMMA Names ==
    /\ "NL" \in Kinds /\ "END" \in Kinds /\ "ILLEGAL" \in Kinds /\ "KEYWORD" \in Kinds
    /\ "IDENTIFIER" \in Kinds /\ "INTEGER" \in Kinds /\ "FLOAT" \in Kinds /\ "BYTE" \in Kinds
    /\ "RUNE" \in Kinds /\ "STRING" \in Kinds /\ "MULTILINE" \in Kinds /\ "RAW" \in Kinds
    /\ "SYMBOL" \in Kinds /\ "COMMENT" \in Kinds
    /\ \A what \in {"not in an identifier", "expected identifier", "unterminated identifier",
                     "illegal float suffix", "illegal integer suffix", "unknown suffix", "expected digit",
                     "unexpected digit", "unexpected exponent", "expected {", "expected }",
                     "illegal scalar", "unrecognized escape", "unterminated literal",
                     "unterminated raw string", "unknown start of token"} : what \in Complaints
BY DEF Kinds, Complaints

LEMMA IdentifierScan ==
    ASSUME Source, NEW i \in 1 .. Len(src)
    PROVE  Sound(ScanIdentifier(i), i)
<1> DEFINE j == EndOfRun(i, XidContinue)
<1>1. Len(src) \in Nat /\ i \in Int /\ i \in 1 .. Len(src) + 1 /\ i + 1 \in i + 1 .. Len(src) + 1
      /\ << >> \in Seq(Found(i))
    BY Reading, Errors
<1>2. CASE At(i) \notin XidStart \cup {"_"}
    <2>1. Sound(Scan("ILLEGAL", i + 1, << >>), i)
        BY <1>1, Names, ScanIsSound
    <2> QED BY <1>2, <2>1 DEF ScanIdentifier
<1>3. CASE At(i) \in XidStart \cup {"_"}
    <2>1. At(i) \in XidContinue
        BY <1>3 DEF XidContinue
    <2> HIDE DEF j
    <2>2. j \in i + 1 .. Len(src) + 1
        <3>1. j \in i .. Len(src) + 1 /\ j > i
            BY <1>1, <2>1, Run, NotEnd DEF j
        <3> QED BY <1>1, <3>1
    <2>3. ScanIdentifier(i) = Scan(IF SubSeq(src, i, j - 1) \in Words THEN "KEYWORD" ELSE "IDENTIFIER",
                                   j, << >>)
        BY <1>3 DEF ScanIdentifier, j
    <2>4. Sound(Scan("KEYWORD", j, << >>), i) /\ Sound(Scan("IDENTIFIER", j, << >>), i)
        BY <1>1, <2>2, Names, ScanIsSound
    <2> QED BY <2>3, <2>4
<1> QED BY <1>2, <1>3

LEMMA BackquotedScan ==
    ASSUME Source, NEW i \in 1 .. Len(src)
    PROVE  Sound(ScanBackquoted(i), i)
<1> DEFINE j == EndOfRun(i + 1, XidContinue)
           odd == IF At(j) \in {BackQuote, End} THEN << >> ELSE <<Error("not in an identifier", j)>>
           unended == odd \o <<Error("unterminated identifier", j)>>
<1>1. Len(src) \in Nat /\ i \in Int /\ i + 1 \in Int /\ i + 1 \in 1 .. Len(src) + 1
      /\ i + 1 \in i + 1 .. Len(src) + 1 /\ i + 1 \in i .. Len(src) + 1 /\ << >> \in Seq(Found(i))
    BY Reading, Errors
<1>2. CASE At(i + 1) \notin XidStart \cup {"_"}
    <2>1. <<Error("expected identifier", i + 1)>> \in Seq(Found(i))
        BY <1>1, Names, Errors
    <2>2. Sound(Scan("ILLEGAL", i + 1, <<Error("expected identifier", i + 1)>>), i)
        BY <1>1, <2>1, Names, ScanIsSound
    <2> QED BY <1>2, <2>2 DEF ScanBackquoted
<1>3. CASE At(i + 1) \in XidStart \cup {"_"}
    <2>1. At(i + 1) \in XidContinue
        BY <1>3 DEF XidContinue
    <2>2. j \in i + 1 .. Len(src) + 1 /\ j > i + 1
        BY <1>1, <2>1, Run, NotEnd
    <2>3. ScanBackquoted(i) = IF At(j) = BackQuote THEN Scan("IDENTIFIER", j + 1, << >>)
                              ELSE Scan("IDENTIFIER", j, unended)
        BY <1>3 DEF ScanBackquoted
    <2> HIDE DEF j
    <2>4. CASE At(j) = BackQuote
        <3>0. At(j) # End
            BY <2>4, NotEnd
        <3>1. j + 1 \in i + 1 .. Len(src) + 1
            BY <1>1, <2>2, <3>0, Reading
        <3>2. Sound(Scan("IDENTIFIER", j + 1, << >>), i)
            BY <1>1, <3>1, Names, ScanIsSound
        <3> QED BY <2>3, <2>4, <3>2
    <2>5. CASE At(j) # BackQuote
        <3>1. j \in i .. Len(src) + 1 /\ j \in i + 1 .. Len(src) + 1
            BY <1>1, <2>2
        <3>2. odd \in Seq(Found(i)) /\ <<Error("unterminated identifier", j)>> \in Seq(Found(i))
            BY <1>1, <3>1, Names, Errors
        <3> HIDE DEF odd
        <3>3. unended \in Seq(Found(i))
            BY <1>1, <3>2, Errors
        <3>4. Sound(Scan("IDENTIFIER", j, unended), i)
            BY <1>1, <3>1, <3>3, Names, ScanIsSound
        <3> QED BY <2>3, <2>5, <3>4
    <2> QED BY <2>4, <2>5
<1> QED BY <1>2, <1>3

-----------------------------------------------------------------------------
(***************************************************************************)
(* Numbers: each part hands on a scan that reaches at least as far.        *)
(***************************************************************************)
LEMMA SignedRun ==
    ASSUME Source, NEW i \in 1 .. Len(src) + 1
    PROVE  SignedDigits(i) \in i .. Len(src) + 1
<1> DEFINE S == Digits \cup {"_"}
<1> HIDE DEF S
<1>1. Len(src) \in Nat /\ i \in Int /\ End \notin S
    <2>1. End \notin S
        BY NotEnd, Zenon DEF S
    <2> QED BY <2>1, Reading
<1>2. CASE At(i) \in {"+", "-"}
    <2>1. At(i) # End
        BY <1>2 DEF End
    <2>2. i + 1 \in 1 .. Len(src) + 1
        BY <1>1, <2>1, Reading
    <2>3. EndOfRun(i + 1, S) \in i + 1 .. Len(src) + 1
        BY <1>1, <2>2, Run
    <2>4. SignedDigits(i) = EndOfRun(i + 1, S)
        BY <1>2 DEF SignedDigits, S
    <2> QED BY <1>1, <2>3, <2>4
<1>3. CASE At(i) \notin {"+", "-"}
    <2>1. EndOfRun(i, S) \in i .. Len(src) + 1
        BY <1>1, Run
    <2> QED BY <1>3, <2>1 DEF SignedDigits, S
<1> QED BY <1>2, <1>3

LEMMA PlainHas ==
    ASSUME Source, NEW i \in Int, NEW j \in Int, i <= j, NEW s, Plain(s, i, j)
    PROVE  /\ Len(src) \in Nat
           /\ s.to \in Int /\ s.to \in j .. Len(src) + 1 /\ s.to \in i .. Len(src) + 1
           /\ s.kind \in Kinds /\ s.errors \in Seq(Found(i))
BY Reading DEF Plain

\* What a scan becomes when it is taken further.
LEMMA PlainGoesOn ==
    ASSUME Source, NEW i \in Int, NEW j \in Int, i <= j, NEW s, Plain(s, i, j),
           NEW kind \in Kinds, NEW to \in s.to .. Len(src) + 1, NEW errs \in Seq(Found(i))
    PROVE  Plain(Scan(kind, to, errs), i, j)
<1>1. to \in j .. Len(src) + 1
    BY PlainHas
<1> QED BY <1>1, ScanIsPlain

LEMMA FloatSuffixScan ==
    ASSUME Source, NEW i \in 1 .. Len(src) + 1, NEW j \in i .. Len(src) + 1, NEW s, Plain(s, i, j)
    PROVE  Plain(FloatSuffix(s, s.to), i, j)
<1> DEFINE k == s.to
           to == EndOfRun(k, Alphanumeric)
           illegal == Append(s.errors, Error("illegal float suffix", k))
<1>1. /\ Len(src) \in Nat /\ i \in Int /\ j \in Int /\ i <= j
    BY Reading
<1>2. /\ k \in Int /\ k \in i .. Len(src) + 1 /\ k \in 1 .. Len(src) + 1 /\ s.errors \in Seq(Found(i))
    BY <1>1, PlainHas
<1>3. to \in k .. Len(src) + 1
    BY <1>2, Run, NotEnd
<1>4. illegal \in Seq(Found(i))
    BY <1>1, <1>2, Names, Errors
<1>5. FloatSuffix(s, k) \in {Scan("FLOAT", to, s.errors), Scan("ILLEGAL", to, illegal)}
    BY DEF FloatSuffix
<1> HIDE DEF to, illegal
<1>6. Plain(Scan("FLOAT", to, s.errors), i, j) /\ Plain(Scan("ILLEGAL", to, illegal), i, j)
    BY <1>1, <1>2, <1>3, <1>4, Names, PlainGoesOn
<1> QED BY <1>5, <1>6

LEMMA NumberSuffixScan ==
    ASSUME Source, NEW i \in 1 .. Len(src) + 1, NEW j \in i .. Len(src) + 1, NEW s, Plain(s, i, j)
    PROVE  Plain(NumberSuffix(s), i, j)
<1> DEFINE k == s.to
           to == EndOfSuffix(k)
           illegal == Append(s.errors, Error("illegal integer suffix", k))
           unknown == IF s.errors = << >> THEN <<Error("unknown suffix", k)>> ELSE s.errors
<1>1. /\ Len(src) \in Nat /\ i \in Int /\ j \in Int /\ i <= j
    BY Reading
<1>2. /\ k \in Int /\ k \in i .. Len(src) + 1 /\ k \in 1 .. Len(src) + 1
      /\ s.errors \in Seq(Found(i)) /\ s.kind \in Kinds
    BY <1>1, PlainHas
<1>3. to \in k .. Len(src) + 1
    BY <1>2, RunOfSuffix
<1>4. illegal \in Seq(Found(i)) /\ unknown \in Seq(Found(i))
    <2>1. illegal \in Seq(Found(i)) /\ <<Error("unknown suffix", k)>> \in Seq(Found(i))
        BY <1>1, <1>2, Names, Errors
    <2> QED BY <1>2, <2>1
<1>5. NumberSuffix(s) \in {FloatSuffix(s, k), Scan(s.kind, to, s.errors), Scan("ILLEGAL", to, illegal),
                          s, Scan(s.kind, to, unknown)}
    BY DEF NumberSuffix
<1> HIDE DEF to, illegal, unknown
<1>6. /\ Plain(Scan(s.kind, to, s.errors), i, j) /\ Plain(Scan("ILLEGAL", to, illegal), i, j)
      /\ Plain(Scan(s.kind, to, unknown), i, j)
    BY <1>1, <1>2, <1>3, <1>4, Names, PlainGoesOn
<1>7. Plain(FloatSuffix(s, k), i, j)
    BY FloatSuffixScan
<1> QED BY <1>5, <1>6, <1>7

LEMMA ExponentScan ==
    ASSUME Source, NEW i \in 1 .. Len(src) + 1, NEW j \in i .. Len(src) + 1, NEW s, Plain(s, i, j)
    PROVE  Plain(Exponent(s), i, j)
<1> DEFINE k == s.to
           hex == At(k) \in {"p", "P"}
           errs == IF hex /\ s.errors = << >> THEN <<Error("unexpected exponent", k)>> ELSE s.errors
<1>1. /\ Len(src) \in Nat /\ i \in Int /\ j \in Int /\ i <= j
    BY Reading
<1>2. /\ k \in Int /\ k \in i .. Len(src) + 1 /\ k \in 1 .. Len(src) + 1
      /\ s.errors \in Seq(Found(i)) /\ s.kind \in Kinds
    BY <1>1, PlainHas
<1>3. errs \in Seq(Found(i))
    <2>1. <<Error("unexpected exponent", k)>> \in Seq(Found(i))
        BY <1>1, <1>2, Names, Errors
    <2> QED BY <1>2, <2>1
<1>4. \/ Exponent(s) = s
      \/ At(k) \in {"e", "E", "p", "P"} /\ Exponent(s) = Scan("FLOAT", SignedDigits(k + 1), errs)
    BY DEF Exponent
<1> HIDE DEF errs
<1>5. ASSUME At(k) \in {"e", "E", "p", "P"}
      PROVE  Plain(Scan("FLOAT", SignedDigits(k + 1), errs), i, j)
    <2>1. At(k) # End
        BY <1>5 DEF End
    <2>2. k + 1 \in 1 .. Len(src) + 1
        BY <1>1, <1>2, <2>1, Reading
    <2>3. SignedDigits(k + 1) \in k + 1 .. Len(src) + 1
        BY <2>2, SignedRun
    <2>4. SignedDigits(k + 1) \in k .. Len(src) + 1
        BY <1>1, <1>2, <2>3
    <2> QED BY <1>1, <1>2, <1>3, <2>4, Names, PlainGoesOn
<1> QED BY <1>4, <1>5

LEMMA WholeScan ==
    ASSUME Source, NEW i \in 1 .. Len(src) + 1
    PROVE  /\ Plain(Whole(i), i, i)
           /\ At(i) \in Digits => Plain(Whole(i), i, i + 1)
<1> DEFINE S == Digits \cup {"_"}
           T == Digits \cup {"_"} \cup (HexLetters \ {"e", "E", "f", "F"})
           to == EndOfRun(i, T)
           stray == EndOfRun(i, S)
           errs == IF stray = to THEN << >> ELSE <<Error("unexpected digit", stray)>>
<1> HIDE DEF S, T
<1>1. Len(src) \in Nat /\ i \in Int /\ i + 1 \in Int /\ End \notin S /\ End \notin T
    <2>1. End \notin S /\ End \notin T
        BY NotEnd, Zenon DEF HexDigits, S, T
    <2> QED BY <2>1, Reading
<1>2. /\ to \in i .. Len(src) + 1 /\ stray \in i .. Len(src) + 1
      /\ At(i) \in T => to > i
    BY <1>1, Run
<1>3. errs \in Seq(Found(i))
    BY <1>1, <1>2, Names, Errors
<1>4. Whole(i) = Scan("INTEGER", to, errs)
    BY DEF Whole, S, T
<1>5. At(i) \in Digits => to \in i + 1 .. Len(src) + 1
    <2>1. At(i) \in Digits => At(i) \in T
        BY DEF T
    <2> QED BY <1>1, <1>2, <2>1
<1> HIDE DEF to, errs
<1>6. Plain(Scan("INTEGER", to, errs), i, i)
    BY <1>1, <1>2, <1>3, Names, ScanIsPlain
<1>7. At(i) \in Digits => Plain(Scan("INTEGER", to, errs), i, i + 1)
    BY <1>1, <1>3, <1>5, Names, ScanIsPlain
<1> QED BY <1>4, <1>6, <1>7

LEMMA HexFractionScan ==
    ASSUME Source, NEW i \in 1 .. Len(src), NEW dot \in i + 1 .. Len(src), At(dot) = "."
    PROVE  Sound(HexFraction(dot), i)
<1> DEFINE S == HexDigits \cup {"_"}
           f == EndOfRun(dot + 1, S)
<1> HIDE DEF S
<1>1. /\ Len(src) \in Nat /\ i \in Int /\ dot \in Int /\ dot + 1 \in 1 .. Len(src) + 1
      /\ dot \in i + 1 .. Len(src) + 1 /\ << >> \in Seq(Found(i))
    BY Reading, Errors
<1>2. End \notin S /\ NL \notin S
    BY NotEnd DEF NL, S, HexDigits, Digits, HexLetters
<1>3. f \in dot + 1 .. Len(src) + 1 /\ \A k \in dot + 1 .. f - 1 : At(k) \in S
    BY <1>1, <1>2, Run
<1>4. HexFraction(dot) = IF At(f) \in {"p", "P"} THEN Scan("FLOAT", SignedDigits(f + 1), << >>)
                         ELSE [Scan("INTEGER", dot, << >>) EXCEPT !.ate = f]
    BY DEF HexFraction, S
<1> HIDE DEF f
<1>5. CASE At(f) \in {"p", "P"}
    <2>1. At(f) # End
        BY <1>5 DEF End
    <2>2. f + 1 \in 1 .. Len(src) + 1 /\ f + 1 > i
        BY <1>1, <1>3, <2>1, Reading
    <2>3. SignedDigits(f + 1) \in f + 1 .. Len(src) + 1
        BY <2>2, SignedRun
    <2>4. SignedDigits(f + 1) \in i + 1 .. Len(src) + 1
        BY <1>1, <1>3, <2>2, <2>3
    <2>5. Sound(Scan("FLOAT", SignedDigits(f + 1), << >>), i)
        BY <1>1, <2>4, Names, ScanIsSound
    <2> QED BY <1>4, <1>5, <2>5
<1>6. CASE At(f) \notin {"p", "P"}
    <2>1. \A k \in dot .. f - 1 : src[k] # NL
        <3> TAKE k \in dot .. f - 1
        <3>1. k \in Int /\ k \in 1 .. Len(src) /\ (k = dot \/ k \in dot + 1 .. f - 1)
            BY <1>1, <1>3
        <3>2. src[k] = At(k)
            BY <3>1, Reading
        <3>3. At(k) # NL
            BY <1>2, <1>3, <3>1 DEF NL
        <3> QED BY <3>2, <3>3
    <2>2. HexFraction(dot) = [kind |-> "INTEGER", to |-> dot, ate |-> f, errors |-> << >>]
        BY <1>4, <1>6 DEF Scan
    <2>3. f \in i + 1 .. Len(src) + 1 /\ dot <= f
        BY <1>1, <1>3
    <2>4. dot \in i + 1 .. Len(src) + 1 /\ "INTEGER" \in Kinds
        BY <1>1, Names
    <2> DEFINE s == [kind |-> "INTEGER", to |-> dot, ate |-> f, errors |-> << >>]
    <2>5. s \in [kind : Kinds, to : i + 1 .. Len(src) + 1, ate : i + 1 .. Len(src) + 1, errors : Seq(Found(i))]
        BY <1>1, <2>3, <2>4
    <2>6. Sound(s, i)
        BY <2>1, <2>3, <2>5 DEF Sound
    <2> QED BY <2>2, <2>6
<1> QED BY <1>5, <1>6

LEMMA RadixScan ==
    ASSUME Source, NEW i \in 1 .. Len(src), HasRadix(i)
    PROVE  Sound(RadixNumber(i), i)
<1> DEFINE S == RadixDigits(At(i + 1)) \cup {"_"}
           j == EndOfRun(i + 2, S)
<1> HIDE DEF S
<1>1. Len(src) \in Nat /\ i \in Int /\ i + 1 \in Int /\ << >> \in Seq(Found(i))
    BY Reading, Errors
<1>2. i + 1 <= Len(src)
    <2>1. At(i + 1) # End
        BY DEF HasRadix, End
    <2> QED BY <1>1, <2>1, Reading
<1>3. End \notin S
    BY DEF HasRadix, S, RadixDigits, End, HexDigits, Digits, HexLetters
<1>4. i + 2 \in 1 .. Len(src) + 1
    BY <1>1, <1>2
<1>5. j \in i + 2 .. Len(src) + 1
    BY <1>3, <1>4, Run
<1>6. j \in i + 1 .. Len(src) + 1 /\ j \in i .. Len(src) + 1 /\ j \in Int
    BY <1>1, <1>5
<1>7. \/ RadixNumber(i) = Scan("ILLEGAL", j, <<Error("expected digit", i)>>)
      \/ RadixNumber(i) = NumberSuffix(Scan("INTEGER", j, << >>))
      \/ At(j) = "." /\ RadixNumber(i) = HexFraction(j)
    <2> DEFINE fraction == At(i + 1) \in {"x", "X"} /\ j > i + 2 /\ At(j) = "." /\ At(j + 1) \in HexDigits
    <2>1. RadixNumber(i) = CASE j = i + 2 -> Scan("ILLEGAL", j, <<Error("expected digit", i)>>)
                             [] fraction -> HexFraction(j)
                             [] OTHER -> NumberSuffix(Scan("INTEGER", j, << >>))
        BY DEF RadixNumber, S
    <2> HIDE DEF j
    <2>2. j # i + 2 \/ ~fraction
        BY <1>1, <1>6
    <2>3. fraction => At(j) = "."
        OBVIOUS
    <2> HIDE DEF fraction
    <2> QED BY <2>1, <2>2, <2>3
<1> HIDE DEF j
<1>8. Sound(Scan("ILLEGAL", j, <<Error("expected digit", i)>>), i)
    <2>1. i \in i .. Len(src) + 1
        BY <1>1
    <2>2. <<Error("expected digit", i)>> \in Seq(Found(i))
        BY <1>1, <2>1, Names, Errors
    <2> QED BY <1>1, <1>6, <2>2, Names, ScanIsSound
<1>9. Sound(NumberSuffix(Scan("INTEGER", j, << >>)), i)
    <2>1. Plain(Scan("INTEGER", j, << >>), i, i + 1)
        BY <1>1, <1>6, Names, ScanIsPlain
    <2>2. i \in 1 .. Len(src) + 1 /\ i + 1 \in i .. Len(src) + 1
        BY <1>1
    <2>3. Plain(NumberSuffix(Scan("INTEGER", j, << >>)), i, i + 1)
        BY <2>1, <2>2, NumberSuffixScan
    <2> QED BY <1>1, <2>3, PlainIsSound
<1>10. At(j) = "." => Sound(HexFraction(j), i)
    <2>1. ASSUME At(j) = "."
          PROVE  j \in i + 1 .. Len(src)
        <3>1. At(j) # End
            BY <2>1 DEF End
        <3> QED BY <1>1, <1>6, <3>1, Reading
    <2> QED BY <2>1, HexFractionScan
<1> QED BY <1>7, <1>8, <1>9, <1>10

LEMMA DecimalScan ==
    ASSUME Source, NEW i \in 1 .. Len(src),
           At(i) \in Digits \/ (At(i) = "." /\ At(i + 1) \in Digits)
    PROVE  Sound(DecimalNumber(i), i)
<1> DEFINE S == Digits \cup {"_"}
           w == Whole(i)
           f == Scan("FLOAT", EndOfRun(w.to + 1, S), w.errors)
           fraction == At(w.to) = "." /\ At(w.to + 1) \in Digits
<1> HIDE DEF S
<1>1. /\ Len(src) \in Nat /\ i \in Int /\ i + 1 \in Int /\ i \in 1 .. Len(src) + 1
      /\ i \in i .. Len(src) + 1 /\ i + 1 \in i .. Len(src) + 1 /\ i <= i
    BY Reading
<1>2. Plain(w, i, i) /\ (At(i) \in Digits => Plain(w, i, i + 1))
    BY <1>1, WholeScan
<1>3. w.to \in Int /\ w.to \in i .. Len(src) + 1 /\ w.errors \in Seq(Found(i)) /\ w.kind \in Kinds
    BY <1>1, <1>2, PlainHas
<1>4. DecimalNumber(i) = IF fraction THEN NumberSuffix(Exponent(f))
                         ELSE IF At(w.to) = "." THEN w
                         ELSE NumberSuffix(Exponent(w))
    BY DEF DecimalNumber, S
<1> HIDE DEF w
<1>5. CASE fraction
    <2>1. At(w.to) # End
        BY <1>5 DEF End
    <2>2. w.to + 1 \in 1 .. Len(src) + 1 /\ w.to + 1 >= i + 1
        BY <1>1, <1>3, <2>1, Reading
    <2>3. End \notin S
        BY NotEnd, Zenon DEF S
    <2>4. EndOfRun(w.to + 1, S) \in w.to + 1 .. Len(src) + 1
        BY <2>2, <2>3, Run
    <2>5. EndOfRun(w.to + 1, S) \in i + 1 .. Len(src) + 1
        BY <1>1, <1>3, <2>2, <2>4
    <2>6. Plain(f, i, i + 1)
        <3> DEFINE to == EndOfRun(w.to + 1, S)
        <3>1. to \in i + 1 .. Len(src) + 1
            BY <2>5
        <3> HIDE DEF to
        <3>2. Plain(Scan("FLOAT", to, w.errors), i, i + 1)
            BY <1>1, <1>3, <3>1, Names, ScanIsPlain
        <3> QED BY <3>2 DEF to
    <2> HIDE DEF f
    <2>7. Plain(Exponent(f), i, i + 1)
        BY <1>1, <2>6, ExponentScan
    <2>8. Plain(NumberSuffix(Exponent(f)), i, i + 1)
        BY <1>1, <2>7, NumberSuffixScan
    <2> QED BY <1>1, <1>4, <1>5, <2>8, PlainIsSound
<1>6. CASE ~fraction
    <2>1. Plain(w, i, i + 1)
        <3>1. CASE At(i) \in Digits
            BY <1>2, <3>1
        <3>2. CASE At(i) = "." /\ At(i + 1) \in Digits
            <4>1. w.to # i
                BY <1>6, <3>2
            <4>2. w.to \in i + 1 .. Len(src) + 1
                BY <1>1, <1>3, <4>1
            <4> QED BY <1>2, <4>2 DEF Plain
        <3> QED BY <3>1, <3>2
    <2>2. Plain(Exponent(w), i, i + 1)
        BY <1>1, <2>1, ExponentScan
    <2>3. Plain(NumberSuffix(Exponent(w)), i, i + 1)
        BY <1>1, <2>2, NumberSuffixScan
    <2>4. Sound(w, i) /\ Sound(NumberSuffix(Exponent(w)), i)
        BY <1>1, <2>1, <2>3, PlainIsSound
    <2> QED BY <1>4, <1>6, <2>4
<1> QED BY <1>5, <1>6

LEMMA NumberScan ==
    ASSUME Source, NEW i \in 1 .. Len(src),
           At(i) \in Digits \/ (At(i) = "." /\ At(i + 1) \in Digits)
    PROVE  Sound(ScanNumber(i), i)
BY RadixScan, DecimalScan DEF ScanNumber

-----------------------------------------------------------------------------
(***************************************************************************)
(* Literals.  An escape stays in the source; the recursion that looks for  *)
(* the closing quote is well defined, and it ends in the source.           *)
(***************************************************************************)
LEMMA UnicodeEscapeStays ==
    ASSUME Source, NEW i \in 1 .. Len(src), At(i + 1) = "u", NEW b \in 1 .. i
    PROVE  /\ UnicodeEscape(i).to \in i + 1 .. Len(src) + 1
           /\ UnicodeEscape(i).errors \in Seq(Found(b))
<1> DEFINE open == i + 2
           run == EndOfRun(open + 1, HexDigits)
           j == IF run > open + 9 THEN open + 9 ELSE run
           escape(to, what) == [to |-> to, errors |-> IF what = "" THEN << >> ELSE <<Error(what, i)>>]
           Whats == {"", "expected {", "expected digit", "expected }", "illegal scalar"}
<1>1. /\ Len(src) \in Nat /\ i \in Int /\ b \in Int /\ i \in b .. Len(src) + 1
      /\ << >> \in Seq(Found(b))
    BY Reading, Errors
<1>2. open \in 1 .. Len(src) + 1 /\ open \in i + 1 .. Len(src) + 1
    <2>1. At(i + 1) # End
        BY DEF End
    <2> QED BY <1>1, <2>1, Reading
<1>3. ASSUME NEW to \in i + 1 .. Len(src) + 1, NEW what \in Whats
      PROVE  escape(to, what).to \in i + 1 .. Len(src) + 1 /\ escape(to, what).errors \in Seq(Found(b))
    <2>1. what = "" \/ what \in Complaints
        BY Names
    <2>2. what \in Complaints => <<Error(what, i)>> \in Seq(Found(b))
        BY <1>1, Errors
    <2> QED BY <1>1, <2>1, <2>2
<1>4. CASE At(open) # "{"
    <2> DEFINE what == IF At(open) = End THEN "" ELSE "expected {"
    <2>1. what \in Whats
        OBVIOUS
    <2>2. UnicodeEscape(i) = escape(open, what)
        BY <1>4 DEF UnicodeEscape
    <2> HIDE DEF escape, what, open, Whats
    <2> QED BY <1>2, <1>3, <2>1, <2>2
<1>5. CASE At(open) = "{"
    <2>1. open + 1 \in 1 .. Len(src) + 1 /\ open + 1 \in Int
        <3>1. At(open) # End
            BY <1>5 DEF End
        <3> QED BY <1>1, <1>2, <3>1, Reading
    <2> HIDE DEF open
    <2>2. run \in open + 1 .. Len(src) + 1
        BY <2>1, Run, NotEnd
    <2>3. j \in open + 1 .. Len(src) + 1
        BY <1>1, <1>2, <2>1, <2>2
    <2>4. j \in i + 1 .. Len(src) + 1 /\ j \in Int
        BY <1>1, <1>2, <2>3
    <2> DEFINE unclosed == IF At(j) = End THEN "" ELSE "expected }"
               illegal == IF IsScalar(HexValue(open + 1, j)) THEN "" ELSE "illegal scalar"
    <2>5. unclosed \in Whats /\ illegal \in Whats /\ "expected digit" \in Whats
        OBVIOUS
    <2>6. UnicodeEscape(i) = IF j = open + 1 THEN escape(j, "expected digit")
                             ELSE IF At(j) # "}" THEN escape(j, unclosed)
                             ELSE escape(j + 1, illegal)
        BY <1>5 DEF UnicodeEscape, open
    <2> HIDE DEF escape, unclosed, illegal, j, Whats
    <2>7. ASSUME At(j) = "}"
          PROVE  j + 1 \in i + 1 .. Len(src) + 1
        <3>1. At(j) # End
            BY <2>7 DEF End
        <3>2. j \in 1 .. Len(src)
            BY <2>4, <3>1, Reading
        <3> QED BY <1>1, <2>4, <3>2
    <2> QED BY <1>3, <2>4, <2>5, <2>6, <2>7
<1> QED BY <1>4, <1>5

LEMMA EscapeStays ==
    ASSUME Source, NEW i \in 1 .. Len(src), NEW isByte, NEW b \in 1 .. i
    PROVE  /\ Escape(i, isByte).to \in i + 1 .. Len(src) + 1
           /\ Escape(i, isByte).errors \in Seq(Found(b))
<1> DEFINE c == At(i + 1)
           odd == <<Error("unrecognized escape", i + 1)>>
<1>1. /\ Len(src) \in Nat /\ i \in Int /\ b \in Int /\ i + 1 \in b .. Len(src) + 1
      /\ i + 1 \in i + 1 .. Len(src) + 1 /\ << >> \in Seq(Found(b))
    BY Reading, Errors
<1>2. odd \in Seq(Found(b))
    BY <1>1, Names, Errors
<1>3. c # End => i + 2 \in i + 1 .. Len(src) + 1
    BY <1>1, Reading
<1>4. \/ Escape(i, isByte) = [to |-> i + 1, errors |-> << >>]
      \/ c # End /\ Escape(i, isByte) = [to |-> i + 2, errors |-> << >>]
      \/ c = "u" /\ Escape(i, isByte) = UnicodeEscape(i)
      \/ c # End /\ Escape(i, isByte) = [to |-> i + 2, errors |-> odd]
    BY DEF Escape, End
<1> HIDE DEF odd
<1>5. ASSUME c = "u"
      PROVE  /\ UnicodeEscape(i).to \in i + 1 .. Len(src) + 1
             /\ UnicodeEscape(i).errors \in Seq(Found(b))
    BY <1>5, UnicodeEscapeStays
<1>6. CASE Escape(i, isByte) = [to |-> i + 1, errors |-> << >>]
    BY <1>1, <1>6
<1>7. CASE c # End /\ Escape(i, isByte) = [to |-> i + 2, errors |-> << >>]
    BY <1>1, <1>3, <1>7
<1>8. CASE c # End /\ Escape(i, isByte) = [to |-> i + 2, errors |-> odd]
    BY <1>2, <1>3, <1>8
<1> QED BY <1>4, <1>5, <1>6, <1>7, <1>8

\* What an index of a literal makes of the rest of it.
LiteralStep(rest, i, quote, several, isByte) ==
    IF At(i) = End \/ (~several /\ At(i) = NL)
    THEN [to |-> i, closed |-> FALSE, errors |-> << >>]
    ELSE IF At(i) = quote /\ (several => Tripled(i, quote))
    THEN [to |-> i + (IF several THEN 3 ELSE 1), closed |-> TRUE, errors |-> << >>]
    ELSE IF At(i) = "\\"
    THEN LET e == Escape(i, isByte)
         IN  [rest[e.to] EXCEPT !.errors = e.errors \o @]
    ELSE rest[i + 1]

LEMMA LiteralEquation ==
    ASSUME Source, NEW quote, NEW several, NEW isByte, NEW i \in 1 .. Len(src) + 1
    PROVE  LiteralFrom(quote, several, isByte)[i] =
               LiteralStep(LiteralFrom(quote, several, isByte), i, quote, several, isByte)
<1> DEFINE last == Len(src) + 1
           Body(g, j) == LiteralStep(g, j, quote, several, isByte)
           rest == LiteralFrom(quote, several, isByte)
           Solved(k) == \E g : g = [j \in last - k .. last |-> Body(g, j)]
<1>1. Len(src) \in Nat /\ last \in Nat
    BY Reading
<1>2. ASSUME NEW g, NEW h, NEW j \in 1 .. last, \A e \in j + 1 .. last : g[e] = h[e]
      PROVE  Body(g, j) = Body(h, j)
    <2>1. CASE At(j) = End
        BY <2>1 DEF LiteralStep
    <2>2. CASE At(j) # End
        <3>1. j \in 1 .. Len(src) /\ j + 1 \in j + 1 .. last /\ j \in 1 .. j
            BY <1>1, <2>2, Reading
        <3>2. Escape(j, isByte).to \in j + 1 .. last
            BY <3>1, EscapeStays
        <3>3. g[Escape(j, isByte).to] = h[Escape(j, isByte).to] /\ g[j + 1] = h[j + 1]
            BY <1>2, <3>1, <3>2
        <3> QED BY <3>3 DEF LiteralStep
    <2> QED BY <2>1, <2>2
<1> HIDE DEF Body
<1>3. Solved(0)
    <2> DEFINE g == [j \in last - 0 .. last |-> Body(0, j)]
    <2>1. ASSUME NEW j \in last - 0 .. last
          PROVE  Body(0, j) = Body(g, j)
        <3>1. j = last /\ j \in 1 .. last /\ j + 1 .. last = {}
            BY <1>1
        <3> HIDE DEF g, last
        <3> QED BY <1>2, <3>1
    <2>2. g = [j \in last - 0 .. last |-> Body(g, j)]
        BY <2>1
    <2> QED BY <2>2
<1>4. ASSUME NEW k \in 0 .. last - 2, Solved(k)
      PROVE  Solved(k + 1)
    <2>1. PICK g : g = [j \in last - k .. last |-> Body(g, j)]
        BY <1>4
    <2> DEFINE d == last - (k + 1)
               h == [j \in d .. last |-> IF j = d THEN Body(g, d) ELSE g[j]]
    <2>2. d \in 1 .. last /\ d + 1 = last - k /\ k + 1 \in Int
        BY <1>1
    <2>3. ASSUME NEW j \in d .. last
          PROVE  h[j] = Body(h, j)
        <3>1. j \in 1 .. last /\ \A e \in j + 1 .. last : e \in d .. last /\ e # d
            BY <1>1, <2>2
        <3> HIDE DEF d
        <3>2. \A e \in j + 1 .. last : h[e] = g[e]
            BY <3>1
        <3>3. Body(h, j) = Body(g, j)
            <4> HIDE DEF h, last
            <4> QED BY <1>2, <3>1, <3>2
        <3>4. CASE j = d
            BY <3>3, <3>4
        <3>5. CASE j # d
            <4>1. j \in last - k .. last
                BY <1>1, <2>2, <3>5
            <4>2. g[j] = Body(g, j)
                BY <2>1, <4>1
            <4> QED BY <3>3, <3>5, <4>2
        <3> QED BY <3>4, <3>5
    <2>4. h = [j \in d .. last |-> Body(h, j)]
        BY <2>3
    <2> QED BY <2>4
<1>5. Solved(last - 1)
    <2> HIDE DEF Solved
    <2> DEFINE T == {k \in 0 .. last - 1 : ~Solved(k)}
    <2>1. SUFFICES ASSUME T # {} PROVE FALSE
        BY <1>1
    <2>2. T \in SUBSET Nat
        OBVIOUS
    <2>3. PICK a \in T : \A b \in T : a <= b
        BY <2>1, <2>2, LeastOf
    <2>4. a # 0
        BY <1>3
    <2>5. a - 1 \in 0 .. last - 2 /\ (a - 1) + 1 = a /\ a - 1 \notin T
        BY <1>1, <2>3, <2>4
    <2>6. Solved(a - 1)
        BY <1>1, <2>5
    <2>7. Solved(a)
        BY <1>4, <2>5, <2>6
    <2> QED BY <2>7
<1>6. \E g : g = [j \in 1 .. last |-> Body(g, j)]
    <2>1. last - (last - 1) = 1
        BY <1>1
    <2> QED BY <1>5, <2>1
<1>7. rest = CHOOSE g : g = [j \in 1 .. last |-> Body(g, j)]
    BY DEF LiteralFrom, Body, LiteralStep
<1>8. rest = [j \in 1 .. last |-> Body(rest, j)]
    <2> HIDE DEF rest
    <2> QED BY <1>6, <1>7
<1>9. \A j \in 1 .. last : rest[j] = Body(rest, j)
    <2> HIDE DEF rest
    <2> QED BY <1>8
<1> QED BY <1>9 DEF Body

LEMMA TripledStays ==
    ASSUME Source, NEW i \in 1 .. Len(src) + 1, NEW quote, quote # End, Tripled(i, quote)
    PROVE  i + 3 \in i + 1 .. Len(src) + 1
<1>1. Len(src) \in Nat /\ i \in Int /\ i + 2 \in Int
    BY Reading
<1>2. At(i + 2) # End
    BY DEF Tripled
<1>3. i + 2 \in 1 .. Len(src)
    BY <1>1, <1>2, Reading
<1> QED BY <1>1, <1>3

LEMMA LiteralReaches ==
    ASSUME Source, NEW quote, quote # End, NEW several, NEW isByte, NEW b \in 1 .. Len(src) + 1,
           NEW i \in b .. Len(src) + 1
    PROVE  LiteralFrom(quote, several, isByte)[i]
               \in [to : i .. Len(src) + 1, closed : BOOLEAN, errors : Seq(Found(b))]
<1> DEFINE last == Len(src) + 1
           rest == LiteralFrom(quote, several, isByte)
           Ends(k) == [to : k .. last, closed : BOOLEAN, errors : Seq(Found(b))]
           T == {k \in 0 .. last - b : rest[last - k] \notin Ends(last - k)}
<1>1. Len(src) \in Nat /\ last \in Nat /\ b \in Int /\ b >= 1 /\ << >> \in Seq(Found(b))
    BY Reading, Errors
<1>2. SUFFICES ASSUME T # {} PROVE FALSE
    <2>1. last - i \in 0 .. last - b /\ last - (last - i) = i
        BY <1>1
    <2>2. last - i \notin T
        BY <1>2
    <2> QED BY <2>1, <2>2
<1>3. T \in SUBSET Nat
    OBVIOUS
<1>4. PICK a \in T : \A c \in T : a <= c
    BY <1>2, <1>3, LeastOf
<1> DEFINE d == last - a
<1>5. d \in b .. last /\ d \in 1 .. last /\ d \in Int /\ rest[d] \notin Ends(d)
    BY <1>1, <1>4
<1>6. ASSUME NEW e \in d + 1 .. last
      PROVE  rest[e] \in Ends(e)
    <2>1. last - e \in 0 .. last - b /\ last - e < a /\ last - (last - e) = e
        BY <1>1, <1>4, <1>5
    <2>2. last - e \notin T
        BY <1>4, <2>1
    <2> HIDE DEF Ends, rest
    <2> QED BY <2>1, <2>2
<1> HIDE DEF d
<1>7. rest[d] = LiteralStep(rest, d, quote, several, isByte)
    BY <1>5, LiteralEquation
<1> HIDE DEF rest
<1>8. CASE At(d) = End \/ (~several /\ At(d) = NL)
    BY <1>1, <1>5, <1>7, <1>8 DEF LiteralStep
<1>9. CASE ~(At(d) = End \/ (~several /\ At(d) = NL)) /\ At(d) = quote /\ (several => Tripled(d, quote))
    <2>1. d + 1 \in d .. last
        BY <1>1, <1>5, <1>9, Reading
    <2>2. several => d + 3 \in d .. last
        BY <1>1, <1>5, <1>9, TripledStays
    <2>3. rest[d] = [to |-> d + (IF several THEN 3 ELSE 1), closed |-> TRUE, errors |-> << >>]
        BY <1>7, <1>9 DEF LiteralStep
    <2> QED BY <1>1, <1>5, <2>1, <2>2, <2>3
<1>10. CASE ~(At(d) = End \/ (~several /\ At(d) = NL)) /\ ~(At(d) = quote /\ (several => Tripled(d, quote)))
    <2>1. d \in 1 .. Len(src) /\ d + 1 \in d + 1 .. last /\ b \in 1 .. d
        BY <1>1, <1>5, <1>10, Reading
    <2>2. CASE At(d) = "\\"
        <3> DEFINE e == Escape(d, isByte)
        <3>1. e.to \in d + 1 .. last /\ e.errors \in Seq(Found(b))
            BY <2>1, EscapeStays
        <3>2. rest[d] = [rest[e.to] EXCEPT !.errors = e.errors \o @]
            BY <1>7, <1>10, <2>2 DEF LiteralStep
        <3> HIDE DEF e
        <3>3. rest[e.to] \in Ends(e.to)
            BY <1>6, <3>1
        <3>4. e.errors \o rest[e.to].errors \in Seq(Found(b))
            BY <1>1, <3>1, <3>3, Errors
        <3>5. rest[e.to].to \in d .. last
            BY <1>1, <1>5, <3>1, <3>3
        <3> QED BY <1>5, <3>2, <3>3, <3>4, <3>5
    <2>3. CASE At(d) # "\\"
        <3>1. rest[d] = rest[d + 1]
            BY <1>7, <1>10, <2>3 DEF LiteralStep
        <3>2. rest[d + 1] \in Ends(d + 1)
            BY <1>6, <2>1
        <3> QED BY <1>1, <1>5, <3>1, <3>2
    <2> QED BY <2>2, <2>3
<1> QED BY <1>8, <1>9, <1>10

LEMMA RuneOrStringScan ==
    ASSUME Source, NEW i \in 1 .. Len(src),
           At(i) \in Quotes \/ (At(i) \in {"r", "b"} /\ At(i + 1) \in Quotes)
    PROVE  Sound(ScanRuneOrString(i), i)
<1> DEFINE isByte == At(i) = "b"
           q == IF At(i) \in Quotes THEN i ELSE i + 1
           several == Tripled(q, At(q))
           start == q + (IF several THEN 3 ELSE 1)
           s == LiteralFrom(At(q), several, isByte)[start]
           kind == CASE At(q) = "'" -> IF isByte THEN "BYTE" ELSE "RUNE"
                     [] At(q) = "\"" -> IF several THEN "MULTILINE" ELSE "STRING"
           errs == IF s.closed THEN s.errors ELSE Append(s.errors, Error("unterminated literal", i))
<1>1. Len(src) \in Nat /\ i \in Int /\ i \in i .. Len(src) + 1 /\ i \in 1 .. Len(src) + 1
    BY Reading
<1>2. At(q) \in Quotes /\ q \in {i, i + 1} /\ At(q) # End
    BY <1>1, NotEnd
<1>3. q \in 1 .. Len(src) /\ q \in Int /\ q >= i
    BY <1>1, <1>2, Reading
<1>4. kind \in Kinds
    <2>1. At(q) = "'" \/ At(q) = "\""
        BY <1>2 DEF Quotes
    <2> HIDE DEF q, isByte, several
    <2> QED BY <2>1, Names
<1>5. ScanRuneOrString(i) = Scan(kind, s.to, errs)
    BY DEF ScanRuneOrString, QuotedFrom
<1> HIDE DEF q, isByte, kind, several
<1>6. start \in i + 1 .. Len(src) + 1
    <2>1. several => q + 3 \in q + 1 .. Len(src) + 1
        BY <1>1, <1>2, <1>3, TripledStays DEF several
    <2>2. q + 1 \in q + 1 .. Len(src) + 1
        BY <1>1, <1>3
    <2> QED BY <1>1, <1>3, <2>1, <2>2
<1> HIDE DEF start
<1>7. start \in Int /\ start \in i .. Len(src) + 1
    BY <1>1, <1>6
<1>8. s \in [to : start .. Len(src) + 1, closed : BOOLEAN, errors : Seq(Found(i))]
    BY <1>1, <1>2, <1>7, LiteralReaches
<1> HIDE DEF s
<1>9. s.to \in i + 1 .. Len(src) + 1
    BY <1>1, <1>6, <1>8
<1>10. errs \in Seq(Found(i))
    BY <1>1, <1>8, Names, Errors
<1> HIDE DEF errs
<1> QED BY <1>1, <1>4, <1>5, <1>9, <1>10, ScanIsSound

-----------------------------------------------------------------------------
(***************************************************************************)
(* Comments, which nest, and what is left: raw strings and symbols.        *)
(***************************************************************************)
LEMMA CommentEquation ==
    ASSUME Source
    PROVE  \A j \in 1 .. Len(src) + 1, depth \in Nat :
              CommentEnd[j][depth] =
                  IF depth = 0 \/ At(j) = End THEN j
                  ELSE IF At(j) = "*" /\ At(j + 1) = "/" THEN CommentEnd[j + 2][depth - 1]
                  ELSE IF At(j) = "/" /\ At(j + 1) = "*" THEN CommentEnd[j + 2][depth + 1]
                  ELSE CommentEnd[j + 1][depth]
<1> DEFINE last == Len(src) + 1
           Body(g, j) == [depth \in Nat |->
                             IF depth = 0 \/ At(j) = End THEN j
                             ELSE IF At(j) = "*" /\ At(j + 1) = "/" THEN g[j + 2][depth - 1]
                             ELSE IF At(j) = "/" /\ At(j + 1) = "*" THEN g[j + 2][depth + 1]
                             ELSE g[j + 1][depth]]
           Solved(k) == \E g : g = [j \in last - k .. last |-> Body(g, j)]
<1>1. Len(src) \in Nat /\ last \in Nat
    BY Reading
<1>2. ASSUME NEW g, NEW h, NEW j \in 1 .. last, \A k \in j + 1 .. last : g[k] = h[k]
      PROVE  Body(g, j) = Body(h, j)
    <2>1. CASE At(j) = End
        BY <2>1
    <2>2. CASE At(j) # End
        <3>1. j \in 1 .. Len(src) /\ j + 1 \in j + 1 .. last
            BY <1>1, <2>2, Reading
        <3>2. At(j + 1) \in {"*", "/"} => j + 2 \in j + 1 .. last
            <4>1. At(j + 1) \in {"*", "/"} => At(j + 1) # End
                BY DEF End
            <4>2. j + 1 \in Int
                BY <3>1
            <4> QED BY <1>1, <3>1, <4>1, <4>2, Reading
        <3>3. g[j + 1] = h[j + 1] /\ (At(j + 1) \in {"*", "/"} => g[j + 2] = h[j + 2])
            BY <1>2, <3>1, <3>2
        <3> QED BY <3>3
    <2> QED BY <2>1, <2>2
<1> HIDE DEF Body
<1>3. Solved(0)
    <2> DEFINE g == [i \in last - 0 .. last |-> Body(0, i)]
    <2>1. ASSUME NEW i \in last - 0 .. last
          PROVE  Body(0, i) = Body(g, i)
        <3>1. i = last /\ i \in 1 .. last /\ i + 1 .. last = {}
            BY <1>1
        <3> HIDE DEF g, last
        <3> QED BY <1>2, <3>1
    <2>2. g = [i \in last - 0 .. last |-> Body(g, i)]
        BY <2>1
    <2> QED BY <2>2
<1>4. ASSUME NEW k \in 0 .. last - 2, Solved(k)
      PROVE  Solved(k + 1)
    <2>1. PICK g : g = [i \in last - k .. last |-> Body(g, i)]
        BY <1>4
    <2> DEFINE d == last - (k + 1)
               h == [i \in d .. last |-> IF i = d THEN Body(g, d) ELSE g[i]]
    <2>2. d \in 1 .. last /\ d + 1 = last - k /\ k + 1 \in Int
        BY <1>1
    <2>3. ASSUME NEW i \in d .. last
          PROVE  h[i] = Body(h, i)
        <3>1. i \in 1 .. last /\ \A j \in i + 1 .. last : j \in d .. last /\ j # d
            BY <1>1, <2>2
        <3> HIDE DEF d
        <3>2. \A j \in i + 1 .. last : h[j] = g[j]
            BY <3>1
        <3>3. Body(h, i) = Body(g, i)
            <4> HIDE DEF h, last
            <4> QED BY <1>2, <3>1, <3>2
        <3>4. CASE i = d
            BY <3>3, <3>4
        <3>5. CASE i # d
            <4>1. i \in last - k .. last
                BY <1>1, <2>2, <3>5
            <4>2. g[i] = Body(g, i)
                BY <2>1, <4>1
            <4> QED BY <3>3, <3>5, <4>2
        <3> QED BY <3>4, <3>5
    <2>4. h = [i \in d .. last |-> Body(h, i)]
        BY <2>3
    <2> QED BY <2>4
<1>5. Solved(last - 1)
    <2> HIDE DEF Solved
    <2> DEFINE T == {k \in 0 .. last - 1 : ~Solved(k)}
    <2>1. SUFFICES ASSUME T # {} PROVE FALSE
        BY <1>1
    <2>2. T \in SUBSET Nat
        OBVIOUS
    <2>3. PICK a \in T : \A b \in T : a <= b
        BY <2>1, <2>2, LeastOf
    <2>4. a # 0
        BY <1>3
    <2>5. a - 1 \in 0 .. last - 2 /\ (a - 1) + 1 = a /\ a - 1 \notin T
        BY <1>1, <2>3, <2>4
    <2>6. Solved(a - 1)
        BY <1>1, <2>5
    <2>7. Solved(a)
        BY <1>4, <2>5, <2>6
    <2> QED BY <2>7
<1>6. \E g : g = [i \in 1 .. last |-> Body(g, i)]
    <2>1. last - (last - 1) = 1
        BY <1>1
    <2> QED BY <1>5, <2>1
<1>7. CommentEnd = CHOOSE g : g = [j \in 1 .. last |-> Body(g, j)]
    BY DEF CommentEnd, Body
<1>8. CommentEnd = [j \in 1 .. last |-> Body(CommentEnd, j)]
    BY <1>6, <1>7
<1>9. \A j \in 1 .. last : CommentEnd[j] = Body(CommentEnd, j)
    BY <1>8
<1> QED BY <1>9 DEF Body

LEMMA CommentReaches ==
    ASSUME Source, NEW j \in 1 .. Len(src) + 1, NEW depth \in Nat
    PROVE  CommentEnd[j][depth] \in j .. Len(src) + 1
<1> DEFINE last == Len(src) + 1
           T == {k \in 0 .. last - 1 : \E e \in Nat : CommentEnd[last - k][e] \notin last - k .. last}
<1>1. Len(src) \in Nat /\ last \in Nat
    BY Reading
<1>2. SUFFICES ASSUME T # {} PROVE FALSE
    <2>1. last - j \in 0 .. last - 1 /\ last - (last - j) = j
        BY <1>1
    <2>2. last - j \notin T
        BY <1>2
    <2> QED BY <2>1, <2>2
<1>3. T \in SUBSET Nat
    OBVIOUS
<1>4. PICK a \in T : \A c \in T : a <= c
    BY <1>2, <1>3, LeastOf
<1> DEFINE d == last - a
<1>5. PICK e \in Nat : CommentEnd[d][e] \notin d .. last
    BY <1>4
<1>6. d \in 1 .. last /\ d \in Int
    BY <1>1, <1>4
<1>7. ASSUME NEW k \in d + 1 .. last, NEW f \in Nat
      PROVE  CommentEnd[k][f] \in k .. last
    <2>1. last - k \in 0 .. last - 1 /\ last - k < a /\ last - (last - k) = k
        BY <1>1, <1>4, <1>6
    <2>2. last - k \notin T
        BY <1>4, <2>1
    <2> QED BY <2>1, <2>2
<1> HIDE DEF d, T
<1>8. CASE e = 0 \/ At(d) = End
    <2>1. CommentEnd[d][e] = d
        BY <1>6, <1>8, CommentEquation
    <2> QED BY <1>1, <1>5, <1>6, <2>1
<1>9. CASE e # 0 /\ At(d) # End
    <2>1. d \in 1 .. Len(src) /\ d + 1 \in d + 1 .. last /\ d + 1 \in Int
          /\ e - 1 \in Nat /\ e + 1 \in Nat
        BY <1>1, <1>6, <1>9, Reading
    <2>2. At(d + 1) \in {"*", "/"} => d + 2 \in d + 1 .. last
        <3>1. At(d + 1) \in {"*", "/"} => At(d + 1) # End
            BY DEF End
        <3> QED BY <1>1, <2>1, <3>1, Reading
    <2>3. \/ CommentEnd[d][e] = CommentEnd[d + 1][e]
          \/ /\ At(d + 1) \in {"*", "/"}
             /\ CommentEnd[d][e] \in {CommentEnd[d + 2][e - 1], CommentEnd[d + 2][e + 1]}
        BY <1>6, <1>9, CommentEquation
    <2>4. CommentEnd[d + 1][e] \in d + 1 .. last
        BY <1>7, <2>1
    <2>5. At(d + 1) \in {"*", "/"} => /\ CommentEnd[d + 2][e - 1] \in d + 2 .. last
                                    /\ CommentEnd[d + 2][e + 1] \in d + 2 .. last
        BY <1>7, <2>1, <2>2
    <2>6. CommentEnd[d][e] \in d + 1 .. last \/ CommentEnd[d][e] \in d + 2 .. last
        BY <2>3, <2>4, <2>5
    <2> QED BY <1>1, <1>5, <1>6, <2>6
<1> QED BY <1>8, <1>9

LEMMA BlockCommentScan ==
    ASSUME Source, NEW i \in 1 .. Len(src), At(i + 1) = "*"
    PROVE  Sound(ScanBlockComment(i), i) /\ ScanBlockComment(i).kind = "COMMENT"
           /\ ScanBlockComment(i).errors = << >>
<1>1. Len(src) \in Nat /\ i \in Int /\ i + 1 \in Int /\ << >> \in Seq(Found(i))
    BY Reading, Errors
<1>2. i + 2 \in 1 .. Len(src) + 1
    <2>1. At(i + 1) # End
        BY DEF End
    <2>2. i + 1 \in 1 .. Len(src)
        BY <1>1, <2>1, Reading
    <2> QED BY <1>1, <2>2
<1> DEFINE to == CommentEnd[i + 2][1]
<1>3. to \in i + 2 .. Len(src) + 1
    BY <1>2, CommentReaches
<1>4. ScanBlockComment(i) = Scan("COMMENT", to, << >>)
    BY DEF ScanBlockComment
<1> HIDE DEF to
<1>5. to \in i + 1 .. Len(src) + 1
    BY <1>1, <1>3
<1>6. Sound(Scan("COMMENT", to, << >>), i)
    BY <1>1, <1>5, Names, ScanIsSound
<1> QED BY <1>4, <1>6 DEF Scan

LEMMA LineCommentScan ==
    ASSUME Source, NEW i \in 1 .. Len(src), At(i) = "/"
    PROVE  Sound(ScanLineComment(i), i) /\ ScanLineComment(i).kind = "COMMENT"
           /\ ScanLineComment(i).errors = << >>
<1> DEFINE last == Len(src) + 1
           Out == {j \in i .. last : At(j) \in {NL, End}}
           to == CHOOSE j \in i .. last : At(j) \in {NL, End} /\ \A k \in i .. j - 1 : src[k] # NL
<1>1. /\ Len(src) \in Nat /\ last \in i .. last /\ last \in Out
      /\ i \in Int /\ last \in Int /\ << >> \in Seq(Found(i))
    BY Reading, Errors
<1> HIDE DEF Out
<1>2. PICK j \in i .. last : j \in Out /\ \A k \in i .. j - 1 : k \notin Out
    <2> HIDE DEF last
    <2> QED BY <1>1, FirstSuch
<1>3. At(j) \in {NL, End} /\ \A k \in i .. j - 1 : src[k] # NL
    <2>1. ASSUME NEW k \in i .. j - 1
          PROVE  src[k] # NL
        <3>1. k \in 1 .. Len(src) /\ k \in i .. last /\ k \in Int
            BY <1>1
        <3>2. At(k) # NL
            BY <1>2, <3>1 DEF Out
        <3> QED BY <3>1, <3>2, Reading
    <2> QED BY <1>2, <2>1 DEF Out
<1>4. to \in i .. last /\ At(to) \in {NL, End}
    BY <1>3
<1>5. ScanLineComment(i) = Scan("COMMENT", to, << >>)
    BY DEF ScanLineComment
<1> HIDE DEF to
<1>6. to # i
    BY <1>4 DEF NL, End
<1>7. to \in i + 1 .. Len(src) + 1
    BY <1>1, <1>4, <1>6
<1>8. Sound(Scan("COMMENT", to, << >>), i)
    BY <1>1, <1>7, Names, ScanIsSound
<1> QED BY <1>5, <1>8 DEF Scan

LEMMA HashScan ==
    ASSUME Source, NEW i \in 1 .. Len(src), At(i) = "#"
    PROVE  Sound(ScanHash(i), i)
<1> DEFINE body == EndOfRun(i, {"#"})
           closing == {j \in body .. Len(src) :
                          src[j] = "#" /\ \E k \in body .. j - 1 : src[k] \in Quotes}
           first == CHOOSE j \in closing : \A k \in closing : j <= k
           last == Len(src) + 1
<1>1. /\ Len(src) \in Nat /\ i \in Int /\ i \in i .. last /\ i \in 1 .. last
      /\ last \in i + 1 .. last /\ << >> \in Seq(Found(i))
    BY Reading, Errors
<1>2. body \in i .. last
    <2>1. End \notin {"#"}
        BY DEF End
    <2> QED BY <1>1, <2>1, Run
<1>3. CASE closing = {}
    <2>1. ScanHash(i) = Scan("RAW", last, <<Error("unterminated raw string", i)>>)
        BY <1>3 DEF ScanHash
    <2>2. <<Error("unterminated raw string", i)>> \in Seq(Found(i))
        BY <1>1, Names, Errors
    <2> HIDE DEF closing
    <2> QED BY <1>1, <2>1, <2>2, Names, ScanIsSound
<1>4. CASE closing # {}
    <2>1. ScanHash(i) = Scan("RAW", first + 1, << >>)
        BY <1>4 DEF ScanHash
    <2> HIDE DEF body
    <2>2. closing \in SUBSET Nat
        BY <1>1, <1>2
    <2>3. closing \in SUBSET (body .. Len(src))
        OBVIOUS
    <2> HIDE DEF closing
    <2>4. first \in closing
        BY <1>4, <2>2, LeastOf
    <2> HIDE DEF first
    <2>5. first + 1 \in i + 1 .. last
        BY <1>1, <1>2, <2>3, <2>4
    <2> QED BY <1>1, <2>1, <2>5, Names, ScanIsSound
<1> QED BY <1>3, <1>4

LEMMA SymbolScan ==
    ASSUME Source, NEW i \in 1 .. Len(src)
    PROVE  Sound(ScanSymbol(i), i)
<1> DEFINE next(n) == [k \in 1 .. n |-> At(i + k - 1)]
           size == CASE next(3) \in Symbols3 -> 3
                     [] next(3) \notin Symbols3 /\ next(2) \in Symbols2 -> 2
                     [] OTHER -> 1
           odd == <<Error("unknown start of token", i)>>
<1>1. /\ Len(src) \in Nat /\ i \in Int /\ i \in i .. Len(src) + 1 /\ i + 1 \in i + 1 .. Len(src) + 1
      /\ << >> \in Seq(Found(i))
    BY Reading, Errors
<1>2. odd \in Seq(Found(i))
    BY <1>1, Names, Errors
<1>3. ScanSymbol(i) = IF At(i) \in Symbols1 THEN Scan("SYMBOL", i + size, << >>)
                      ELSE Scan("ILLEGAL", i + 1, odd)
    BY DEF ScanSymbol
<1>4. next(3) \in Symbols3 => i + 3 \in i + 1 .. Len(src) + 1
    <2>1. ASSUME NEW s \in Symbols3
          PROVE  s[3] # End
        BY DEF Symbols3, End
    <2>2. next(3)[3] = At(i + 2)
        BY <1>1
    <2> HIDE DEF next
    <2>3. next(3) \in Symbols3 => At(i + 2) # End
        BY <2>1, <2>2
    <2>4. i + 2 \in Int
        BY <1>1
    <2> QED BY <1>1, <2>3, <2>4, Reading
<1>5. next(2) \in Symbols2 => i + 2 \in i + 1 .. Len(src) + 1
    <2>1. ASSUME NEW s \in Symbols2
          PROVE  s[2] # End
        BY DEF Symbols2, End
    <2>2. next(2)[2] = At(i + 1)
        BY <1>1
    <2> HIDE DEF next
    <2>3. next(2) \in Symbols2 => At(i + 1) # End
        BY <2>1, <2>2
    <2>4. i + 1 \in Int
        BY <1>1
    <2> QED BY <1>1, <2>3, <2>4, Reading
<1> HIDE DEF next, odd
<1>6. i + size \in i + 1 .. Len(src) + 1
    BY <1>1, <1>4, <1>5
<1> HIDE DEF size
<1>7. Sound(Scan("SYMBOL", i + size, << >>), i) /\ Sound(Scan("ILLEGAL", i + 1, odd), i)
    BY <1>1, <1>2, <1>6, Names, ScanIsSound
<1> QED BY <1>3, <1>7

-----------------------------------------------------------------------------
(***************************************************************************)
(* Lines and columns.                                                      *)
(***************************************************************************)
Positions == [line : Nat \ {0}, col : Nat \ {0}]

Breaks(a, b) == {k \in a .. b - 1 : src[k] = NL}

LEMMA BreakIs ==
    ASSUME Source, NEW a \in 1 .. Len(src) + 1, NEW b \in a .. Len(src) + 1
    PROVE  /\ LastBreak(a, b) \in Int /\ LastBreak(a, b) >= 0
           /\ LastBreak(a, b) # 0 => LastBreak(a, b) \in a .. b - 1 /\ src[LastBreak(a, b)] = NL
           /\ \A k \in a .. b - 1 : k > LastBreak(a, b) => src[k] # NL
<1>1. Len(src) \in Nat /\ a \in Int /\ b \in Int /\ b - 1 \in Int /\ a >= 1
    BY Reading
<1> DEFINE Is(m) == /\ m = 0 \/ src[m] = NL
                    /\ \A k \in m + 1 .. b - 1 : k >= a => src[k] # NL
<1>2. \E m \in {0} \cup (a .. b - 1) : Is(m)
    <2>1. CASE \E j \in a .. b - 1 : j \in Breaks(a, b)
        <3> DEFINE B == Breaks(a, b)
                   e == b - 1
        <3>1. a \in Int /\ e \in Int /\ \E j \in a .. e : j \in B
            BY <1>1, <2>1
        <3> HIDE DEF B, e
        <3>2. \E m \in a .. e : m \in B /\ \A k \in m + 1 .. e : k \notin B
            BY <3>1, LastSuch
        <3>3. PICK m \in a .. e : m \in B /\ \A k \in m + 1 .. e : k \notin B
            BY <3>2
        <3>4. Is(m)
            BY <1>1, <3>3 DEF B, e, Breaks
        <3> QED BY <3>3, <3>4 DEF e
    <2>2. CASE ~\E j \in a .. b - 1 : j \in Breaks(a, b)
        <3>1. Is(0)
            BY <1>1, <2>2 DEF Breaks
        <3> QED BY <3>1
    <2> QED BY <2>1, <2>2
<1>3. LastBreak(a, b) \in {0} \cup (a .. b - 1) /\ Is(LastBreak(a, b))
    BY <1>2 DEF LastBreak
<1> QED BY <1>1, <1>3

LEMMA BreakUnique ==
    ASSUME Source, NEW a \in 1 .. Len(src) + 1, NEW b \in a .. Len(src) + 1,
           NEW m \in Int, m >= 0, m # 0 => m \in a .. b - 1 /\ src[m] = NL,
           \A k \in a .. b - 1 : k > m => src[k] # NL
    PROVE  LastBreak(a, b) = m
<1> DEFINE l == LastBreak(a, b)
<1>1. /\ l \in Int /\ l >= 0 /\ (l # 0 => l \in a .. b - 1 /\ src[l] = NL)
      /\ \A k \in a .. b - 1 : k > l => src[k] # NL
    BY BreakIs
<1> HIDE DEF l
<1>2. a \in Int /\ a >= 1 /\ b - 1 \in Int
    BY Reading
<1>3. ~(l > m)
    <2> SUFFICES ASSUME l > m PROVE FALSE
        OBVIOUS
    <2>1. l \in a .. b - 1 /\ src[l] = NL
        BY <1>1
    <2> QED BY <2>1
<1>4. ~(m > l)
    <2> SUFFICES ASSUME m > l PROVE FALSE
        OBVIOUS
    <2>1. m \in a .. b - 1 /\ src[m] = NL
        BY <1>1
    <2> QED BY <1>1, <2>1
<1>5. l = m
    BY <1>1, <1>3, <1>4
<1> QED BY <1>5 DEF l

\* The last break up to b is the last one from a on, or there is none from a on.
LEMMA BreakJoin ==
    ASSUME Source, NEW a \in 1 .. Len(src) + 1, NEW b \in a .. Len(src) + 1
    PROVE  LastBreak(1, b) = IF LastBreak(a, b) = 0 THEN LastBreak(1, a) ELSE LastBreak(a, b)
<1> DEFINE l == LastBreak(a, b)
           f == LastBreak(1, a)
<1>1. /\ Len(src) \in Nat /\ a \in Int /\ b \in Int /\ a >= 1 /\ a <= b
      /\ 1 \in 1 .. Len(src) + 1 /\ b \in 1 .. Len(src) + 1
    BY Reading
<1>2. /\ l \in Int /\ l >= 0 /\ (l # 0 => l \in a .. b - 1 /\ src[l] = NL)
      /\ \A k \in a .. b - 1 : k > l => src[k] # NL
    BY BreakIs
<1>3. /\ f \in Int /\ f >= 0 /\ (f # 0 => f \in 1 .. a - 1 /\ src[f] = NL)
      /\ \A k \in 1 .. a - 1 : k > f => src[k] # NL
    BY <1>1, BreakIs
<1> HIDE DEF l, f
<1>4. CASE l = 0
    <2>1. f # 0 => f \in 1 .. b - 1 /\ src[f] = NL
        BY <1>1, <1>3
    <2>2. \A k \in 1 .. b - 1 : k > f => src[k] # NL
        BY <1>1, <1>2, <1>3, <1>4
    <2>3. LastBreak(1, b) = f
        BY <1>1, <1>3, <2>1, <2>2, BreakUnique
    <2> QED BY <1>4, <2>3 DEF l, f
<1>5. CASE l # 0
    <2>1. l \in 1 .. b - 1 /\ src[l] = NL
        BY <1>1, <1>2, <1>5
    <2>2. \A k \in 1 .. b - 1 : k > l => src[k] # NL
        BY <1>1, <1>2, <1>5
    <2>3. LastBreak(1, b) = l
        BY <1>1, <1>2, <2>1, <2>2, BreakUnique
    <2> QED BY <1>5, <2>3 DEF l
<1> QED BY <1>4, <1>5

LEMMA BreaksCount ==
    ASSUME Source, NEW a \in 1 .. Len(src) + 1, NEW b \in a .. Len(src) + 1
    PROVE  IsFiniteSet(Breaks(a, b)) /\ Cardinality(Breaks(a, b)) \in Nat
<1>1. a \in Int /\ b - 1 \in Int
    BY Reading
<1>2. IsFiniteSet(a .. b - 1)
    BY <1>1, FS_Interval
<1>3. Breaks(a, b) \in SUBSET (a .. b - 1)
    BY DEF Breaks
<1>4. IsFiniteSet(Breaks(a, b))
    BY <1>2, <1>3, FS_Subset
<1> QED BY <1>4, FS_CardinalityType

LEMMA BreaksAdd ==
    ASSUME Source, NEW a \in 1 .. Len(src) + 1, NEW b \in a .. Len(src) + 1
    PROVE  Cardinality(Breaks(1, b)) = Cardinality(Breaks(1, a)) + Cardinality(Breaks(a, b))
<1> DEFINE before == Breaks(1, a)
           between == Breaks(a, b)
<1>1. /\ Len(src) \in Nat /\ a \in Int /\ b \in Int /\ a >= 1 /\ a <= b
      /\ 1 \in 1 .. Len(src) + 1
    BY Reading
<1>2. Breaks(1, b) = before \cup between /\ before \cap between = {}
    BY <1>1 DEF Breaks
<1>3. /\ IsFiniteSet(before) /\ Cardinality(before) \in Nat
      /\ IsFiniteSet(between) /\ Cardinality(between) \in Nat
    BY <1>1, BreaksCount
<1> HIDE DEF before, between
<1>4. Cardinality(before \cup between)
          = Cardinality(before) + Cardinality(between) - Cardinality(before \cap between)
    BY <1>3, FS_Union
<1>5. Cardinality(before \cap between) = 0
    BY <1>2, FS_EmptySet
<1>6. Cardinality(before \cup between) = Cardinality(before) + Cardinality(between)
    BY <1>3, <1>4, <1>5
<1> QED BY <1>2, <1>6 DEF before, between

\* Where an index is.
LEMMA TruePositionIs ==
    ASSUME Source, NEW i \in 1 .. Len(src) + 1
    PROVE  /\ TruePosition(i) \in Positions
           /\ TruePosition(i).line = 1 + Cardinality(Breaks(1, i))
           /\ TruePosition(i).col = i - LastBreak(1, i)
<1>1. TruePosition(i) = [line |-> 1 + Cardinality(Breaks(1, i)), col |-> i - LastBreak(1, i)]
    BY DEF TruePosition, Breaks
<1>2. Len(src) \in Nat /\ 1 \in 1 .. Len(src) + 1
    BY Reading
<1>3. Cardinality(Breaks(1, i)) \in Nat
    BY <1>2, BreaksCount
<1>4. LastBreak(1, i) \in Int /\ LastBreak(1, i) >= 0 /\ LastBreak(1, i) <= i - 1
    <2>1. LastBreak(1, i) \in Int /\ LastBreak(1, i) >= 0 /\ (LastBreak(1, i) # 0 => LastBreak(1, i) \in 1 .. i - 1)
        BY <1>2, BreakIs
    <2> QED BY <2>1
<1>5. 1 + Cardinality(Breaks(1, i)) \in Nat \ {0} /\ i - LastBreak(1, i) \in Nat \ {0}
    BY <1>2, <1>3, <1>4
<1> QED BY <1>1, <1>5 DEF Positions

WideFrom(i, b) == {k \in i .. b - 1 : src[k] \in Wide}

LEMMA WideCount ==
    ASSUME NEW i \in Int, NEW b \in Int
    PROVE  /\ Cardinality(WideFrom(i, b)) \in Nat
           /\ WideFrom(i, b) = {} => Cardinality(WideFrom(i, b)) = 0
<1>1. b - 1 \in Int
    OBVIOUS
<1>2. IsFiniteSet(i .. b - 1)
    BY <1>1, FS_Interval
<1>3. WideFrom(i, b) \in SUBSET (i .. b - 1)
    BY DEF WideFrom
<1>4. IsFiniteSet(WideFrom(i, b))
    BY <1>2, <1>3, FS_Subset
<1> QED BY <1>4, FS_CardinalityType, FS_EmptySet

\* What passing a .. b - 1 makes of a position, by characters and by bytes.
LEMMA BumpCharIs ==
    ASSUME Source, NEW pos \in Positions, NEW a \in 1 .. Len(src) + 1, NEW b \in a .. Len(src) + 1
    PROVE  /\ BumpChar(pos, a, b) \in Positions
           /\ BumpChar(pos, a, b).line = pos.line + Cardinality(Breaks(a, b))
           /\ BumpChar(pos, a, b).col = IF LastBreak(a, b) = 0 THEN pos.col + (b - a)
                                        ELSE b - LastBreak(a, b)
<1> DEFINE l == LastBreak(a, b)
           here == Cardinality(WideFrom(a, b))
           there == Cardinality(WideFrom(l + 1, b))
           lines == Cardinality(Breaks(a, b))
<1>1. BumpChar(pos, a, b) =
          [line |-> pos.line + lines,
           col  |-> IF l = 0 THEN pos.col + ((b - a) + (1 - 1) * here)
                    ELSE 1 + ((b - (l + 1)) + (1 - 1) * there)]
    BY DEF BumpChar, Moved, Breaks, WideFrom
<1>2. Len(src) \in Nat /\ a \in Int /\ b \in Int /\ a <= b
    BY Reading
<1>3. l \in Int /\ l >= 0 /\ (l # 0 => l \in a .. b - 1)
    BY BreakIs
<1>4. lines \in Nat
    BY BreaksCount
<1>5. here \in Nat /\ there \in Nat
    <2>1. l + 1 \in Int
        BY <1>3
    <2> QED BY <1>2, <2>1, WideCount
<1>6. pos.line \in Nat \ {0} /\ pos.col \in Nat \ {0}
    BY DEF Positions
<1> HIDE DEF l, here, there, lines
<1>7. /\ pos.col + ((b - a) + (1 - 1) * here) = pos.col + (b - a)
      /\ 1 + ((b - (l + 1)) + (1 - 1) * there) = b - l
    BY <1>2, <1>3, <1>5, <1>6
<1>8. BumpChar(pos, a, b) = [line |-> pos.line + lines, col |-> IF l = 0 THEN pos.col + (b - a) ELSE b - l]
    BY <1>1, <1>7
<1>9. pos.line + lines \in Nat \ {0} /\ pos.col + (b - a) \in Nat \ {0} /\ (l # 0 => b - l \in Nat \ {0})
    BY <1>2, <1>3, <1>4, <1>6
<1>10. BumpChar(pos, a, b) \in Positions
    BY <1>8, <1>9 DEF Positions
<1> QED BY <1>8, <1>10 DEF l, lines

LEMMA BumpIs ==
    ASSUME Source, NEW pos \in Positions, NEW a \in 1 .. Len(src) + 1, NEW b \in a .. Len(src) + 1
    PROVE  /\ Bump(pos, a, b) \in Positions
           /\ Bump(pos, a, b).line = pos.line + Cardinality(Breaks(a, b))
           /\ Bump(pos, a, b).col =
                  IF LastBreak(a, b) = 0 THEN pos.col + (b - a) + Cardinality(WideFrom(a, b))
                  ELSE b - LastBreak(a, b) + Cardinality(WideFrom(LastBreak(a, b) + 1, b))
<1> DEFINE l == LastBreak(a, b)
           here == Cardinality(WideFrom(a, b))
           there == Cardinality(WideFrom(l + 1, b))
           lines == Cardinality(Breaks(a, b))
<1>1. Bump(pos, a, b) =
          [line |-> pos.line + lines,
           col  |-> IF l = 0 THEN pos.col + ((b - a) + (2 - 1) * here)
                    ELSE 1 + ((b - (l + 1)) + (2 - 1) * there)]
    BY DEF Bump, Moved, Breaks, WideFrom
<1>2. Len(src) \in Nat /\ a \in Int /\ b \in Int /\ a <= b
    BY Reading
<1>3. l \in Int /\ l >= 0 /\ (l # 0 => l \in a .. b - 1)
    BY BreakIs
<1>4. lines \in Nat
    BY BreaksCount
<1>5. here \in Nat /\ there \in Nat
    <2>1. l + 1 \in Int
        BY <1>3
    <2> QED BY <1>2, <2>1, WideCount
<1>6. pos.line \in Nat \ {0} /\ pos.col \in Nat \ {0}
    BY DEF Positions
<1> HIDE DEF l, here, there, lines
<1>7. /\ pos.col + ((b - a) + (2 - 1) * here) = pos.col + (b - a) + here
      /\ 1 + ((b - (l + 1)) + (2 - 1) * there) = b - l + there
    BY <1>2, <1>3, <1>5, <1>6
<1>8. Bump(pos, a, b) = [line |-> pos.line + lines,
                         col  |-> IF l = 0 THEN pos.col + (b - a) + here ELSE b - l + there]
    BY <1>1, <1>7
<1>9. /\ pos.line + lines \in Nat \ {0} /\ pos.col + (b - a) + here \in Nat \ {0}
      /\ l # 0 => b - l + there \in Nat \ {0}
    BY <1>2, <1>3, <1>4, <1>5, <1>6
<1>10. Bump(pos, a, b) \in Positions
    BY <1>8, <1>9 DEF Positions
<1> QED BY <1>8, <1>10 DEF l, lines, here, there

-----------------------------------------------------------------------------
(***************************************************************************)
(* A position is placed at an index when its line is the true one, and its *)
(* column too unless a comment with a wide character stands before it on   *)
(* its line.  What the lexer makes of a placed position is placed.         *)
(***************************************************************************)
Placed(pos, i) ==
    /\ pos \in Positions
    /\ pos.line = TruePosition(i).line
    /\ AfterWideComment(i) \/ pos.col = TruePosition(i).col

LEMMA SamePosition ==
    ASSUME NEW p \in Positions, NEW q \in Positions, p.line = q.line, p.col = q.col
    PROVE  p = q
<1>1. p = [line |-> p.line, col |-> p.col] /\ q = [line |-> q.line, col |-> q.col]
    BY DEF Positions
<1> QED BY <1>1

LEMMA PlacedIsTrue ==
    ASSUME Source, NEW i \in 1 .. Len(src) + 1, NEW pos, Placed(pos, i)
    PROVE  AfterWideComment(i) \/ pos = TruePosition(i)
<1>1. pos \in Positions /\ TruePosition(i) \in Positions /\ pos.line = TruePosition(i).line
    BY TruePositionIs DEF Placed
<1>2. pos.col = TruePosition(i).col => pos = TruePosition(i)
    BY <1>1 DEF Positions
<1> QED BY <1>2 DEF Placed

\* Lines add up, and on one line so do columns.
LEMMA TrueFurther ==
    ASSUME Source, NEW a \in 1 .. Len(src) + 1, NEW b \in a .. Len(src) + 1
    PROVE  /\ TruePosition(b).line = TruePosition(a).line + Cardinality(Breaks(a, b))
           /\ TruePosition(b).col = IF LastBreak(a, b) = 0 THEN TruePosition(a).col + (b - a)
                                    ELSE b - LastBreak(a, b)
<1>1. /\ Len(src) \in Nat /\ a \in Int /\ b \in Int /\ 1 \in 1 .. Len(src) + 1
      /\ b \in 1 .. Len(src) + 1
    BY Reading
<1>2. /\ TruePosition(a).line = 1 + Cardinality(Breaks(1, a)) /\ TruePosition(a).col = a - LastBreak(1, a)
      /\ TruePosition(b).line = 1 + Cardinality(Breaks(1, b)) /\ TruePosition(b).col = b - LastBreak(1, b)
    BY <1>1, TruePositionIs
<1>3. Cardinality(Breaks(1, a)) \in Nat /\ Cardinality(Breaks(a, b)) \in Nat
    BY <1>1, BreaksCount
<1>4. Cardinality(Breaks(1, b)) = Cardinality(Breaks(1, a)) + Cardinality(Breaks(a, b))
    BY BreaksAdd
<1>5. LastBreak(1, b) = IF LastBreak(a, b) = 0 THEN LastBreak(1, a) ELSE LastBreak(a, b)
    BY BreakJoin
<1>6. LastBreak(1, a) \in Int
    BY <1>1, BreakIs
<1>7. TruePosition(b).line = TruePosition(a).line + Cardinality(Breaks(a, b))
    BY <1>2, <1>3, <1>4
<1>8. TruePosition(b).col = IF LastBreak(a, b) = 0 THEN TruePosition(a).col + (b - a) ELSE b - LastBreak(a, b)
    BY <1>1, <1>2, <1>5, <1>6
<1> QED BY <1>7, <1>8

Tokens == [kind : Kinds, from : 1 .. Len(src) + 1, to : 1 .. Len(src) + 1, begin : Positions, end : Positions]

\* On its line, what stands after a wide comment is followed by what does.
LEMMA AfterFurther ==
    ASSUME Source, tokens \in Seq(Tokens), NEW a \in 1 .. Len(src) + 1, NEW b \in a .. Len(src) + 1,
           LastBreak(a, b) = 0, AfterWideComment(a)
    PROVE  AfterWideComment(b)
<1>1. Len(src) \in Nat /\ a \in Int /\ b \in Int /\ a <= b
    BY Reading
<1>2. LastBreak(1, b) = LastBreak(1, a)
    BY BreakJoin
<1>3. PICK n \in 1 .. Len(tokens) :
          /\ tokens[n].kind = "COMMENT" /\ tokens[n].to <= a
          /\ \E k \in tokens[n].from .. tokens[n].to - 1 : k > LastBreak(1, a) /\ src[k] \in Wide
    BY DEF AfterWideComment
<1>4. tokens[n].to \in Int
    <2>1. tokens[n] \in Tokens
        OBVIOUS
    <2> QED BY <1>1, <2>1 DEF Tokens
<1>5. tokens[n].to <= b
    BY <1>1, <1>3, <1>4
<1> QED BY <1>2, <1>3, <1>5 DEF AfterWideComment

\* Passing characters one column each keeps a position placed.
LEMMA PlacedFurther ==
    ASSUME Source, tokens \in Seq(Tokens), NEW a \in 1 .. Len(src) + 1, NEW b \in a .. Len(src) + 1,
           NEW pos, Placed(pos, a)
    PROVE  Placed(BumpChar(pos, a, b), b)
<1> DEFINE new == BumpChar(pos, a, b)
<1>1. pos \in Positions /\ pos.line = TruePosition(a).line
    BY DEF Placed
<1>2. /\ new \in Positions /\ new.line = pos.line + Cardinality(Breaks(a, b))
      /\ new.col = IF LastBreak(a, b) = 0 THEN pos.col + (b - a) ELSE b - LastBreak(a, b)
    BY <1>1, BumpCharIs
<1> HIDE DEF new
<1>3. /\ TruePosition(b).line = TruePosition(a).line + Cardinality(Breaks(a, b))
      /\ TruePosition(b).col = IF LastBreak(a, b) = 0 THEN TruePosition(a).col + (b - a)
                               ELSE b - LastBreak(a, b)
    BY TrueFurther
<1>4. new.line = TruePosition(b).line
    BY <1>1, <1>2, <1>3
<1>5. CASE LastBreak(a, b) = 0 /\ AfterWideComment(a)
    <2>1. AfterWideComment(b)
        BY <1>5, AfterFurther
    <2> QED BY <1>2, <1>4, <2>1 DEF Placed, new
<1>6. CASE LastBreak(a, b) # 0 \/ ~AfterWideComment(a)
    <2>1. pos.col = TruePosition(a).col \/ LastBreak(a, b) # 0
        BY <1>6 DEF Placed
    <2>2. new.col = TruePosition(b).col
        BY <1>2, <1>3, <2>1
    <2> QED BY <1>2, <1>4, <2>2 DEF Placed, new
<1> QED BY <1>5, <1>6

\* No token reaches beyond an index.
Behind(i) == \A n \in 1 .. Len(tokens) : tokens[n].to <= i

\* Giving characters back does too, when none of them breaks the line.
LEMMA PlacedBack ==
    ASSUME Source, tokens \in Seq(Tokens), NEW a \in 1 .. Len(src) + 1, Behind(a),
           NEW to \in a .. Len(src) + 1, NEW ate \in to .. Len(src) + 1,
           \A k \in to .. ate - 1 : src[k] # NL,
           NEW pos, Placed(pos, a)
    PROVE  Placed(RolledBack(pos, a, ate, to), to)
<1> DEFINE far == BumpChar(pos, a, ate)
           near == RolledBack(pos, a, ate, to)
<1>1. /\ Len(src) \in Nat /\ a \in Int /\ to \in Int /\ ate \in Int /\ a <= to /\ to <= ate
      /\ ate \in 1 .. Len(src) + 1 /\ to \in 1 .. Len(src) + 1 /\ ate \in a .. Len(src) + 1
    BY Reading
<1>2. Placed(far, ate)
    BY <1>1, PlacedFurther
<1>3. LastBreak(to, ate) = 0
    <2>1. LastBreak(to, ate) # 0 => LastBreak(to, ate) \in to .. ate - 1 /\ src[LastBreak(to, ate)] = NL
        BY <1>1, BreakIs
    <2> QED BY <2>1
<1>4. Cardinality(Breaks(to, ate)) = 0
    <2>1. Breaks(to, ate) = {}
        BY DEF Breaks
    <2> QED BY <2>1, FS_EmptySet
<1>5. /\ TruePosition(ate).line = TruePosition(to).line + 0
      /\ TruePosition(ate).col = TruePosition(to).col + (ate - to)
    BY <1>1, <1>3, <1>4, TrueFurther
<1>6. TruePosition(to).line \in Nat /\ TruePosition(to).col \in Nat \ {0}
    BY <1>1, TruePositionIs DEF Positions
<1>7. far \in Positions /\ far.line \in Nat \ {0} /\ far.col \in Nat \ {0}
    BY <1>2 DEF Placed, Positions
<1>8. near = [far EXCEPT !.col = LET c == far.col - (ate - to) IN IF c > 1 THEN c ELSE 1]
    BY DEF RolledBack
<1> HIDE DEF far, near
<1>9. /\ near.line = far.line
      /\ near.col = IF far.col - (ate - to) > 1 THEN far.col - (ate - to) ELSE 1
      /\ near \in Positions
    BY <1>1, <1>7, <1>8 DEF Positions
<1>10. near.line = TruePosition(to).line
    BY <1>2, <1>5, <1>6, <1>9 DEF Placed
<1>11. AfterWideComment(to) \/ near.col = TruePosition(to).col
    <2>1. CASE far.col = TruePosition(ate).col
        BY <1>1, <1>5, <1>6, <1>9, <2>1
    <2>2. CASE AfterWideComment(ate)
        <3>1. LastBreak(1, ate) = LastBreak(1, to)
            BY <1>1, <1>3, BreakJoin
        <3>2. \A n \in 1 .. Len(tokens) : tokens[n].to <= to
            <4> TAKE n \in 1 .. Len(tokens)
            <4>1. tokens[n] \in Tokens /\ tokens[n].to <= a
                BY DEF Behind
            <4>2. tokens[n].to \in Int
                BY <1>1, <4>1 DEF Tokens
            <4> QED BY <1>1, <4>1, <4>2
        <3> QED BY <2>2, <3>1, <3>2 DEF AfterWideComment
    <2> QED BY <1>2, <2>1, <2>2 DEF Placed
<1> QED BY <1>9, <1>10, <1>11 DEF Placed, near

\* Passing a comment byte by byte keeps a position placed, unless the comment
\* leaves a wide character behind on the line it ends on.
LEMMA PlacedByBytes ==
    ASSUME Source, tokens \in Seq(Tokens), NEW a \in 1 .. Len(src) + 1, NEW b \in a .. Len(src) + 1,
           NEW pos, Placed(pos, a)
    PROVE  /\ Bump(pos, a, b) \in Positions
           /\ Bump(pos, a, b).line = TruePosition(b).line
           /\ \/ Placed(Bump(pos, a, b), b)
              \/ \E k \in a .. b - 1 : k > LastBreak(1, b) /\ src[k] \in Wide
<1> DEFINE new == Bump(pos, a, b)
           l == LastBreak(a, b)
           here == Cardinality(WideFrom(a, b))
           there == Cardinality(WideFrom(l + 1, b))
<1>1. pos \in Positions /\ pos.line = TruePosition(a).line
    BY DEF Placed
<1>2. /\ new \in Positions /\ new.line = pos.line + Cardinality(Breaks(a, b))
      /\ new.col = IF l = 0 THEN pos.col + (b - a) + here ELSE b - l + there
    BY <1>1, BumpIs
<1>3. /\ TruePosition(b).line = TruePosition(a).line + Cardinality(Breaks(a, b))
      /\ TruePosition(b).col = IF l = 0 THEN TruePosition(a).col + (b - a) ELSE b - l
    BY TrueFurther
<1> HIDE DEF new
<1>4. new.line = TruePosition(b).line
    BY <1>1, <1>2, <1>3
<1>5. CASE \E k \in a .. b - 1 : k > LastBreak(1, b) /\ src[k] \in Wide
    BY <1>2, <1>4, <1>5 DEF new
<1>6. CASE ~\E k \in a .. b - 1 : k > LastBreak(1, b) /\ src[k] \in Wide
    <2>1. /\ Len(src) \in Nat /\ a \in Int /\ b \in Int /\ a >= 1 /\ a <= b /\ 1 \in 1 .. Len(src) + 1
        BY Reading
    <2>2. /\ l \in Int /\ l >= 0 /\ (l # 0 => l \in a .. b - 1)
          /\ LastBreak(1, b) = IF l = 0 THEN LastBreak(1, a) ELSE l
        BY BreakIs, BreakJoin
    <2>3. LastBreak(1, a) \in Int /\ LastBreak(1, a) < a
        <3>1. LastBreak(1, a) \in Int /\ (LastBreak(1, a) # 0 => LastBreak(1, a) \in 1 .. a - 1)
            BY <2>1, BreakIs
        <3> QED BY <2>1, <3>1
    <2>4. CASE l = 0
        <3>1. WideFrom(a, b) = {}
            BY <1>6, <2>1, <2>2, <2>3, <2>4 DEF WideFrom
        <3>2. here = 0
            BY <2>1, <3>1, WideCount
        <3>3. pos.col \in Int
            BY <1>1 DEF Positions
        <3>4. new.col = pos.col + (b - a)
            BY <1>2, <2>1, <2>4, <3>2, <3>3
        <3>5. CASE AfterWideComment(a)
            <4>1. AfterWideComment(b)
                BY <2>4, <3>5, AfterFurther
            <4> QED BY <1>2, <1>4, <4>1 DEF Placed, new
        <3>6. CASE pos.col = TruePosition(a).col
            <4>1. new.col = TruePosition(b).col
                BY <1>3, <2>4, <3>4, <3>6
            <4> QED BY <1>2, <1>4, <4>1 DEF Placed, new
        <3> QED BY <3>5, <3>6 DEF Placed
    <2>5. CASE l # 0
        <3>1. WideFrom(l + 1, b) = {}
            BY <1>6, <2>1, <2>2, <2>5 DEF WideFrom
        <3>2. l + 1 \in Int
            BY <2>2
        <3>3. there = 0
            BY <2>1, <3>1, <3>2, WideCount
        <3>4. new.col = TruePosition(b).col
            BY <1>2, <1>3, <2>1, <2>2, <2>5, <3>3
        <3> QED BY <1>2, <1>4, <3>4 DEF Placed, new
    <2> QED BY <2>4, <2>5
<1> QED BY <1>5, <1>6

-----------------------------------------------------------------------------
(***************************************************************************)
(* The inductive invariant: the tokens tile what has been read, the next   *)
(* character is the one after the last token, and the position the lexer   *)
(* keeps is placed there.  TokensInPlace alone says nothing of where the   *)
(* next token will start or of the position it will be given.              *)
(***************************************************************************)
Complained == [what : Complaints, at : 1 .. Len(src) + 1, pos : Positions]

TypeOK ==
    /\ Source
    /\ at \in 1 .. Len(src) + 1
    /\ tokens \in Seq(Tokens)
    /\ errors \in Seq(Complained)
    /\ ended \in BOOLEAN

\* Where the first n tokens end.
After(n) == IF n = 0 THEN 1 ELSE tokens[n].to

Tiled ==
    /\ \A n \in 1 .. Len(tokens) :
          /\ tokens[n].kind # "END" => tokens[n].from < tokens[n].to
          /\ After(n - 1) <= tokens[n].from
          /\ \A k \in After(n - 1) .. tokens[n].from - 1 : src[k] \in Blanks
    /\ at = After(Len(tokens))
    /\ Behind(at)
    /\ ended => at = Len(src) + 1

LexerInv ==
    /\ TypeOK
    /\ Tiled
    /\ Placed([line |-> line, col |-> col], at)
    /\ TrueColumns

\* A position that is told: the true one, or one after a wide comment.
Told(pos, i) == AfterWideComment(i) \/ pos = TruePosition(i)

\* Where a break or an index is does not change, and no comment is taken back.
LEMMA Stays ==
    ASSUME tokens \in Seq(Tokens), src' = src, NEW t, tokens' = Append(tokens, t), NEW i
    PROVE  /\ LastBreak(1, i)' = LastBreak(1, i)
           /\ TruePosition(i)' = TruePosition(i)
           /\ AfterWideComment(i) => AfterWideComment(i)'
<1>1. LastBreak(1, i)' = LastBreak(1, i)
    BY DEF LastBreak
<1>2. TruePosition(i)' = TruePosition(i)
    BY <1>1 DEF TruePosition
<1>3. ASSUME AfterWideComment(i)
      PROVE  AfterWideComment(i)'
    <2>1. PICK n \in 1 .. Len(tokens) :
              /\ tokens[n].kind = "COMMENT" /\ tokens[n].to <= i
              /\ \E k \in tokens[n].from .. tokens[n].to - 1 : k > LastBreak(1, i) /\ src[k] \in Wide
        BY <1>3 DEF AfterWideComment
    <2>2. n \in 1 .. Len(tokens') /\ tokens'[n] = tokens[n]
        OBVIOUS
    <2>3. /\ tokens'[n].kind = "COMMENT" /\ tokens'[n].to <= i
          /\ \E k \in tokens'[n].from .. tokens'[n].to - 1 : k > LastBreak(1, i)' /\ src'[k] \in Wide
        BY <1>1, <2>1, <2>2
    <2> QED BY <2>2, <2>3 DEF AfterWideComment, Wide
<1> QED BY <1>1, <1>2, <1>3

LEMMA ToldStays ==
    ASSUME tokens \in Seq(Tokens), src' = src, NEW t, tokens' = Append(tokens, t), NEW pos, NEW i
    PROVE  /\ Told(pos, i) => Told(pos, i)'
           /\ Placed(pos, i) => Placed(pos, i)'
BY Stays DEF Told, Placed, Positions

\* Where the next token starts.
LEMMA NextToken ==
    ASSUME LexerInv
    PROVE  /\ First \in at .. Len(src) + 1 /\ First \in 1 .. Len(src) + 1
           /\ \A k \in at .. First - 1 : src[k] \in Blanks
           /\ At(First) # End => First \in 1 .. Len(src)
           /\ Placed(Begin, First)
<1>1. Source /\ at \in 1 .. Len(src) + 1 /\ tokens \in Seq(Tokens) /\ Placed([line |-> line, col |-> col], at)
    BY DEF LexerInv, TypeOK
<1>2. First \in at .. Len(src) + 1 /\ \A k \in at .. First - 1 : At(k) \in Blanks
    BY <1>1, Run, NotEnd DEF First
<1>3. Len(src) \in Nat /\ at \in Int /\ at >= 1 /\ First \in Int /\ First \in 1 .. Len(src) + 1
    BY <1>1, <1>2, Reading
<1>4. \A k \in at .. First - 1 : src[k] \in Blanks
    <2> TAKE k \in at .. First - 1
    <2>1. k \in Int /\ k \in 1 .. Len(src)
        BY <1>2, <1>3
    <2>2. At(k) = src[k]
        BY <1>1, <2>1, Reading
    <2> QED BY <1>2, <2>2
<1>5. At(First) # End => First \in 1 .. Len(src)
    BY <1>1, <1>3, Reading
<1>6. Placed(Begin, First)
    BY <1>1, <1>2, PlacedFurther DEF Begin
<1> QED BY <1>2, <1>3, <1>4, <1>5, <1>6

\* One more token that tiles and is told, and the state it leaves.
LEMMA TokenStep ==
    ASSUME LexerInv, src' = src, NEW t \in Tokens, tokens' = Append(tokens, t),
           at' = t.to, line' = t.end.line, col' = t.end.col, ended' \in BOOLEAN,
           at <= t.from, t.from <= t.to, t.kind # "END" => t.from < t.to,
           \A k \in at .. t.from - 1 : src[k] \in Blanks,
           ended' => t.to = Len(src) + 1,
           Told(t.begin, t.from), Placed(t.end, t.to)',
           NEW errs \in Seq(Complained), errors' = errors \o errs,
           \A n \in 1 .. Len(errs) : Told(errs[n].pos, errs[n].at)
    PROVE  LexerInv'
<1>0. PICK last : last = Len(tokens) + 1
    OBVIOUS
<1>1. /\ Source /\ Len(src) \in Nat /\ at \in 1 .. Len(src) + 1
      /\ tokens \in Seq(Tokens) /\ errors \in Seq(Complained)
    BY Reading DEF LexerInv, TypeOK
<1>2. t.to \in 1 .. Len(src) + 1 /\ t.from \in 1 .. Len(src) + 1 /\ t.end \in Positions
    BY DEF Tokens
<1>3. /\ tokens' \in Seq(Tokens) /\ Len(tokens') = last /\ tokens'[last] = t
      /\ \A n \in 1 .. last - 1 : tokens'[n] = tokens[n]
      /\ last \in Nat /\ last >= 1 /\ Len(tokens) = last - 1
    BY <1>0, <1>1
<1>4. /\ errors' \in Seq(Complained) /\ Len(errors') = Len(errors) + Len(errs)
      /\ \A n \in 1 .. Len(errors') : errors'[n] = IF n <= Len(errors) THEN errors[n] ELSE errs[n - Len(errors)]
    BY <1>1
<1>5. TypeOK'
    <2>1. Tokens' = Tokens /\ Complained' = Complained
        BY DEF Tokens, Complained, Positions, Kinds, Complaints
    <2> QED BY <1>1, <1>2, <1>3, <1>4, <2>1 DEF TypeOK, Source
<1>6. /\ \A n \in 0 .. last - 1 : After(n)' = After(n)
      /\ After(last)' = t.to /\ After(last - 1) = at
    <2>1. ASSUME NEW n \in 0 .. last - 1
          PROVE  After(n)' = After(n)
        <3>1. CASE n = 0
            BY <3>1 DEF After
        <3>2. CASE n # 0
            <4>1. n \in 1 .. last - 1
                BY <1>3, <3>2
            <4> QED BY <1>3, <3>2, <4>1 DEF After
        <3> QED BY <3>1, <3>2
    <2>2. After(last)' = t.to
        BY <1>3 DEF After
    <2>3. After(last - 1) = at
        BY <1>3 DEF LexerInv, Tiled
    <2> QED BY <2>1, <2>2, <2>3
<1>7. Tiled'
    <2>1. ASSUME NEW n \in 1 .. last
          PROVE  /\ tokens'[n].kind # "END" => tokens'[n].from < tokens'[n].to
                 /\ After(n - 1)' <= tokens'[n].from
                 /\ \A k \in After(n - 1)' .. tokens'[n].from - 1 : src[k] \in Blanks
        <3>1. CASE n = last
            BY <1>3, <1>6, <3>1
        <3>2. CASE n # last
            <4>1. n \in 1 .. last - 1 /\ n - 1 \in 0 .. last - 1 /\ n \in 1 .. Len(tokens)
                BY <1>3, <3>2
            <4> QED BY <1>3, <1>6, <4>1 DEF LexerInv, Tiled
        <3> QED BY <3>1, <3>2
    <2>2. at' = After(last)'
        BY <1>6
    <2>3. \A n \in 1 .. last : tokens'[n].to <= at'
        <3> TAKE n \in 1 .. last
        <3>1. CASE n = last
            BY <1>2, <1>3, <3>1
        <3>2. CASE n # last
            <4>1. n \in 1 .. last - 1 /\ n \in 1 .. Len(tokens) /\ tokens[n] \in Tokens
                BY <1>1, <1>3, <3>2
            <4>2. tokens[n].to <= at /\ tokens[n].to \in Int
                BY <1>1, <4>1 DEF LexerInv, Tiled, Behind, Tokens
            <4> QED BY <1>1, <1>2, <1>3, <4>1, <4>2
        <3> QED BY <3>1, <3>2
    <2>4. Blanks' = Blanks
        BY DEF Blanks
    <2>5. Behind(at)'
        BY <1>3, <2>3 DEF Behind
    <2>6. (ended => at = Len(src) + 1)'
        OBVIOUS
    <2>7. (at = After(Len(tokens)))'
        BY <1>3, <2>2
    <2>8. (\A n \in 1 .. Len(tokens) :
              /\ tokens[n].kind # "END" => tokens[n].from < tokens[n].to
              /\ After(n - 1) <= tokens[n].from
              /\ \A k \in After(n - 1) .. tokens[n].from - 1 : src[k] \in Blanks)'
        BY <1>3, <2>1, <2>4
    <2> QED BY <2>5, <2>6, <2>7, <2>8 DEF Tiled
<1>8. Placed([line |-> line, col |-> col], at)'
    <2>1. t.end = [line |-> t.end.line, col |-> t.end.col]
        BY <1>2 DEF Positions
    <2> QED BY <2>1
<1>9. ASSUME NEW n \in 1 .. last
      PROVE  Told(tokens[n].begin, tokens[n].from)' /\ Told(tokens[n].end, tokens[n].to)'
    <2>1. CASE n = last
        <3>1. Told(t.begin, t.from)'
            BY <1>1, ToldStays
        <3>2. Told(t.end, t.to)'
            <4>1. TruePosition(t.to)' = TruePosition(t.to) /\ TruePosition(t.to) \in Positions
                BY <1>1, <1>2, Stays, TruePositionIs
            <4>2. CASE AfterWideComment(t.to)'
                BY <4>2 DEF Told
            <4>3. CASE ~AfterWideComment(t.to)'
                <5>1. t.end.line = TruePosition(t.to).line /\ t.end.col = TruePosition(t.to).col
                    BY <4>1, <4>3 DEF Placed
                <5>2. t.end = TruePosition(t.to)
                    BY <1>2, <4>1, <5>1, SamePosition
                <5> QED BY <4>1, <5>2 DEF Told
            <4> QED BY <4>2, <4>3
        <3> QED BY <1>3, <2>1, <3>1, <3>2 DEF Told
    <2>2. CASE n # last
        <3>1. n \in 1 .. Len(tokens) /\ tokens'[n] = tokens[n]
            BY <1>3, <2>2
        <3>2. Told(tokens[n].begin, tokens[n].from) /\ Told(tokens[n].end, tokens[n].to)
            BY <3>1 DEF LexerInv, TrueColumns, Told
        <3>3. PICK b, f, e, u : b = tokens[n].begin /\ f = tokens[n].from /\ e = tokens[n].end /\ u = tokens[n].to
            OBVIOUS
        <3>4. Told(b, f)' /\ Told(e, u)'
            BY <1>1, <3>2, <3>3, ToldStays
        <3>5. tokens'[n].begin = b /\ tokens'[n].from = f /\ tokens'[n].end = e /\ tokens'[n].to = u
            BY <3>1, <3>3
        <3> QED BY <3>4, <3>5 DEF Told
    <2> QED BY <2>1, <2>2
<1>10. ASSUME NEW n \in 1 .. Len(errors')
       PROVE  Told(errors[n].pos, errors[n].at)'
    <2>1. PICK e : e = errors'[n] /\ Told(e.pos, e.at)
        <3>1. CASE n <= Len(errors)
            <4>1. n \in 1 .. Len(errors) /\ errors'[n] = errors[n]
                BY <1>1, <1>4, <3>1
            <4> QED BY <4>1 DEF LexerInv, TrueColumns, Told
        <3>2. CASE n > Len(errors)
            <4>1. n - Len(errors) \in 1 .. Len(errs) /\ errors'[n] = errs[n - Len(errors)]
                BY <1>1, <1>4, <3>2
            <4> QED BY <4>1
        <3> QED BY <1>1, <3>1, <3>2
    <2>2. Told(e.pos, e.at)'
        BY <1>1, <2>1, ToldStays
    <2> QED BY <2>1, <2>2 DEF Told
<1>11. TrueColumns'
    BY <1>3, <1>9, <1>10 DEF TrueColumns, Told
<1> QED BY <1>5, <1>7, <1>8, <1>11 DEF LexerInv

\* What a sound scan is made of, with the errors placed where they were found.
LEMMA EmitStep ==
    ASSUME LexerInv, At(First) # End, NEW s, Sound(s, First), NEW end \in Positions, Emit(s, end),
           \/ Placed(end, s.to)
           \/ /\ s.kind = "COMMENT" /\ end.line = TruePosition(s.to).line
              /\ \E k \in First .. s.to - 1 : k > LastBreak(1, s.to) /\ src[k] \in Wide
    PROVE  LexerInv' /\ at < at'
<1> DEFINE errs == [n \in 1 .. Len(s.errors) |->
                       [what |-> s.errors[n].what, at |-> s.errors[n].at,
                        pos |-> BumpChar(Begin, First, s.errors[n].at)]]
<1>1. PICK first, t : first = First /\ t = Token(s, end)
    OBVIOUS
<1>2. /\ Source /\ tokens \in Seq(Tokens) /\ at \in 1 .. Len(src) + 1 /\ Len(src) \in Nat
      /\ first \in 1 .. Len(src) /\ first \in at .. Len(src) + 1 /\ first \in 1 .. Len(src) + 1
      /\ \A k \in at .. first - 1 : src[k] \in Blanks
      /\ Placed(Begin, first)
    BY <1>1, NextToken, Reading DEF LexerInv, TypeOK
<1>3. s \in [kind : Kinds, to : first + 1 .. Len(src) + 1, ate : first + 1 .. Len(src) + 1,
             errors : Seq(Found(first))]
    BY <1>1 DEF Sound
<1>4. s.kind \in Kinds /\ s.to \in first + 1 .. Len(src) + 1 /\ s.errors \in Seq(Found(first))
    BY <1>3
<1>5. Begin \in Positions
    BY <1>2 DEF Placed
<1>6. /\ t.kind = s.kind /\ t.from = first /\ t.to = s.to /\ t.begin = Begin /\ t.end = end
      /\ t \in Tokens
    BY <1>1, <1>2, <1>4, <1>5 DEF Token, Tokens
<1>7. /\ tokens' = Append(tokens, t) /\ errors' = errors \o errs /\ src' = src
      /\ at' = s.to /\ line' = end.line /\ col' = end.col /\ ended' = FALSE
    BY <1>1 DEF Emit, LexerInv, TypeOK
<1>8. ASSUME NEW n \in 1 .. Len(s.errors)
      PROVE  /\ errs[n] \in Complained
             /\ Told(errs[n].pos, errs[n].at)
    <2>1. PICK what, where : what = s.errors[n].what /\ where = s.errors[n].at
        OBVIOUS
    <2>2. s.errors[n] \in Found(first)
        BY <1>4
    <2>3. what \in Complaints /\ where \in first .. Len(src) + 1
        BY <2>1, <2>2 DEF Found
    <2>4. errs[n] = [what |-> what, at |-> where, pos |-> BumpChar(Begin, first, where)]
        BY <1>1, <2>1
    <2>5. Placed(BumpChar(Begin, first, where), where)
        BY <1>2, <2>3, PlacedFurther
    <2>6. where \in 1 .. Len(src) + 1 /\ BumpChar(Begin, first, where) \in Positions
        BY <1>2, <2>3, <2>5 DEF Placed
    <2>7. Told(BumpChar(Begin, first, where), where)
        BY <1>2, <2>5, <2>6, PlacedIsTrue DEF Told
    <2> HIDE DEF errs
    <2> QED BY <2>3, <2>4, <2>6, <2>7 DEF Complained
<1>9. errs \in Seq(Complained) /\ Len(errs) = Len(s.errors)
    <2>1. PICK m \in Nat : m = Len(s.errors)
        BY <1>4
    <2>2. DOMAIN errs = 1 .. m /\ errs = [n \in 1 .. m |-> errs[n]]
        BY <2>1
    <2>3. \A n \in 1 .. m : errs[n] \in Complained
        BY <1>8, <2>1
    <2> HIDE DEF errs
    <2>4. errs \in [1 .. m -> Complained]
        BY <2>2, <2>3
    <2> QED BY <2>1, <2>2, <2>4
<1>10. Told(Begin, first)
    BY <1>2, PlacedIsTrue DEF Told
<1> HIDE DEF errs
<1>11. Placed(end, s.to)'
    <2>1. PICK to : to = s.to
        OBVIOUS
    <2>2. CASE Placed(end, to)
        BY <1>2, <1>7, <2>1, <2>2, ToldStays
    <2>3. CASE ~Placed(end, to)
        <3>1. /\ LastBreak(1, to)' = LastBreak(1, to) /\ TruePosition(to)' = TruePosition(to)
            BY <1>2, <1>7, Stays
        <3>2. PICK k \in first .. to - 1 : k > LastBreak(1, to) /\ src[k] \in Wide
            BY <1>1, <2>1, <2>3
        <3>3. Len(tokens) + 1 \in 1 .. Len(tokens') /\ tokens'[Len(tokens) + 1] = t
            BY <1>2, <1>7
        <3>4. AfterWideComment(to)'
            <4>1. PICK n \in 1 .. Len(tokens') : tokens'[n] = t
                BY <3>3
            <4>2. /\ tokens'[n].kind = "COMMENT" /\ tokens'[n].to = to /\ tokens'[n].from = first
                BY <1>6, <2>1, <2>3, <4>1
            <4>3. to <= to
                BY <1>4, <2>1
            <4> QED BY <3>1, <3>2, <4>2, <4>3, <1>7 DEF AfterWideComment, Wide
        <3>5. end.line = TruePosition(to)'.line
            BY <2>1, <2>3, <3>1
        <3> QED BY <2>1, <3>4, <3>5 DEF Placed, Positions
    <2> QED BY <2>2, <2>3
<1>12. /\ at' = t.to /\ line' = t.end.line /\ col' = t.end.col
       /\ ended' \in BOOLEAN /\ (ended' => t.to = Len(src) + 1)
       /\ at <= t.from /\ t.from <= t.to /\ (t.kind # "END" => t.from < t.to)
       /\ \A k \in at .. t.from - 1 : src[k] \in Blanks
    <2>1. at' = t.to /\ line' = t.end.line /\ col' = t.end.col
        BY <1>6, <1>7
    <2>2. at <= first /\ first <= s.to /\ first < s.to
        BY <1>2, <1>4
    <2> QED BY <1>2, <1>6, <1>7, <2>1, <2>2
<1>13. Placed(t.end, t.to)' /\ Told(t.begin, t.from)
    BY <1>6, <1>10, <1>11
<1>14. \A n \in 1 .. Len(errs) : Told(errs[n].pos, errs[n].at)
    BY <1>8, <1>9
<1>15. at < at'
    BY <1>2, <1>4, <1>7
<1> QED BY <1>6, <1>7, <1>9, <1>12, <1>13, <1>14, <1>15, TokenStep

LEMMA ReadStep ==
    ASSUME LexerInv, At(First) # End, NEW s, Sound(s, First), Read(s)
    PROVE  LexerInv' /\ at < at'
<1>1. /\ Source /\ tokens \in Seq(Tokens) /\ at \in 1 .. Len(src) + 1 /\ Len(src) \in Nat /\ Behind(at)
      /\ First \in 1 .. Len(src) + 1 /\ First \in at .. Len(src) + 1 /\ Placed(Begin, First)
    BY NextToken, Reading DEF LexerInv, TypeOK, Tiled
<1>2. PICK first : first = First
    OBVIOUS
<1>3. /\ s \in [kind : Kinds, to : first + 1 .. Len(src) + 1, ate : first + 1 .. Len(src) + 1,
                errors : Seq(Found(first))]
      /\ s.to <= s.ate
      /\ \A k \in s.to .. s.ate - 1 : src[k] # NL
    BY <1>2 DEF Sound
<1>4. s.to \in first .. Len(src) + 1 /\ s.ate \in s.to .. Len(src) + 1
    <2>1. s.to \in first + 1 .. Len(src) + 1 /\ s.ate \in first + 1 .. Len(src) + 1
        BY <1>3
    <2> QED BY <1>1, <1>2, <1>3, <2>1
<1>5. Behind(first)
    <2> SUFFICES ASSUME NEW n \in 1 .. Len(tokens) PROVE tokens[n].to <= first
        BY DEF Behind
    <2>1. tokens[n] \in Tokens /\ tokens[n].to <= at
        BY <1>1 DEF Behind
    <2>2. tokens[n].to \in Int
        BY <1>1, <2>1 DEF Tokens
    <2> QED BY <1>1, <1>2, <2>1, <2>2
<1>6. Placed(RolledBack(Begin, first, s.ate, s.to), s.to)
    BY <1>1, <1>2, <1>3, <1>4, <1>5, PlacedBack
<1>7. RolledBack(Begin, first, s.ate, s.to) \in Positions
    BY <1>6 DEF Placed
<1>8. Emit(s, RolledBack(Begin, first, s.ate, s.to))
    BY <1>2 DEF Read
<1> QED BY <1>6, <1>7, <1>8, EmitStep

LEMMA ReadBytesStep ==
    ASSUME LexerInv, At(First) # End, NEW s, Sound(s, First), s.kind = "COMMENT", ReadBytes(s)
    PROVE  LexerInv' /\ at < at'
<1> DEFINE end == Bump(Begin, First, s.to)
<1>1. /\ Source /\ tokens \in Seq(Tokens) /\ Len(src) \in Nat
      /\ First \in 1 .. Len(src) + 1 /\ Placed(Begin, First)
    BY NextToken, Reading DEF LexerInv, TypeOK
<1>2. s.to \in First .. Len(src) + 1
    <2>1. s.to \in First + 1 .. Len(src) + 1
        BY DEF Sound
    <2> QED BY <1>1, <2>1
<1>3. /\ end \in Positions /\ end.line = TruePosition(s.to).line
      /\ \/ Placed(end, s.to)
         \/ \E k \in First .. s.to - 1 : k > LastBreak(1, s.to) /\ src[k] \in Wide
    BY <1>1, <1>2, PlacedByBytes
<1>4. Emit(s, end)
    BY DEF ReadBytes
<1> HIDE DEF end
<1> QED BY <1>3, <1>4, EmitStep

-----------------------------------------------------------------------------
(***************************************************************************)
(* The invariant holds at the start and through every call of next_token.  *)
(***************************************************************************)
LEMMA StartInv == Init => LexerInv
<1> SUFFICES ASSUME Init PROVE LexerInv
    OBVIOUS
<1>1. /\ Source /\ Len(src) \in Nat /\ at = 1 /\ line = 1 /\ col = 1
      /\ tokens = << >> /\ errors = << >> /\ ended = FALSE
    BY Reading DEF Init, Start, Source
<1>2. at \in 1 .. Len(src) + 1
    BY <1>1
<1>3. TypeOK
    <2>1. << >> \in Seq(Tokens) /\ << >> \in Seq(Complained)
        BY EmptySeq
    <2> QED BY <1>1, <1>2, <2>1 DEF TypeOK
<1>4. Tiled
    BY <1>1 DEF Tiled, After, Behind
<1>5. TrueColumns
    BY <1>1 DEF TrueColumns
<1>6. Placed([line |-> line, col |-> col], at)
    <2>1. LastBreak(1, 1) = 0
        BY <1>1, <1>2, BreakIs
    <2>2. Breaks(1, 1) = {}
        BY DEF Breaks
    <2>3. Cardinality(Breaks(1, 1)) = 0
        BY <2>2, FS_EmptySet
    <2>4. TruePosition(1).line = 1 /\ TruePosition(1).col = 1
        BY <1>1, <1>2, <2>1, <2>3, TruePositionIs
    <2> QED BY <1>1, <2>4 DEF Placed, Positions
<1> QED BY <1>3, <1>4, <1>5, <1>6 DEF LexerInv

LEMMA EndStep ==
    ASSUME LexerInv, EndOfSource
    PROVE  LexerInv'
<1>1. PICK first, begin : first = First /\ begin = Begin
    OBVIOUS
<1>2. /\ Source /\ Len(src) \in Nat /\ at \in 1 .. Len(src) + 1 /\ tokens \in Seq(Tokens)
      /\ errors \in Seq(Complained)
      /\ first \in at .. Len(src) + 1 /\ first \in 1 .. Len(src) + 1
      /\ \A k \in at .. first - 1 : src[k] \in Blanks
      /\ Placed(begin, first) /\ begin \in Positions
    BY <1>1, NextToken, Reading DEF LexerInv, TypeOK, Placed
<1>3. first = Len(src) + 1
    <2>1. first \notin 1 .. Len(src)
        BY <1>1, <1>2, Reading DEF EndOfSource
    <2> QED BY <1>2, <2>1
<1>4. PICK t : t = Token(Scan("END", First, << >>), Begin)
    OBVIOUS
<1>5. /\ t.kind = "END" /\ t.from = first /\ t.to = first /\ t.begin = begin /\ t.end = begin
      /\ t \in Tokens
    BY <1>1, <1>2, <1>4, Names DEF Token, Scan, Tokens
<1>6. /\ src' = src /\ tokens' = Append(tokens, t) /\ at' = first /\ ended' = TRUE
      /\ line' = begin.line /\ col' = begin.col /\ errors' = errors
    BY <1>1, <1>4 DEF EndOfSource
<1>7. errors' = errors \o << >> /\ << >> \in Seq(Complained) /\ Len(<< >>) = 0
    BY <1>2, <1>6
<1>8. Told(t.begin, t.from)
    BY <1>2, <1>5, PlacedIsTrue DEF Told
<1>9. Placed(begin, first)'
    BY <1>2, <1>6, ToldStays
<1>10. Placed(t.end, t.to)'
    BY <1>5, <1>9
<1>11. at <= t.from /\ t.from <= t.to
    BY <1>2, <1>5
<1>12. \A k \in at .. t.from - 1 : src[k] \in Blanks
    BY <1>2, <1>5
<1>13. at' = t.to /\ line' = t.end.line /\ col' = t.end.col /\ t.to = Len(src) + 1
    BY <1>3, <1>5, <1>6
<1>14. PICK errs : errs = << >>
    OBVIOUS
<1>15. errs \in Seq(Complained) /\ errors' = errors \o errs /\ \A n \in 1 .. Len(errs) : Told(errs[n].pos, errs[n].at)
    BY <1>7, <1>14
<1> QED BY <1>5, <1>6, <1>8, <1>10, <1>11, <1>12, <1>13, <1>15, TokenStep

LEMMA LexerStep ==
    ASSUME LexerInv, [Next]_vars
    PROVE  LexerInv' /\ (at < at' \/ ended' \/ UNCHANGED vars)
<1>1. Source /\ (At(First) # End => First \in 1 .. Len(src))
    BY NextToken DEF LexerInv, TypeOK
<1>2. CASE NewLine
    <2>1. At(First) # End /\ First \in 1 .. Len(src) /\ Len(src) \in Nat
        BY <1>1, <1>2, NotEnd, Reading DEF NewLine
    <2>2. First \in Int /\ First + 1 \in First + 1 .. Len(src) + 1 /\ << >> \in Seq(Found(First))
        BY <2>1, Errors
    <2>3. Sound(Scan("NL", First + 1, << >>), First)
        BY <1>1, <2>2, Names, ScanIsSound
    <2> QED BY <1>2, <2>1, <2>3, ReadStep DEF NewLine
<1>3. CASE Number
    <2>1. At(First) # End
        BY <1>3, NotEnd DEF Number, DottedNumber, End
    <2>2. Sound(ScanNumber(First), First)
        BY <1>1, <1>3, <2>1, NumberScan DEF Number, DottedNumber
    <2> QED BY <1>3, <2>1, <2>2, ReadStep DEF Number
<1>4. CASE RuneOrString
    <2>1. At(First) # End
        BY <1>4, NotEnd DEF RuneOrString, Prefixed, End
    <2>2. Sound(ScanRuneOrString(First), First)
        BY <1>1, <1>4, <2>1, RuneOrStringScan DEF RuneOrString, Prefixed
    <2> QED BY <1>4, <2>1, <2>2, ReadStep DEF RuneOrString
<1>5. CASE Identifier
    <2>1. At(First) # End
        BY <1>5, NotEnd DEF Identifier
    <2>2. Sound(ScanIdentifier(First), First)
        BY <1>1, <2>1, IdentifierScan
    <2> QED BY <1>5, <2>1, <2>2, ReadStep DEF Identifier
<1>6. CASE Backquoted
    <2>1. At(First) # End
        BY <1>6, NotEnd DEF Backquoted
    <2>2. Sound(ScanBackquoted(First), First)
        BY <1>1, <2>1, BackquotedScan
    <2> QED BY <1>6, <2>1, <2>2, ReadStep DEF Backquoted
<1>7. CASE Hash
    <2>1. At(First) # End /\ At(First) = "#"
        BY <1>7 DEF Hash, End
    <2>2. Sound(ScanHash(First), First)
        BY <1>1, <2>1, HashScan
    <2> QED BY <1>7, <2>1, <2>2, ReadStep DEF Hash
<1>8. CASE LineComment
    <2>1. At(First) # End /\ At(First) = "/"
        BY <1>8 DEF LineComment, End
    <2>2. Sound(ScanLineComment(First), First) /\ ScanLineComment(First).kind = "COMMENT"
        BY <1>1, <2>1, LineCommentScan
    <2> QED BY <1>8, <2>1, <2>2, ReadBytesStep DEF LineComment
<1>9. CASE BlockComment
    <2>1. At(First) # End /\ At(First + 1) = "*"
        BY <1>9 DEF BlockComment, End
    <2>2. Sound(ScanBlockComment(First), First) /\ ScanBlockComment(First).kind = "COMMENT"
        BY <1>1, <2>1, BlockCommentScan
    <2> QED BY <1>9, <2>1, <2>2, ReadBytesStep DEF BlockComment
<1>10. CASE Symbol
    <2>1. At(First) # End
        BY <1>10 DEF Symbol
    <2>2. Sound(ScanSymbol(First), First)
        BY <1>1, <2>1, SymbolScan
    <2> QED BY <1>10, <2>1, <2>2, ReadStep DEF Symbol
<1>11. CASE EndOfSource
    BY <1>11, EndStep DEF EndOfSource
<1>12. CASE UNCHANGED vars
    <2>1. /\ src' = src /\ tokens' = tokens /\ errors' = errors /\ at' = at
          /\ line' = line /\ col' = col /\ ended' = ended
        BY <1>12 DEF vars
    <2>2. TypeOK'
        <3>1. Tokens' = Tokens /\ Complained' = Complained
            BY <2>1 DEF Tokens, Complained, Positions, Kinds, Complaints
        <3> QED BY <2>1, <3>1 DEF LexerInv, TypeOK, Source
    <2>3. Tiled'
        BY <2>1 DEF LexerInv, Tiled, After, Behind, Blanks
    <2>4. \A i : LastBreak(1, i)' = LastBreak(1, i)
        BY <2>1 DEF LastBreak
    <2>5. \A i : TruePosition(i)' = TruePosition(i)
        BY <2>1, <2>4 DEF TruePosition
    <2>6. \A i : AfterWideComment(i)' <=> AfterWideComment(i)
        BY <2>1, <2>4 DEF AfterWideComment, Wide
    <2>7. Placed([line |-> line, col |-> col], at)'
        BY <2>1, <2>5, <2>6 DEF LexerInv, Placed, Positions
    <2>8. TrueColumns'
        BY <2>1, <2>5, <2>6 DEF LexerInv, TrueColumns
    <2> QED BY <1>12, <2>2, <2>3, <2>7, <2>8 DEF LexerInv
<1> QED BY <1>2, <1>3, <1>4, <1>5, <1>6, <1>7, <1>8, <1>9, <1>10, <1>11, <1>12 DEF Next

\* The invariant behind the theorems below: next_token keeps the tokens end to
\* end and its own cursor, line and column those of the character it is at.
THEOREM Invariance == Spec => []LexerInv
<1>1. Init => LexerInv
    BY StartInv
<1>2. LexerInv /\ [Next]_vars => LexerInv'
    BY LexerStep
<1> QED BY <1>1, <1>2, PTL DEF Spec

\* Type correctness: whatever the source, what the lexer keeps and hands on is
\* in the source, with lines and columns from 1 on.
THEOREM TypeCorrect == Spec => []TypeOK
<1>1. LexerInv => TypeOK
    BY DEF LexerInv
<1> QED BY <1>1, Invariance, PTL

\* Lexer::tokenize loses no character and tells the place of each token and
\* each error: it holds of every source, however malformed.
THEOREM TokensTileTheSource == Spec => []TokensInPlace
<1>1. LexerInv => TokensInPlace
    <2> SUFFICES ASSUME LexerInv PROVE TokensInPlace
        OBVIOUS
    <2>1. ended => After(Len(tokens)) = Len(src) + 1
        BY DEF LexerInv, Tiled
    <2>2. TrueColumns /\ Tiled
        BY DEF LexerInv
    <2> QED BY <2>1, <2>2 DEF TokensInPlace, Tiled, After
<1> QED BY <1>1, Invariance, PTL

\* Every call of next_token takes a character or is the last one, so that the
\* loop of tokenize ends ("never return without bumping"); it is not called
\* after the end, and what it has handed out stays.
THEOREM CallsAdvance ==
    Spec => [][/\ at < at' \/ ended'
               /\ ~ended
               /\ src' = src
               /\ \E t : tokens' = Append(tokens, t)]_vars
<1> DEFINE Advances == /\ at < at' \/ ended'
                       /\ ~ended
                       /\ src' = src
                       /\ \E t : tokens' = Append(tokens, t)
<1>1. LexerInv /\ [Next]_vars => [Advances]_vars
    <2> SUFFICES ASSUME LexerInv, Next, ~UNCHANGED vars PROVE Advances
        OBVIOUS
    <2>1. at < at' \/ ended'
        BY LexerStep
    <2>2. ASSUME NEW s, NEW end, Emit(s, end)
          PROVE  ~ended /\ src' = src /\ \E t : tokens' = Append(tokens, t)
        BY <2>2 DEF Emit
    <2>3. EndOfSource => ~ended /\ src' = src /\ \E t : tokens' = Append(tokens, t)
        BY DEF EndOfSource
    <2>4. ~ended /\ src' = src /\ \E t : tokens' = Append(tokens, t)
        BY <2>2, <2>3 DEF Next, NewLine, Number, RuneOrString, Identifier, Backquoted, Hash, LineComment,
                          BlockComment, Symbol, Read, ReadBytes
    <2> QED BY <2>1, <2>4
<1> QED BY <1>1, Invariance, PTL DEF Spec
=============================================================================
