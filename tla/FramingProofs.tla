---------------------------- MODULE FramingProofs ----------------------------
(***************************************************************************)
(* The loop of main serves the messages of correct frames in the order     *)
(* they were sent, whatever the frames and their number, the size of the   *)
(* bodies and the cap.                                                     *)
(*                                                                         *)
(* What is left of stdin is the end of the frames that were sent.  A       *)
(* layout says where: f[k] is the index in stdin of the first symbol of    *)
(* frame k, zero or less when it has been read, and the last of f is the   *)
(* index of the frame that comes next.  Reading moves all of it down.      *)
(***************************************************************************)
EXTENDS Framing, SequenceTheorems, WellFoundedInduction, TLAPS

Symbols == Bodies \cup Fields \cup {EOL}

Sent(k) == Frame(sent[k].shape, sent[k].body)
HeaderOf(k) == Header(sent[k].shape)
Next1 == Len(sent) + 1

Layout(f) ==
    /\ f \in [1 .. Next1 -> Int]
    /\ f[1] <= 1 /\ f[Next1] = Len(stdin) + 1
    /\ \A i, j \in 1 .. Next1 : i < j => f[i] < f[j]
    /\ \A k \in 1 .. Len(sent) :
          /\ f[k + 1] = f[k] + Len(Sent(k))
          /\ \A i \in 1 .. Len(Sent(k)) : f[k] + i - 1 >= 1 => stdin[f[k] + i - 1] = Sent(k)[i]

\* The body of frame k has been read, as a body or in another way.
Past(f, k) == f[k] + Len(HeaderOf(k)) + BodySize <= 1

Places(f) == {places \in [DOMAIN served -> DOMAIN sent] :
    /\ \A i, j \in DOMAIN served : i < j => places[i] < places[j]
    /\ \A i \in DOMAIN served : /\ served[i] = sent[places[i]].body
                               /\ Past(f, places[i])}

\* Of the correct frames at the beginning, those that have been read are served.
InStep(f) ==
    \A k \in SoundFrames :
        /\ exitCode = Running => (k <= Len(served) <=> Past(f, k))
        /\ k <= Len(served) => served[k] = sent[k].body

\* What read_message knows at symbol o of a correct frame.
InFrame(k, o) ==
    LET h == Len(HeaderOf(k))
    IN  \/ /\ o \in 2 .. h /\ HeaderOf(k)[o - 1] = EOL /\ ~inBody
           /\ len = IF o = h THEN BodySize ELSE NoLength
        \/ o = h + 1 /\ inBody /\ len = BodySize
        \/ o = h + BodySize + 1 /\ ~inBody /\ len = NoLength

Between(f, k) == (\A j \in 1 .. k - 1 : Sound(sent[j])) /\ f[k] = 1

Reading(f) ==
    exitCode = Running =>
        /\ \A k \in 1 .. Next1 : Between(f, k) => ~inBody /\ len = NoLength
        /\ \A k \in SoundFrames : f[k] < 1 /\ 1 < f[k + 1] => InFrame(k, 2 - f[k])

StreamInv == \E f : Layout(f) /\ Places(f) # {} /\ InStep(f) /\ Reading(f)

FramingInv == TypeOK /\ StreamInv

-----------------------------------------------------------------------------
(* Frames. *)

LEMMA Least ==
    ASSUME NEW S \in SUBSET Nat, S # {}
    PROVE  \E a \in S : \A b \in S : a <= b
<1>1. PICK a \in S : \A b \in S : ~ (<<b, a>> \in OpToRel(<, Nat))
    BY NatLessThanWellFounded, WFMin
<1>2. \A b \in S : a <= b
    <2> TAKE b \in S
    <2>1. a \in Nat /\ b \in Nat
        OBVIOUS
    <2>2. ~(b < a)
        BY <1>1, <2>1 DEF OpToRel
    <2> QED BY <2>1, <2>2
<1> QED BY <1>2

LEMMA Numbers ==
    /\ BodySize \in Nat /\ BodySize >= 1 /\ BodySize <= MaxFrame /\ MaxFrame \in Nat
    /\ Running \notin Nat /\ NoLength \notin Nat
    /\ Length(BodySize) \in Lengths
BY FramingAssumption DEF Lengths

LEMMA Kinds ==
    /\ \A x \in Fields : x # EOL /\ x \notin Bodies
    /\ EOL \notin Bodies
    /\ OtherField \in Fields /\ BadLength \in Fields /\ Lengths \subseteq Fields
    /\ OtherField # BadLength /\ OtherField \notin Lengths /\ BadLength \notin Lengths
BY FramingAssumption DEF Fields

LEMMA HeaderShape ==
    ASSUME NEW shape
    PROVE  /\ \E a, b \in Fields : Header(shape) \in {<<a, EOL, EOL>>, <<EOL, a, EOL, EOL>>,
                                                      <<a, EOL, b, EOL, EOL>>}
           /\ shape \in SoundShapes =>
                LET sized == Length(BodySize)
                IN  Header(shape) \in {<<sized, EOL, EOL>>, <<EOL, sized, EOL, EOL>>,
                                       <<OtherField, EOL, sized, EOL, EOL>>,
                                       <<BadLength, EOL, sized, EOL, EOL>>}
<1>1. /\ Length(BodySize) \in Fields /\ Length(BodySize - 1) \in Fields
      /\ Length(BodySize + 1) \in Fields /\ Length(MaxFrame + 1) \in Fields
      /\ Length(0) \in Fields
    <2>1. \A n \in 0 .. MaxFrame + 1 : Length(n) \in Fields
        BY DEF Lengths, Fields
    <2>2. /\ BodySize \in 0 .. MaxFrame + 1 /\ BodySize - 1 \in 0 .. MaxFrame + 1
          /\ BodySize + 1 \in 0 .. MaxFrame + 1 /\ MaxFrame + 1 \in 0 .. MaxFrame + 1
          /\ 0 \in 0 .. MaxFrame + 1
        BY Numbers
    <2> QED BY <2>1, <2>2
<1>2. shape \in SoundShapes =>
          Header(shape) \in {<<Length(BodySize), EOL, EOL>>, <<EOL, Length(BodySize), EOL, EOL>>,
                             <<OtherField, EOL, Length(BodySize), EOL, EOL>>,
                             <<BadLength, EOL, Length(BodySize), EOL, EOL>>}
    BY Zenon DEF Header, SoundShapes
<1>3. Header(shape) \in {<<Length(BodySize), EOL, EOL>>, <<EOL, Length(BodySize), EOL, EOL>>,
                         <<OtherField, EOL, Length(BodySize), EOL, EOL>>,
                         <<BadLength, EOL, Length(BodySize), EOL, EOL>>, <<BadLength, EOL, EOL>>,
                         <<Length(BodySize - 1), EOL, EOL>>, <<Length(BodySize + 1), EOL, EOL>>,
                         <<Length(MaxFrame + 1), EOL, EOL>>, <<Length(0), EOL, EOL>>}
    BY Zenon DEF Header
<1> QED BY <1>1, <1>2, <1>3, Kinds

\* A header ends with a line break after a line break, holds nothing that a
\* body holds, and one of a correct frame has lines of at most one field.
LEMMA HeaderFacts ==
    ASSUME NEW shape
    PROVE  LET header == Header(shape)
               h == Len(header)
           IN  /\ header \in Seq(Fields \cup {EOL}) /\ h \in 3 .. 5
               /\ \A i \in 1 .. h : header[i] \in Fields \cup {EOL} /\ header[i] \notin Bodies
               /\ header[h] = EOL
               /\ shape \in SoundShapes =>
                    \A o \in 1 .. h - 1 :
                        o = 1 \/ header[o - 1] = EOL =>
                            \/ header[o] = EOL /\ o + 1 < h
                            \/ /\ header[o] # EOL /\ header[o + 1] = EOL /\ o + 2 <= h
                               /\ header[o] = IF o + 2 = h THEN Length(BodySize) ELSE header[o]
                               /\ o + 2 # h => header[o] \in {OtherField, BadLength}
<1> DEFINE header == Header(shape)
           h == Len(header)
<1>1. PICK a \in Fields, b \in Fields :
          header \in {<<a, EOL, EOL>>, <<EOL, a, EOL, EOL>>, <<a, EOL, b, EOL, EOL>>}
    BY HeaderShape
<1>2. shape \in SoundShapes =>
          header \in {<<Length(BodySize), EOL, EOL>>, <<EOL, Length(BodySize), EOL, EOL>>,
                      <<OtherField, EOL, Length(BodySize), EOL, EOL>>,
                      <<BadLength, EOL, Length(BodySize), EOL, EOL>>}
    BY HeaderShape
<1> HIDE DEF header
<1>3. header \in Seq(Fields \cup {EOL}) /\ h \in 3 .. 5 /\ header[h] = EOL
    <2> DEFINE S == Fields \cup {EOL}
    <2>1. a \in S /\ b \in S /\ EOL \in S
        OBVIOUS
    <2> HIDE DEF S
    <2>2. CASE header = <<a, EOL, EOL>>
        <3>1. <<a, EOL, EOL>> \in Seq(S) /\ Len(<<a, EOL, EOL>>) = 3
            BY <2>1
        <3> QED BY <2>2, <3>1 DEF S
    <2>3. CASE header = <<EOL, a, EOL, EOL>>
        <3>1. <<EOL, a, EOL, EOL>> \in Seq(S) /\ Len(<<EOL, a, EOL, EOL>>) = 4
            BY <2>1
        <3> QED BY <2>3, <3>1 DEF S
    <2>4. CASE header = <<a, EOL, b, EOL, EOL>>
        <3>1. <<a, EOL, b, EOL, EOL>> \in Seq(S) /\ Len(<<a, EOL, b, EOL, EOL>>) = 5
            BY <2>1
        <3> QED BY <2>4, <3>1 DEF S
    <2> QED BY <1>1, <2>2, <2>3, <2>4
<1>4. \A i \in 1 .. h : header[i] \in Fields \cup {EOL}
    BY <1>3, ElementOfSeq
<1>5. \A i \in 1 .. h : header[i] \notin Bodies
    BY <1>4, Kinds
<1>6. ASSUME shape \in SoundShapes, NEW o \in 1 .. h - 1, o = 1 \/ header[o - 1] = EOL
      PROVE  \/ header[o] = EOL /\ o + 1 < h
             \/ /\ header[o] # EOL /\ header[o + 1] = EOL /\ o + 2 <= h
                /\ o + 2 = h => header[o] = Length(BodySize)
                /\ o + 2 # h => header[o] \in {OtherField, BadLength}
    <2> DEFINE sized == Length(BodySize)
    <2>1. sized # EOL /\ OtherField # EOL /\ BadLength # EOL
        BY Kinds, Numbers
    <2> HIDE DEF sized
    <2>2. CASE header = <<sized, EOL, EOL>>
        BY <1>6, <2>1, <2>2 DEF sized
    <2>3. CASE header = <<EOL, sized, EOL, EOL>>
        BY <1>6, <2>1, <2>3 DEF sized
    <2>4. CASE \E x \in {OtherField, BadLength} : header = <<x, EOL, sized, EOL, EOL>>
        BY <1>6, <2>1, <2>4 DEF sized
    <2> QED BY <1>2, <1>6, <2>2, <2>3, <2>4 DEF sized
<1> QED BY <1>3, <1>4, <1>5, <1>6 DEF header

\* A frame: its header, then its body, then perhaps a line break.
LEMMA FrameFacts ==
    ASSUME NEW shape, NEW body \in Bodies
    PROVE  LET frame == Frame(shape, body)
               header == Header(shape)
               h == Len(header)
           IN  /\ frame \in Seq(Symbols) /\ Len(frame) >= h /\ Len(frame) \in Nat
               /\ \A i \in 1 .. h : frame[i] = header[i]
               /\ \A i \in 1 .. Len(frame) : i > h + BodySize => i = h + BodySize + 1 /\ frame[i] = EOL
               /\ \A i \in 1 .. Len(frame) : h < i /\ i <= h + BodySize =>
                      frame[i] = body \/ frame[i] = EOL
               /\ shape # "empty" =>
                      /\ Len(frame) \in {h + BodySize, h + BodySize + 1}
                      /\ \A i \in h + 1 .. h + BodySize : frame[i] = body
               /\ Len(frame) \in {h, h + BodySize, h + BodySize + 1}
<1> DEFINE header == Header(shape)
           h == Len(header)
           middle == IF shape = "empty" THEN << >> ELSE BodyOf(body)
           rest == IF shape = "blankAfter" THEN <<EOL>> ELSE << >>
           frame == (header \o middle) \o rest
<1>1. header \in Seq(Symbols) /\ h \in 3 .. 5
    <2>1. header \in Seq(Fields \cup {EOL}) /\ h \in 3 .. 5
        BY HeaderFacts
    <2> QED BY <2>1 DEF Symbols
<1>2. middle \in Seq(Symbols) /\ (shape = "empty" => Len(middle) = 0)
      /\ (shape # "empty" => Len(middle) = BodySize /\ \A i \in 1 .. BodySize : middle[i] = body)
    <2>1. BodyOf(body) \in [1 .. BodySize -> Symbols]
        BY DEF BodyOf, Symbols
    <2>2. BodyOf(body) \in Seq(Symbols)
        BY <2>1, Numbers
    <2>3. Len(BodyOf(body)) = BodySize
        BY <2>1, <2>2, Numbers, LenProperties
    <2>4. \A i \in 1 .. BodySize : BodyOf(body)[i] = body
        BY DEF BodyOf
    <2>5. CASE shape = "empty"
        <3>1. middle = << >>
            BY <2>5
        <3> QED BY <2>5, <3>1
    <2>6. CASE shape # "empty"
        <3>1. middle = BodyOf(body)
            BY <2>6
        <3> QED BY <2>2, <2>3, <2>4, <2>6, <3>1
    <2> QED BY <2>5, <2>6
<1>3. rest \in Seq(Symbols) /\ Len(rest) \in {0, 1} /\ (Len(rest) = 1 => rest[1] = EOL)
      /\ (Len(rest) = 1 => shape # "empty")
    <2>1. EOL \in Symbols
        BY DEF Symbols
    <2>2. CASE shape = "blankAfter"
        <3>1. rest = <<EOL>> /\ shape # "empty"
            BY <2>2
        <3>2. <<EOL>> \in Seq(Symbols) /\ Len(<<EOL>>) = 1 /\ <<EOL>>[1] = EOL
            BY <2>1
        <3> QED BY <3>1, <3>2
    <2>3. CASE shape # "blankAfter"
        <3>1. rest = << >>
            BY <2>3
        <3> QED BY <3>1
    <2> QED BY <2>2, <2>3
<1> HIDE DEF header, middle, rest
<1>4. /\ header \o middle \in Seq(Symbols) /\ Len(header \o middle) = h + Len(middle)
      /\ \A i \in 1 .. h + Len(middle) :
            (header \o middle)[i] = IF i <= h THEN header[i] ELSE middle[i - h]
    BY <1>1, <1>2, ConcatProperties
<1>5. /\ frame \in Seq(Symbols) /\ Len(frame) = h + Len(middle) + Len(rest)
      /\ \A i \in 1 .. h + Len(middle) + Len(rest) :
            frame[i] = IF i <= h + Len(middle) THEN (header \o middle)[i] ELSE rest[i - (h + Len(middle))]
    BY <1>3, <1>4, ConcatProperties
<1>6. Len(middle) \in {0, BodySize} /\ BodySize \in Nat /\ BodySize >= 1
    BY <1>2, Numbers
<1> HIDE DEF frame, h
<1>0. h \in Nat /\ Len(middle) \in Nat /\ Len(rest) \in Nat
    BY <1>1, <1>3, <1>6
<1>7. \A i \in 1 .. h : frame[i] = header[i]
    BY <1>1, <1>3, <1>4, <1>5, <1>6
<1>8. \A i \in 1 .. Len(frame) : i > h + Len(middle) => i = h + Len(middle) + 1 /\ frame[i] = EOL
    BY <1>0, <1>3, <1>5
<1>9. ASSUME shape # "empty"
      PROVE  /\ Len(middle) = BodySize /\ Len(frame) \in {h + BodySize, h + BodySize + 1}
             /\ \A i \in h + 1 .. h + BodySize : frame[i] = body
    <2>1. Len(middle) = BodySize /\ \A i \in 1 .. BodySize : middle[i] = body
        BY <1>2, <1>9
    <2>2. Len(frame) = h + BodySize + Len(rest)
        BY <1>5, <2>1
    <2>3. Len(frame) \in {h + BodySize, h + BodySize + 1}
        <3>1. PICK n \in {0, 1} : Len(rest) = n
            BY <1>3
        <3>2. h + BodySize + 0 = h + BodySize
            BY <1>0, <1>6
        <3> QED BY <2>2, <3>1, <3>2
    <2>4. ASSUME NEW i \in h + 1 .. h + BodySize
          PROVE  frame[i] = body
        <3>1. /\ i \in 1 .. h + Len(middle) + Len(rest) /\ i \in 1 .. h + Len(middle)
              /\ i <= h + Len(middle) /\ ~(i <= h) /\ i - h \in 1 .. BodySize
            BY <1>0, <1>6, <2>1
        <3>2. frame[i] = (header \o middle)[i]
            BY <1>5, <3>1
        <3>3. (header \o middle)[i] = middle[i - h]
            BY <1>4, <3>1
        <3> QED BY <2>1, <3>1, <3>2, <3>3
    <2> QED BY <2>1, <2>3, <2>4
<1>10. shape = "empty" => Len(frame) = h
    BY <1>1, <1>2, <1>3, <1>5
<1>12. frame = Frame(shape, body)
    BY DEF frame, header, middle, rest, Frame
<1>13. frame \in Seq(Symbols) /\ h \in 3 .. 5 /\ BodySize \in Nat
    BY <1>1, <1>5, <1>6
<1>14. /\ Len(frame) >= h /\ Len(frame) \in Nat
       /\ \A i \in 1 .. Len(frame) : i > h + BodySize => i = h + BodySize + 1 /\ frame[i] = EOL
       /\ \A i \in 1 .. Len(frame) : h < i /\ i <= h + BodySize => frame[i] = body \/ frame[i] = EOL
       /\ Len(frame) \in {h, h + BodySize, h + BodySize + 1}
    <2>1. CASE shape = "empty"
        BY <2>1, <1>10, <1>13, Numbers
    <2>2. CASE shape # "empty"
        <3> QED BY <2>2, <1>8, <1>9, <1>13
    <2> QED BY <2>1, <2>2
<1> QED BY <1>7, <1>9, <1>12, <1>13, <1>14 DEF h, header
-----------------------------------------------------------------------------
(* Reading from stdin. *)

LEMMA TailFacts ==
    ASSUME NEW T, NEW s \in Seq(T), NEW r \in 0 .. Len(s)
    PROVE  LET tail == SubSeq(s, r + 1, Len(s))
           IN  /\ tail \in Seq(T) /\ Len(tail) = Len(s) - r
               /\ \A i \in 1 .. Len(s) - r : tail[i] = s[r + i]
<1>1. Len(s) \in Nat
    BY LenProperties
<1>2. \A i \in r + 1 .. Len(s) : s[i] \in T
    <2>1. \A i \in r + 1 .. Len(s) : i \in 1 .. Len(s)
        BY <1>1
    <2> QED BY <2>1, ElementOfSeq
<1> QED BY <1>1, <1>2, SubSeqProperties

\* A line that is read takes at least one symbol of what is there.
LEMMA LineFacts ==
    ASSUME TypeOK, CanReadLine
    PROVE  /\ \E r \in 1 .. Len(stdin) : AfterLine = SubSeq(stdin, r + 1, Len(stdin))
           /\ Line \in Seq(Symbols)
           /\ stdin[1] = EOL =>
                  Line = << >> /\ AfterLine = SubSeq(stdin, 2, Len(stdin))
           /\ stdin[1] # EOL /\ 2 <= Len(stdin) /\ stdin[2] = EOL =>
                  /\ Line # << >> /\ Line[1] = stdin[1]
                  /\ AfterLine = SubSeq(stdin, 3, Len(stdin))
<1>1. /\ stdin \in Seq(Symbols) /\ Len(stdin) \in Nat /\ DOMAIN stdin = 1 .. Len(stdin)
    BY LenProperties DEF TypeOK, Symbols
<1>2. stdin # << >> /\ Len(stdin) >= 1
    <2>1. stdin # << >>
        <3>1. CASE Breaks # {}
            BY <3>1, <1>1 DEF Breaks
        <3>2. CASE Breaks = {}
            BY <3>2 DEF CanReadLine
        <3> QED BY <3>1, <3>2
    <2> QED BY <2>1, <1>1, EmptySeq
<1>3. CASE Breaks = {}
    <2>1. AfterLine = << >> /\ Line = stdin
        BY <1>3 DEF AfterLine, Line
    <2>2. SubSeq(stdin, Len(stdin) + 1, Len(stdin)) = << >>
        <3>1. Len(stdin) \in 0 .. Len(stdin) /\ Len(stdin) - Len(stdin) = 0
            BY <1>1
        <3>2. /\ SubSeq(stdin, Len(stdin) + 1, Len(stdin)) \in Seq(Symbols)
              /\ Len(SubSeq(stdin, Len(stdin) + 1, Len(stdin))) = 0
            BY <1>1, <3>1, TailFacts
        <3> QED BY <3>2, EmptySeq
    <2>3. stdin[1] # EOL /\ (2 <= Len(stdin) => stdin[2] # EOL)
        <3>1. 1 \in DOMAIN stdin /\ (2 <= Len(stdin) => 2 \in DOMAIN stdin)
            BY <1>1, <1>2
        <3> QED BY <3>1, <1>3 DEF Breaks
    <2>4. Len(stdin) \in 1 .. Len(stdin)
        BY <1>1, <1>2
    <2> QED BY <1>1, <2>1, <2>2, <2>3, <2>4
<1>4. CASE Breaks # {}
    <2>1. Breaks \in SUBSET Nat /\ Breaks \subseteq 1 .. Len(stdin)
        BY <1>1 DEF Breaks
    <2>2. \E i \in Breaks : \A j \in Breaks : i <= j
        BY <1>4, <2>1, Least
    <2>3. LineEnd \in Breaks /\ \A j \in Breaks : LineEnd <= j
        BY <2>2 DEF LineEnd
    <2>4. /\ Line = SubSeq(stdin, 1, LineEnd - 1)
          /\ AfterLine = SubSeq(stdin, LineEnd + 1, Len(stdin))
        BY <1>4 DEF Line, AfterLine
    <2>5. LineEnd \in 1 .. Len(stdin) /\ stdin[LineEnd] = EOL
        BY <2>1, <2>3 DEF Breaks
    <2> HIDE DEF LineEnd
    <2>6. PICK e \in 1 .. Len(stdin) : e = LineEnd
        BY <2>5
    <2>7. /\ SubSeq(stdin, 1, e - 1) \in Seq(Symbols) /\ Len(SubSeq(stdin, 1, e - 1)) = e - 1
          /\ \A i \in 1 .. e - 1 : SubSeq(stdin, 1, e - 1)[i] = stdin[i]
        <3>1. e - 1 \in Nat /\ 1 \in Nat /\ \A i \in 1 .. e - 1 : i \in 1 .. Len(stdin)
            BY <1>1
        <3>2. \A i \in 1 .. e - 1 : stdin[i] \in Symbols
            BY <1>1, <3>1, ElementOfSeq
        <3> QED BY <1>1, <3>1, <3>2, SubSeqProperties
    <2>8. ASSUME stdin[1] = EOL
          PROVE  e = 1
        <3>1. 1 \in Breaks
            BY <1>1, <1>2, <2>8 DEF Breaks
        <3> QED BY <2>3, <2>6, <3>1
    <2>9. ASSUME stdin[1] # EOL, 2 <= Len(stdin), stdin[2] = EOL
          PROVE  e = 2
        <3>1. 2 \in Breaks
            BY <1>1, <2>9 DEF Breaks
        <3>2. e # 1
            BY <2>5, <2>6, <2>9
        <3> QED BY <2>3, <2>6, <3>1, <3>2
    <2>10. \A seq \in Seq(Symbols) : (Len(seq) = 0 => seq = << >>) /\ (Len(seq) = 1 => seq # << >>)
        BY EmptySeq
    <2>11. Line \in Seq(Symbols) /\ \E r \in 1 .. Len(stdin) : AfterLine = SubSeq(stdin, r + 1, Len(stdin))
        BY <2>4, <2>6, <2>7
    <2>12. ASSUME stdin[1] = EOL
           PROVE  Line = << >> /\ AfterLine = SubSeq(stdin, 2, Len(stdin))
        <3>1. e = 1 /\ 1 - 1 = 0 /\ 1 + 1 = 2
            BY <2>8, <2>12
        <3>2. Len(Line) = 0
            BY <2>4, <2>6, <2>7, <3>1
        <3> QED BY <2>4, <2>6, <2>10, <2>11, <3>1, <3>2
    <2>13. ASSUME stdin[1] # EOL, 2 <= Len(stdin), stdin[2] = EOL
           PROVE  /\ Line # << >> /\ Line[1] = stdin[1]
                  /\ AfterLine = SubSeq(stdin, 3, Len(stdin))
        <3>1. e = 2 /\ 2 - 1 = 1 /\ 2 + 1 = 3 /\ 1 \in 1 .. 1
            BY <2>9, <2>13
        <3>2. Len(Line) = 1 /\ Line[1] = stdin[1]
            BY <2>4, <2>6, <2>7, <3>1
        <3> QED BY <2>4, <2>6, <2>10, <2>11, <3>1, <3>2
    <2> QED BY <2>11, <2>12, <2>13
<1> QED BY <1>3, <1>4

\* A body that is served is one message and has the size of a body.
LEMMA ServeFacts ==
    ASSUME TypeOK, NEW message \in Messages, Serve(message)
    PROVE  /\ len = BodySize /\ BodySize <= Len(stdin) /\ inBody /\ exitCode = Running
           /\ \A i \in 1 .. BodySize : stdin[i] = message
           /\ stdin' = SubSeq(stdin, BodySize + 1, Len(stdin))
<1>1. /\ inBody /\ exitCode = Running /\ len \in Nat /\ len <= Len(stdin)
      /\ SubSeq(stdin, 1, len) = BodyOf(message)
      /\ stdin' = SubSeq(stdin, len + 1, Len(stdin))
    BY DEF TypeOK, Serve, CanReadBody, Body
<1>2. stdin \in Seq(Symbols) /\ Len(stdin) \in Nat
    BY LenProperties DEF TypeOK, Symbols
<1>3. /\ SubSeq(stdin, 1, len) \in Seq(Symbols) /\ Len(SubSeq(stdin, 1, len)) = len
      /\ \A i \in 1 .. len : SubSeq(stdin, 1, len)[i] = stdin[i]
    <2>1. 1 \in Nat /\ \A i \in 1 .. len : i \in 1 .. Len(stdin)
        BY <1>1, <1>2
    <2>2. \A i \in 1 .. len : stdin[i] \in Symbols
        BY <1>2, <2>1, ElementOfSeq
    <2> QED BY <1>1, <1>2, <2>1, <2>2, SubSeqProperties
<1>4. 1 .. len = 1 .. BodySize
    <2>1. DOMAIN BodyOf(message) = 1 .. BodySize
        BY DEF BodyOf
    <2>2. DOMAIN SubSeq(stdin, 1, len) = 1 .. len
        BY <1>3, LenProperties
    <2> QED BY <1>1, <2>1, <2>2
<1>5. len = BodySize
    <2> USE Numbers
    <2>1. BodySize \in 1 .. BodySize /\ (len >= 1 => len \in 1 .. len)
        BY <1>1
    <2>2. BodySize \in 1 .. len
        BY <1>4, <2>1
    <2>3. len \in 1 .. BodySize
        BY <1>1, <1>4, <2>1, <2>2
    <2> QED BY <2>2, <2>3
<1>6. \A i \in 1 .. BodySize : stdin[i] = message
    BY <1>1, <1>3, <1>5 DEF BodyOf
<1> QED BY <1>1, <1>5, <1>6

\* Every step that reads takes symbols from the front of stdin.
LEMMA StepReads ==
    ASSUME TypeOK, HeaderLine \/ BodyRefused \/ (\E message \in Messages : Serve(message))
    PROVE  \E r \in 0 .. Len(stdin) : stdin' = SubSeq(stdin, r + 1, Len(stdin))
<1>0. stdin \in Seq(Symbols) /\ Len(stdin) \in Nat
    BY LenProperties DEF TypeOK, Symbols
<1>1. CASE HeaderLine
    <2>1. CanReadLine /\ stdin' = AfterLine
        BY <1>1 DEF HeaderLine
    <2>2. PICK r \in 1 .. Len(stdin) : AfterLine = SubSeq(stdin, r + 1, Len(stdin))
        BY <2>1, LineFacts
    <2>3. r \in 0 .. Len(stdin)
        BY <1>0
    <2> QED BY <2>1, <2>2, <2>3
<1>2. CASE BodyRefused
    <2>1. stdin' = SubSeq(stdin, len + 1, Len(stdin)) /\ len \in Nat /\ len <= Len(stdin)
        BY <1>2 DEF TypeOK, BodyRefused, CanReadBody
    <2>2. len \in 0 .. Len(stdin)
        BY <1>0, <2>1
    <2> QED BY <2>1, <2>2
<1>3. ASSUME NEW message \in Messages, Serve(message)
      PROVE  \E r \in 0 .. Len(stdin) : stdin' = SubSeq(stdin, r + 1, Len(stdin))
    <2>1. BodySize <= Len(stdin) /\ stdin' = SubSeq(stdin, BodySize + 1, Len(stdin))
        BY <1>3, ServeFacts
    <2>2. BodySize \in 0 .. Len(stdin)
        BY <1>0, <2>1, Numbers
    <2> QED BY <2>1, <2>2
<1> QED BY <1>1, <1>2, <1>3
-----------------------------------------------------------------------------
(* Types. *)

LEMMA InitType == Init => TypeOK
<1>1. \A S : << >> \in Seq(S)
    OBVIOUS
<1> QED BY <1>1 DEF Init, TypeOK

LEMMA ClientType ==
    ASSUME TypeOK, NEW shape \in Shapes, NEW body \in Bodies, Write(shape, body)
    PROVE  TypeOK'
<1>1. Frame(shape, body) \in Seq(Symbols)
    BY FrameFacts
<1>2. stdin' \in Seq(Symbols)
    BY <1>1, ConcatProperties DEF TypeOK, Write, Symbols
<1> QED BY <1>2 DEF TypeOK, Write, reading, Symbols

LEMMA ServerType == TypeOK /\ ServerNext => TypeOK'
<1> SUFFICES ASSUME TypeOK, ServerNext
             PROVE  TypeOK'
    OBVIOUS
<1>1. stdin' \in Seq(Symbols)
    <2>1. stdin \in Seq(Symbols)
        BY DEF TypeOK, Symbols
    <2>2. CASE HeaderLine \/ BodyRefused \/ \E message \in Messages : Serve(message)
        <3>1. PICK r \in 0 .. Len(stdin) : stdin' = SubSeq(stdin, r + 1, Len(stdin))
            BY <2>2, StepReads
        <3> QED BY <2>1, <3>1, TailFacts
    <2>3. CASE EndOfInput \/ BodyMissing
        BY <2>1, <2>3 DEF EndOfInput, BodyMissing
    <2> QED BY <2>2, <2>3 DEF ServerNext
<1>2. CASE HeaderLine
    <2>1. len' \in Nat \cup {NoLength}
        <3>1. \A field \in Lengths : field[2] \in Nat
            BY Numbers DEF Lengths, Length
        <3> QED BY <1>2, <3>1 DEF HeaderLine, TypeOK
    <2>2. inBody' \in BOOLEAN /\ (inBody' => len' # NoLength)
        <3>1. CASE inBody' = (len # NoLength) /\ len' = len
            BY <3>1
        <3>2. CASE inBody' = inBody
            <4>1. ~inBody /\ inBody \in BOOLEAN
                BY <1>2 DEF HeaderLine, CanReadLine, TypeOK
            <4> QED BY <3>2, <4>1
        <3> QED BY <1>2, <3>1, <3>2 DEF HeaderLine
    <2>3. UNCHANGED <<closed, shutdownReceived, exitCode, stdout, sent, served>>
        BY <1>2 DEF HeaderLine
    <2> QED BY <1>1, <2>1, <2>2, <2>3 DEF TypeOK, Symbols
<1>3. CASE EndOfInput \/ BodyMissing \/ BodyRefused
    BY <1>1, <1>3 DEF EndOfInput, BodyMissing, BodyRefused, Stop, reading, TypeOK, Symbols
<1>4. ASSUME NEW message \in Messages, Serve(message)
      PROVE  TypeOK'
    <2>1. /\ served' \in Seq(Messages) /\ stdout' \in Seq(Messages)
        BY <1>4, AppendProperties DEF Serve, TypeOK
    <2>2. /\ len' \in Nat \cup {NoLength} /\ inBody' = FALSE /\ exitCode' \in {Running, 0, 1}
          /\ shutdownReceived' \in BOOLEAN /\ UNCHANGED <<closed, sent>>
        BY <1>4 DEF Serve, TypeOK
    <2> QED BY <1>1, <2>1, <2>2 DEF TypeOK, Symbols
<1> QED BY <1>2, <1>3, <1>4 DEF ServerNext

LEMMA NextType == TypeOK /\ [Next]_vars => TypeOK'
<1> SUFFICES ASSUME TypeOK, [Next]_vars
             PROVE  TypeOK'
    OBVIOUS
<1>1. CASE ServerNext
    BY <1>1, ServerType
<1>2. ASSUME NEW shape \in Shapes, NEW body \in Bodies, Write(shape, body)
      PROVE  TypeOK'
    BY <1>2, ClientType
<1>3. CASE Close
    BY <1>3 DEF Close, TypeOK, reading
<1>4. CASE UNCHANGED vars
    BY <1>4 DEF vars, reading, TypeOK
<1> QED BY <1>1, <1>2, <1>3, <1>4 DEF Next, ClientNext, Rest

(***************************************************************************)
(* Every variable keeps its type: a length is a number or not there, and   *)
(* is there when a body is awaited (read_message).                         *)
(***************************************************************************)
THEOREM TypeCorrect == Spec => []TypeOK
BY InitType, NextType, PTL DEF Spec
-----------------------------------------------------------------------------
(* Where the frames are. *)

LEMMA SentFacts ==
    ASSUME TypeOK
    PROVE  /\ Len(sent) \in Nat /\ Next1 \in Nat /\ DOMAIN sent = 1 .. Len(sent)
           /\ DOMAIN served = 1 .. Len(served) /\ Len(served) \in Nat
           /\ stdin \in Seq(Symbols) /\ Len(stdin) \in Nat
           /\ \A k \in 1 .. Len(sent) : sent[k].body \in Bodies /\ sent[k].shape \in Shapes
<1>1. \A k \in 1 .. Len(sent) : sent[k] \in [shape : Shapes, body : Bodies]
    BY ElementOfSeq DEF TypeOK
<1> QED BY <1>1, LenProperties DEF TypeOK, Symbols, Next1

LEMMA FrameOf ==
    ASSUME TypeOK, NEW k \in 1 .. Len(sent)
    PROVE  LET h == Len(HeaderOf(k))
           IN  /\ h \in 3 .. 5 /\ Len(Sent(k)) \in Nat /\ Len(Sent(k)) >= h
               /\ \A i \in 1 .. h : Sent(k)[i] = HeaderOf(k)[i] /\ Sent(k)[i] \notin Bodies
               /\ HeaderOf(k)[h] = EOL
               /\ \A i \in 1 .. Len(Sent(k)) : i > h + BodySize => i = h + BodySize + 1 /\ Sent(k)[i] = EOL
               /\ \A i \in 1 .. Len(Sent(k)) : h < i /\ i <= h + BodySize =>
                      Sent(k)[i] = sent[k].body \/ Sent(k)[i] = EOL
               /\ Len(Sent(k)) \in {h, h + BodySize, h + BodySize + 1}
               /\ sent[k].shape # "empty" =>
                      /\ Len(Sent(k)) \in {h + BodySize, h + BodySize + 1}
                      /\ \A i \in h + 1 .. h + BodySize : Sent(k)[i] = sent[k].body
<1>1. sent[k].body \in Bodies
    BY SentFacts
<1>2. \A i \in 1 .. Len(HeaderOf(k)) : HeaderOf(k)[i] \notin Bodies
    BY HeaderFacts DEF HeaderOf
<1>3. Len(HeaderOf(k)) \in 3 .. 5 /\ HeaderOf(k)[Len(HeaderOf(k))] = EOL
    BY HeaderFacts DEF HeaderOf
<1> QED BY <1>1, <1>2, <1>3, FrameFacts DEF Sent, HeaderOf

\* What is read moves the layout down and leaves the frames where they were.
LEMMA ReadLayout ==
    ASSUME TypeOK, NEW f, Layout(f), NEW r \in 0 .. Len(stdin),
           stdin' = SubSeq(stdin, r + 1, Len(stdin)), sent' = sent,
           NEW g, g = [k \in 1 .. Next1 |-> f[k] - r]
    PROVE  /\ Layout(g)' /\ g \in [1 .. Next1 -> Int]
           /\ \A k \in 1 .. Next1 : g[k] = f[k] - r /\ f[k] \in Int
           /\ \A k \in 1 .. Len(sent) : Past(f, k) => Past(g, k)'
<1>1. /\ f \in [1 .. Next1 -> Int] /\ f[1] <= 1 /\ f[Next1] = Len(stdin) + 1
      /\ \A i, j \in 1 .. Next1 : i < j => f[i] < f[j]
      /\ \A k \in 1 .. Len(sent) :
            /\ f[k + 1] = f[k] + Len(Sent(k))
            /\ \A i \in 1 .. Len(Sent(k)) : f[k] + i - 1 >= 1 => stdin[f[k] + i - 1] = Sent(k)[i]
    BY DEF Layout
<1>2. /\ Len(sent) \in Nat /\ Next1 = Len(sent) + 1 /\ Len(stdin) \in Nat /\ r \in Nat
      /\ stdin \in Seq(Symbols) /\ r <= Len(stdin)
    BY SentFacts DEF Next1
<1>3. /\ Len(stdin') = Len(stdin) - r
      /\ \A i \in 1 .. Len(stdin) - r : stdin'[i] = stdin[r + i]
    BY <1>2, TailFacts
<1>4. /\ Next1' = Next1 /\ \A k : Sent(k)' = Sent(k) /\ HeaderOf(k)' = HeaderOf(k)
    BY DEF Next1, Sent, HeaderOf
<1>5. g \in [1 .. Next1 -> Int] /\ \A k \in 1 .. Next1 : g[k] = f[k] - r /\ f[k] \in Int
    BY <1>1, <1>2
<1>6. 1 \in 1 .. Next1 /\ Next1 \in 1 .. Next1
      /\ \A k \in 1 .. Len(sent) : k \in 1 .. Next1 /\ k + 1 \in 1 .. Next1
    BY <1>2
<1>7. g[1] <= 1 /\ g[Next1] = Len(stdin') + 1
    BY <1>1, <1>2, <1>3, <1>5, <1>6
<1>8. \A i, j \in 1 .. Next1 : i < j => g[i] < g[j]
    BY <1>1, <1>2, <1>5
<1>9. ASSUME NEW k \in 1 .. Len(sent)
      PROVE  /\ g[k + 1] = g[k] + Len(Sent(k))
             /\ \A i \in 1 .. Len(Sent(k)) : g[k] + i - 1 >= 1 => stdin'[g[k] + i - 1] = Sent(k)[i]
    <2>0. /\ f[k] \in Int /\ f[k + 1] \in Int /\ g[k] = f[k] - r /\ g[k + 1] = f[k + 1] - r
          /\ Len(Sent(k)) \in Nat
        BY <1>5, <1>6, FrameOf
    <2>1. g[k + 1] = g[k] + Len(Sent(k))
        <3>1. f[k + 1] = f[k] + Len(Sent(k))
            BY <1>1
        <3>2. PICK n \in Nat : n = Len(Sent(k))
            BY <2>0
        <3>3. f[k + 1] - r = (f[k] - r) + n
            BY <1>2, <2>0, <3>1, <3>2
        <3> QED BY <2>0, <3>2, <3>3
    <2>2. ASSUME NEW i \in 1 .. Len(Sent(k)), g[k] + i - 1 >= 1
          PROVE  stdin'[g[k] + i - 1] = Sent(k)[i]
        <3>1. f[k] + i - 1 >= 1 /\ f[k] + i - 1 = r + (g[k] + i - 1)
            <4>1. PICK a \in Int : a = f[k]
                BY <2>0
            <4>2. PICK b \in Int : b = g[k]
                <5>1. f[k] - r \in Int
                    BY <1>2, <4>1
                <5> QED BY <2>0, <5>1
            <4>3. i \in Int /\ b = a - r /\ b + i - 1 >= 1
                BY <2>0, <2>2, <4>1, <4>2
            <4>4. a + i - 1 >= 1 /\ a + i - 1 = r + (b + i - 1)
                BY <1>2, <4>3
            <4> QED BY <4>1, <4>2, <4>4
        <3>2. f[k] + i - 1 <= Len(stdin)
            <4>1. f[k + 1] <= Len(stdin) + 1
                <5>1. k + 1 = Next1 \/ k + 1 < Next1
                    BY <1>2
                <5>2. k + 1 < Next1 => f[k + 1] < f[Next1]
                    BY <1>1, <1>6
                <5>3. f[k + 1] = f[Next1] \/ f[k + 1] < f[Next1]
                    BY <5>1, <5>2
                <5> QED BY <1>1, <1>2, <2>0, <5>3
            <4>2. f[k] + i <= f[k + 1]
                BY <1>1, <2>0
            <4> QED BY <1>2, <2>0, <4>1, <4>2
        <3>3. g[k] + i - 1 \in 1 .. Len(stdin) - r
            BY <1>2, <2>0, <2>2, <3>1, <3>2
        <3>4. stdin'[g[k] + i - 1] = stdin[f[k] + i - 1]
            BY <1>3, <3>1, <3>3
        <3> QED BY <1>1, <3>1, <3>4
    <2> QED BY <2>1, <2>2
<1>10. Layout(g)'
    <2>1. /\ g \in [1 .. Next1' -> Int] /\ g[1] <= 1 /\ g[Next1'] = Len(stdin') + 1
          /\ \A i, j \in 1 .. Next1' : i < j => g[i] < g[j]
        BY <1>4, <1>5, <1>7, <1>8
    <2>2. ASSUME NEW k \in 1 .. Len(sent')
          PROVE  /\ g[k + 1] = g[k] + Len(Sent(k)')
                 /\ \A i \in 1 .. Len(Sent(k)') :
                        g[k] + i - 1 >= 1 => stdin'[g[k] + i - 1] = Sent(k)'[i]
        BY <1>4, <1>9
    <2> QED BY <2>1, <2>2 DEF Layout
<1>11. ASSUME NEW k \in 1 .. Len(sent), Past(f, k)
       PROVE  Past(g, k)'
    <2>1. Len(HeaderOf(k)) \in Nat /\ f[k] \in Int /\ g[k] = f[k] - r
        BY <1>5, <1>6, FrameOf
    <2>2. f[k] + Len(HeaderOf(k)) + BodySize <= 1
        BY <1>11 DEF Past
    <2>3. g[k] + Len(HeaderOf(k)) + BodySize <= 1
        BY <1>2, <2>1, <2>2, Numbers
    <2> QED BY <1>4, <2>3 DEF Past
<1> QED BY <1>5, <1>10, <1>11

\* The frame that is being read.
LEMMA HeadFrame ==
    ASSUME TypeOK, NEW f, Layout(f), stdin # << >>
    PROVE  \E k \in 1 .. Len(sent) : f[k] <= 1 /\ 1 < f[k + 1]
<1>1. /\ f \in [1 .. Next1 -> Int] /\ f[1] <= 1 /\ f[Next1] = Len(stdin) + 1
      /\ Len(sent) \in Nat /\ Next1 = Len(sent) + 1 /\ Len(stdin) \in Nat
    BY SentFacts DEF Layout, Next1
<1>2. Len(stdin) >= 1
    BY <1>1, SentFacts, EmptySeq
<1> DEFINE ahead == {k \in 1 .. Next1 : f[k] > 1}
<1>3. ahead \in SUBSET Nat /\ Next1 \in ahead
    BY <1>1, <1>2
<1>4. PICK next \in ahead : \A j \in ahead : next <= j
    BY <1>3, Least
<1>5. next \in 2 .. Next1 /\ f[next] > 1
    BY <1>1, <1>4
<1>6. PICK k \in 1 .. Len(sent) : k + 1 = next
    <2>1. next - 1 \in 1 .. Len(sent) /\ (next - 1) + 1 = next
        BY <1>1, <1>5
    <2> QED BY <2>1
<1>7. k \in 1 .. Next1 /\ ~(next <= k)
    BY <1>1, <1>6
<1>8. k \notin ahead
    BY <1>4, <1>7
<1>9. f[k] <= 1
    BY <1>1, <1>7, <1>8
<1>10. 1 < f[k + 1]
    BY <1>1, <1>5, <1>6
<1> QED BY <1>9, <1>10

\* A symbol of it, and of the frame after it.
LEMMA HeadSymbols ==
    ASSUME TypeOK, NEW f, Layout(f), NEW k \in 1 .. Len(sent), f[k] <= 1, 1 < f[k + 1]
    PROVE  /\ f[k] \in Int /\ f[k + 1] = f[k] + Len(Sent(k)) /\ f[k + 1] \in Int
           /\ 2 - f[k] \in 1 .. Len(Sent(k))
           /\ \A o \in 2 - f[k] .. Len(Sent(k)) :
                 o - (2 - f[k]) + 1 \in 1 .. Len(stdin) /\ stdin[o - (2 - f[k]) + 1] = Sent(k)[o]
           /\ f[k + 1] <= Len(stdin) => stdin[f[k + 1]] \notin Bodies
           /\ f[k + 1] <= Len(stdin) + 1
<1>1. /\ f \in [1 .. Next1 -> Int] /\ f[Next1] = Len(stdin) + 1
      /\ \A i, j \in 1 .. Next1 : i < j => f[i] < f[j]
      /\ \A j \in 1 .. Len(sent) :
            /\ f[j + 1] = f[j] + Len(Sent(j))
            /\ \A i \in 1 .. Len(Sent(j)) : f[j] + i - 1 >= 1 => stdin[f[j] + i - 1] = Sent(j)[i]
    BY DEF Layout
<1>2. Len(sent) \in Nat /\ Next1 = Len(sent) + 1 /\ Len(stdin) \in Nat
    BY SentFacts DEF Next1
<1>3. /\ f[k] \in Int /\ f[k + 1] \in Int /\ f[k + 1] = f[k] + Len(Sent(k))
      /\ Len(Sent(k)) \in Nat
    <2>1. k \in 1 .. Next1 /\ k + 1 \in 1 .. Next1
        BY <1>2
    <2> QED BY <1>1, <2>1, FrameOf
<1>4. 2 - f[k] \in 1 .. Len(Sent(k))
    BY <1>3
<1>5. f[k + 1] <= Len(stdin) + 1
    <2>1. /\ k + 1 \in 1 .. Next1 /\ Next1 \in 1 .. Next1
          /\ (k + 1 = Next1 \/ k + 1 < Next1)
        BY <1>2
    <2>2. CASE k + 1 = Next1
        BY <1>1, <1>2, <2>2
    <2>3. CASE k + 1 < Next1
        <3>1. f[k + 1] < f[Next1]
            BY <1>1, <2>1, <2>3
        <3> QED BY <1>1, <1>2, <1>3, <3>1
    <2> QED BY <2>1, <2>2, <2>3
<1>6. ASSUME NEW o \in 2 - f[k] .. Len(Sent(k))
      PROVE  o - (2 - f[k]) + 1 \in 1 .. Len(stdin) /\ stdin[o - (2 - f[k]) + 1] = Sent(k)[o]
    <2>1. /\ o \in 1 .. Len(Sent(k)) /\ f[k] + o - 1 >= 1
          /\ o - (2 - f[k]) + 1 = f[k] + o - 1 /\ f[k] + o <= f[k + 1]
        BY <1>3, <1>4
    <2>2. f[k] + o - 1 \in 1 .. Len(stdin)
        BY <1>2, <1>3, <1>5, <2>1
    <2>3. stdin[f[k] + o - 1] = Sent(k)[o]
        BY <1>1, <2>1
    <2> QED BY <2>1, <2>2, <2>3
<1>7. ASSUME f[k + 1] <= Len(stdin)
      PROVE  stdin[f[k + 1]] \notin Bodies
    <2>1. k + 1 # Next1
        BY <1>1, <1>2, <1>7
    <2>2. k + 1 \in 1 .. Len(sent)
        BY <1>2, <2>1
    <2>3. 1 \in 1 .. Len(Sent(k + 1)) /\ Sent(k + 1)[1] \notin Bodies
        <3>1. Len(HeaderOf(k + 1)) \in 3 .. 5 /\ Len(Sent(k + 1)) \in Nat
              /\ Len(Sent(k + 1)) >= Len(HeaderOf(k + 1))
              /\ \A i \in 1 .. Len(HeaderOf(k + 1)) : Sent(k + 1)[i] \notin Bodies
            BY <2>2, FrameOf
        <3> DEFINE h == Len(HeaderOf(k + 1))
                   m == Len(Sent(k + 1))
        <3>2. 1 \in 1 .. h /\ 1 \in 1 .. m
            <4>1. h \in 3 .. 5 /\ m \in Nat /\ m >= h
                BY <3>1
            <4> HIDE DEF h, m
            <4> QED BY <4>1
        <3> QED BY <3>1, <3>2
    <2>4. f[k + 1] + 1 - 1 = f[k + 1] /\ f[k + 1] >= 1
        BY <1>3
    <2> QED BY <1>1, <2>2, <2>3, <2>4
<1> QED BY <1>3, <1>4, <1>5, <1>6, <1>7

\* Numbers in increasing order are not less than their places.
LEMMA PlacesGrow ==
    ASSUME NEW n \in Nat, NEW m \in Nat, NEW p \in [1 .. n -> 1 .. m],
           \A i, j \in 1 .. n : i < j => p[i] < p[j]
    PROVE  \A i \in 1 .. n : i <= p[i] /\ i <= m
<1> DEFINE bad == {i \in 1 .. n : p[i] < i}
<1>1. bad = {}
    <2> SUFFICES ASSUME bad # {}
                 PROVE  FALSE
        OBVIOUS
    <2>1. PICK i \in bad : \A j \in bad : i <= j
        <3>1. bad \in SUBSET Nat
            OBVIOUS
        <3> QED BY <3>1, Least
    <2>2. i \in 1 .. n /\ p[i] < i /\ p[i] \in 1 .. m
        BY <2>1
    <2>3. i - 1 \in 1 .. n /\ i - 1 < i /\ ~(i <= i - 1)
        BY <2>2
    <2>4. ~(p[i - 1] < i - 1)
        BY <2>1, <2>3
    <2>5. p[i - 1] < p[i] /\ p[i - 1] \in 1 .. m
        BY <2>2, <2>3
    <2> QED BY <2>2, <2>4, <2>5
<1>2. \A i \in 1 .. n : ~(p[i] < i) /\ p[i] \in 1 .. m
    BY <1>1
<1> QED BY <1>2
-----------------------------------------------------------------------------
(* Steps that read. *)

LEMMA SoundFrame ==
    ASSUME TypeOK, NEW k \in SoundFrames
    PROVE  /\ k \in 1 .. Len(sent) /\ sent[k].shape \in SoundShapes /\ sent[k].shape # "empty"
           /\ Len(Sent(k)) \in {Len(HeaderOf(k)) + BodySize, Len(HeaderOf(k)) + BodySize + 1}
           /\ \A j \in 1 .. k : j \in SoundFrames /\ Sound(sent[j])
<1>1. k \in 1 .. Len(sent) /\ \A j \in 1 .. k : Sound(sent[j])
    BY SentFacts DEF SoundFrames
<1>2. Len(sent) \in Nat /\ DOMAIN sent = 1 .. Len(sent)
    BY SentFacts
<1>3. Sound(sent[k])
    BY <1>1
<1>4. sent[k].shape \in SoundShapes /\ sent[k].shape # "empty"
    BY <1>3 DEF Sound, SoundShapes
<1>5. ASSUME NEW j \in 1 .. k
      PROVE  j \in SoundFrames
    <2>1. j \in 1 .. Len(sent) /\ \A i \in 1 .. j : i \in 1 .. k
        BY <1>1, <1>2
    <2> QED BY <1>1, <1>2, <2>1 DEF SoundFrames
<1>6. Len(Sent(k)) \in {Len(HeaderOf(k)) + BodySize, Len(HeaderOf(k)) + BodySize + 1}
    BY <1>1, <1>4, FrameOf
<1> QED BY <1>1, <1>4, <1>5, <1>6

\* The bodies of the correct frames before the one being read have been read.
LEMMA PastBefore ==
    ASSUME TypeOK, NEW f, Layout(f), NEW k \in 1 .. Len(sent), f[k] <= 1,
           NEW j \in SoundFrames, j < k
    PROVE  Past(f, j)
<1>1. j \in 1 .. Len(sent) /\ Len(HeaderOf(j)) \in 3 .. 5
      /\ Len(Sent(j)) \in {Len(HeaderOf(j)) + BodySize, Len(HeaderOf(j)) + BodySize + 1}
    BY SoundFrame, FrameOf
<1>2. /\ f \in [1 .. Next1 -> Int] /\ f[j + 1] = f[j] + Len(Sent(j))
      /\ \A i, l \in 1 .. Next1 : i < l => f[i] < f[l]
    BY <1>1 DEF Layout
<1>3. /\ j \in 1 .. Next1 /\ j + 1 \in 1 .. Next1 /\ k \in 1 .. Next1 /\ (j + 1 = k \/ j + 1 < k)
    BY <1>1, SentFacts DEF Next1
<1>4. f[j] \in Int /\ f[j + 1] \in Int /\ f[k] \in Int /\ f[j + 1] <= f[k]
    BY <1>2, <1>3
<1> DEFINE h == Len(HeaderOf(j))
           m == Len(Sent(j))
<1>5. h \in Nat /\ m \in Nat /\ m >= h + BodySize /\ f[j] + m <= 1
    <2>1. h \in 3 .. 5 /\ m \in {h + BodySize, h + BodySize + 1}
        BY <1>1
    <2>2. f[j] + m <= 1
        BY <1>2, <1>4
    <2> HIDE DEF h, m
    <2> QED BY <2>1, <2>2, Numbers
<1>6. f[j] + h + BodySize <= 1
    <2> HIDE DEF h, m
    <2> QED BY <1>4, <1>5, Numbers
<1> QED BY <1>6 DEF Past

LEMMA KeepPlaces ==
    ASSUME TypeOK, NEW f, NEW g, served' = served, sent' = sent, Places(f) # {},
           \A k \in 1 .. Len(sent) : Past(f, k) => Past(g, k)'
    PROVE  (Places(g) # {})'
<1>1. PICK p \in Places(f) : TRUE
    OBVIOUS
<1>2. DOMAIN sent = 1 .. Len(sent)
    BY SentFacts
<1>3. /\ p \in [DOMAIN served -> DOMAIN sent]
      /\ \A i, j \in DOMAIN served : i < j => p[i] < p[j]
      /\ \A i \in DOMAIN served : served[i] = sent[p[i]].body /\ Past(f, p[i])
    BY <1>1 DEF Places
<1>4. \A i \in DOMAIN served' : served'[i] = sent'[p[i]].body /\ Past(g, p[i])'
    BY <1>2, <1>3
<1>5. p \in {places \in [DOMAIN served' -> DOMAIN sent'] :
               /\ \A i, j \in DOMAIN served' : i < j => places[i] < places[j]
               /\ \A i \in DOMAIN served' : /\ served'[i] = sent'[places[i]].body
                                           /\ Past(g, places[i])'}
    BY <1>3, <1>4
<1>6. p \in Places(g)'
    BY <1>5 DEF Places, Past, HeaderOf
<1> QED BY <1>6

\* A line of a correct frame is read as what it is, and no further.
LEMMA SoundLine ==
    ASSUME TypeOK, NEW f, Layout(f), Reading(f), HeaderLine,
           NEW k \in SoundFrames, f[k] <= 1, 1 < f[k + 1]
    PROVE  LET o == 2 - f[k]
               h == Len(HeaderOf(k))
           IN  \E r \in 1 .. Len(stdin) :
                  /\ stdin' = SubSeq(stdin, r + 1, Len(stdin))
                  /\ \/ o + r \in 2 .. h + 1 /\ InFrame(k, o + r)'
                     \/ /\ o = h + BodySize + 1 /\ o + r = Len(Sent(k)) + 1
                        /\ ~inBody' /\ len' = NoLength
<1> DEFINE o == 2 - f[k]
           h == Len(HeaderOf(k))
           m == Len(Sent(k))
<1>1. /\ exitCode = Running /\ ~inBody /\ CanReadLine /\ stdin' = AfterLine /\ sent' = sent
      /\ \/ Line = << >> /\ inBody' = (len # NoLength) /\ len' = len
         \/ /\ Line # << >> /\ inBody' = inBody
            /\ len' = IF Line[1] = BadLength THEN NoLength
                      ELSE IF Line[1] \in Lengths THEN Line[1][2] ELSE len
    BY DEF HeaderLine, CanReadLine
<1>2. k \in 1 .. Len(sent) /\ sent[k].shape \in SoundShapes
    BY SoundFrame
<1>3. /\ h \in 3 .. 5 /\ m \in Nat /\ m >= h
      /\ \A i \in 1 .. h : Sent(k)[i] = HeaderOf(k)[i]
      /\ HeaderOf(k)[h] = EOL
      /\ \A i \in 1 .. m : i > h + BodySize => i = h + BodySize + 1 /\ Sent(k)[i] = EOL
      /\ m \in {h + BodySize, h + BodySize + 1}
    BY <1>2, FrameOf, SoundFrame
<1>4. /\ f[k] \in Int /\ o \in 1 .. m
      /\ \A i \in o .. m : i - o + 1 \in 1 .. Len(stdin) /\ stdin[i - o + 1] = Sent(k)[i]
    BY <1>2, HeadSymbols
<1>5. \A i \in 1 .. h - 1 :
         i = 1 \/ HeaderOf(k)[i - 1] = EOL =>
            \/ HeaderOf(k)[i] = EOL /\ i + 1 < h
            \/ /\ HeaderOf(k)[i] # EOL /\ HeaderOf(k)[i + 1] = EOL /\ i + 2 <= h
               /\ i + 2 = h => HeaderOf(k)[i] = Length(BodySize)
               /\ i + 2 # h => HeaderOf(k)[i] \in {OtherField, BadLength}
    BY <1>2, HeaderFacts DEF HeaderOf
<1>6. \/ /\ o \in 1 .. h /\ (o = 1 \/ HeaderOf(k)[o - 1] = EOL)
         /\ len = IF o = h THEN BodySize ELSE NoLength
      \/ o = h + BodySize + 1 /\ len = NoLength
    <2>1. CASE o = 1
        <3>0. h \in 3 .. 5
            BY <1>3
        <3>1. f[k] = 1
            BY <1>4, <2>1
        <3>2. Between(f, k) /\ k \in 1 .. Next1
            <4>1. \A j \in 1 .. k - 1 : j \in 1 .. k
                BY <1>2
            <4> QED BY <1>2, <3>1, <4>1, SoundFrame, SentFacts DEF Between, Next1
        <3>3. len = NoLength
            BY <1>1, <3>2 DEF Reading
        <3> HIDE DEF o, h
        <3> QED BY <3>0, <2>1, <3>3
    <2>2. CASE o # 1
        <3>1. f[k] < 1
            BY <1>4, <2>2
        <3>2. InFrame(k, o)
            BY <1>1, <3>1 DEF Reading
        <3>3. \/ /\ o \in 2 .. h /\ HeaderOf(k)[o - 1] = EOL
                 /\ len = IF o = h THEN BodySize ELSE NoLength
              \/ o = h + BodySize + 1 /\ len = NoLength
            BY <1>1, <3>2 DEF InFrame
        <3>4. o \in 2 .. h => o \in 1 .. h
            <4> HIDE DEF o, h, m
            <4> QED BY <1>3
        <3> HIDE DEF o, h, m
        <3> QED BY <3>3, <3>4
    <2> QED BY <2>1, <2>2
<1> HIDE DEF o, h, m
<1>7. HeaderOf(k)' = HeaderOf(k)
    BY <1>1 DEF HeaderOf
<1>8. NoLength # BodySize
    BY Numbers
\* The blank line that ends the header.
<1>9. CASE o = h /\ len = BodySize
    <2>1. o \in o .. m /\ o - o + 1 = 1
        BY <1>3, <1>4, <1>9
    <2>2. stdin[1] = EOL /\ 1 \in 1 .. Len(stdin)
        BY <1>3, <1>4, <1>9, <2>1
    <2>3. Line = << >> /\ stdin' = SubSeq(stdin, 1 + 1, Len(stdin))
        BY <1>1, <2>2, LineFacts
    <2>4. inBody' /\ len' = BodySize
        BY <1>1, <1>8, <1>9, <2>3
    <2>5. o + 1 = h + 1 /\ o + 1 \in 2 .. h + 1
        BY <1>3, <1>9
    <2>6. InFrame(k, o + 1)'
        BY <1>7, <2>4, <2>5 DEF InFrame, h, o
    <2> QED BY <2>2, <2>3, <2>5, <2>6 DEF h, o
\* A blank line before the fields.
<1>10. CASE o \in 1 .. h - 1 /\ len = NoLength /\ HeaderOf(k)[o] = EOL /\ o + 1 < h
    <2>1. o \in o .. m /\ o - o + 1 = 1 /\ o \in 1 .. h
        BY <1>3, <1>4, <1>10
    <2>2. stdin[1] = EOL /\ 1 \in 1 .. Len(stdin)
        BY <1>3, <1>4, <1>10, <2>1
    <2>3. Line = << >> /\ stdin' = SubSeq(stdin, 1 + 1, Len(stdin))
        BY <1>1, <2>2, LineFacts
    <2>4. ~inBody' /\ len' = NoLength
        BY <1>1, <1>10, <2>3
    <2>5. o + 1 \in 2 .. h /\ o + 1 \in 2 .. h + 1 /\ o + 1 # h /\ (o + 1) - 1 = o
        BY <1>3, <1>10
    <2>6. InFrame(k, o + 1)'
        BY <1>7, <1>10, <2>4, <2>5 DEF InFrame, h
    <2> QED BY <2>2, <2>3, <2>5, <2>6 DEF h, o
\* A line with one field.
<1>11. CASE /\ o \in 1 .. h - 1 /\ len = NoLength
            /\ HeaderOf(k)[o] # EOL /\ HeaderOf(k)[o + 1] = EOL /\ o + 2 <= h
            /\ o + 2 = h => HeaderOf(k)[o] = Length(BodySize)
            /\ o + 2 # h => HeaderOf(k)[o] \in {OtherField, BadLength}
    <2>1. /\ o \in o .. m /\ o - o + 1 = 1 /\ o \in 1 .. h
          /\ o + 1 \in o .. m /\ (o + 1) - o + 1 = 2 /\ o + 1 \in 1 .. h
        BY <1>3, <1>4, <1>11
    <2>2. /\ stdin[1] = HeaderOf(k)[o] /\ stdin[2] = EOL /\ 2 \in 1 .. Len(stdin) /\ 2 <= Len(stdin)
        <3>1. stdin[1] = Sent(k)[o] /\ stdin[2] = Sent(k)[o + 1] /\ 2 \in 1 .. Len(stdin)
            BY <1>4, <2>1
        <3> QED BY <1>3, <1>11, <2>1, <3>1, SentFacts
    <2>3. /\ Line # << >> /\ Line[1] = HeaderOf(k)[o]
          /\ stdin' = SubSeq(stdin, 2 + 1, Len(stdin))
        BY <1>1, <1>11, <2>2, LineFacts
    <2>4. ~inBody' /\ len' = IF o + 2 = h THEN BodySize ELSE NoLength
        <3>1. Length(BodySize) \in Lengths /\ Length(BodySize)[2] = BodySize
            BY Numbers DEF Length
        <3> QED BY <1>1, <1>11, <2>3, <3>1, Kinds
    <2>5. o + 2 \in 2 .. h /\ o + 2 \in 2 .. h + 1 /\ (o + 2) - 1 = o + 1
        BY <1>3, <1>11
    <2>6. InFrame(k, o + 2)'
        BY <1>7, <1>11, <2>4, <2>5 DEF InFrame, h
    <2> QED BY <2>2, <2>3, <2>5, <2>6 DEF h, o
\* The line break that follows a body.
<1>12. CASE o = h + BodySize + 1 /\ len = NoLength
    <2>1. o \in o .. m /\ o - o + 1 = 1 /\ o + 1 = m + 1 /\ Sent(k)[o] = EOL
        BY <1>3, <1>4, <1>12, Numbers
    <2>2. stdin[1] = EOL /\ 1 \in 1 .. Len(stdin)
        BY <1>4, <2>1
    <2>3. Line = << >> /\ stdin' = SubSeq(stdin, 1 + 1, Len(stdin))
        BY <1>1, <2>2, LineFacts
    <2>4. ~inBody' /\ len' = NoLength
        BY <1>1, <1>12, <2>3
    <2> QED BY <1>12, <2>1, <2>2, <2>3, <2>4 DEF h, o, m
<1>13. o \in 1 .. h => o = h \/ (o \in 1 .. h - 1 /\ o # h)
    BY <1>3
<1> QED BY <1>5, <1>6, <1>9, <1>10, <1>11, <1>12, <1>13

LEMMA NotPast ==
    ASSUME TypeOK, NEW k \in 1 .. Len(sent), NEW g, g[k] \in Int, g[k] >= 1
    PROVE  ~Past(g, k)
<1> DEFINE h == Len(HeaderOf(k))
<1>1. h \in 3 .. 5
    BY FrameOf
<1> HIDE DEF h
<1>2. ~(g[k] + h + BodySize <= 1)
    BY <1>1, Numbers
<1> QED BY <1>2 DEF Past, h

\* After reading, the frames keep their order around the one that was read.
LEMMA Around ==
    ASSUME TypeOK, NEW f, Layout(f), NEW k \in 1 .. Len(sent), NEW r \in Nat,
           NEW g, g = [j \in 1 .. Next1 |-> f[j] - r]
    PROVE  /\ \A j \in 1 .. Next1 : g[j] = f[j] - r /\ g[j] \in Int /\ f[j] \in Int
           /\ k \in 1 .. Next1 /\ k + 1 \in 1 .. Next1
           /\ g[k + 1] = g[k] + Len(Sent(k)) /\ Len(Sent(k)) \in Nat
           /\ \A j \in 1 .. Len(sent) : j \in 1 .. Next1 /\ j + 1 \in 1 .. Next1
           /\ \A j \in 1 .. Len(sent) : j < k => g[j + 1] <= g[k]
           /\ \A j \in 1 .. Next1 : j > k => g[k + 1] <= g[j]
           /\ \A j \in 1 .. Next1 : j > k /\ g[j] = g[k + 1] => j = k + 1
<1>1. /\ f \in [1 .. Next1 -> Int] /\ \A i, j \in 1 .. Next1 : i < j => f[i] < f[j]
      /\ f[k + 1] = f[k] + Len(Sent(k))
    BY DEF Layout
<1>2. Len(sent) \in Nat /\ Next1 = Len(sent) + 1 /\ Len(Sent(k)) \in Nat
    BY SentFacts, FrameOf DEF Next1
<1>3. \A j \in 1 .. Next1 : g[j] = f[j] - r /\ g[j] \in Int /\ f[j] \in Int
    BY <1>1
<1>4. \A j \in 1 .. Len(sent) : j \in 1 .. Next1 /\ j + 1 \in 1 .. Next1
    BY <1>2
<1>5. \A i, j \in 1 .. Next1 : i < j => g[i] < g[j]
    BY <1>1, <1>3
<1>6. \A i, j \in 1 .. Next1 : (i < j => g[i] < g[j]) /\ (i = j => g[i] = g[j]) /\ g[i] \in Int
    BY <1>3, <1>5
<1>7. g[k + 1] = g[k] + Len(Sent(k))
    <2>1. g[k] = f[k] - r /\ g[k + 1] = f[k + 1] - r /\ f[k] \in Int
        BY <1>3, <1>4
    <2> QED BY <1>1, <1>2, <2>1
<1>8. ASSUME NEW j \in 1 .. Len(sent), j < k
      PROVE  g[j + 1] <= g[k]
    <2>1. j + 1 \in 1 .. Next1 /\ k \in 1 .. Next1 /\ (j + 1 < k \/ j + 1 = k)
        BY <1>4, <1>8
    <2> QED BY <1>6, <2>1
<1>9. ASSUME NEW j \in 1 .. Next1, j > k
      PROVE  g[k + 1] <= g[j] /\ (g[j] = g[k + 1] => j = k + 1)
    <2>1. k + 1 \in 1 .. Next1 /\ (k + 1 < j \/ k + 1 = j)
        BY <1>2, <1>4, <1>9
    <2> QED BY <1>6, <2>1
<1> QED BY <1>2, <1>3, <1>4, <1>7, <1>8, <1>9

LEMMA SameSent ==
    ASSUME sent' = sent
    PROVE  /\ SoundFrames' = SoundFrames /\ Next1' = Next1
           /\ \A k : HeaderOf(k)' = HeaderOf(k)
           /\ \A g, k : Past(g, k)' <=> Past(g, k)
           /\ \A g, k : Between(g, k)' <=> Between(g, k)
<1>1. \A k : HeaderOf(k)' = HeaderOf(k)
    BY DEF HeaderOf
<1>2. \A g, k : Past(g, k)' <=> Past(g, k)
    BY <1>1 DEF Past
<1> QED BY <1>1, <1>2 DEF SoundFrames, Next1, Between

LEMMA HeaderLineStep ==
    ASSUME TypeOK, NEW f, Layout(f), Places(f) # {}, InStep(f), Reading(f), HeaderLine
    PROVE  StreamInv'
<1>1. /\ exitCode = Running /\ CanReadLine /\ stdin' = AfterLine
      /\ UNCHANGED <<closed, shutdownReceived, exitCode, stdout, sent, served>>
    BY DEF HeaderLine, CanReadLine
<1>2. \E r \in 1 .. Len(stdin) : stdin' = SubSeq(stdin, r + 1, Len(stdin))
    BY <1>1, LineFacts
<1>3. stdin # << >>
    <2>1. Len(stdin) # 0
        BY <1>2
    <2> QED BY <2>1
<1>4. PICK k \in 1 .. Len(sent) : f[k] <= 1 /\ 1 < f[k + 1]
    BY <1>3, HeadFrame
<1> DEFINE o == 2 - f[k]
           h == Len(HeaderOf(k))
           m == Len(Sent(k))
           Line1(r) == \/ o + r \in 2 .. h + 1 /\ InFrame(k, o + r)'
                       \/ /\ o = h + BodySize + 1 /\ o + r = m + 1
                          /\ ~inBody' /\ len' = NoLength
<1>5. \E r \in 1 .. Len(stdin) :
         stdin' = SubSeq(stdin, r + 1, Len(stdin)) /\ (k \in SoundFrames => Line1(r))
    <2>1. CASE k \in SoundFrames
        BY <1>4, <2>1, SoundLine
    <2>2. CASE k \notin SoundFrames
        BY <1>2, <2>2
    <2> QED BY <2>1, <2>2
<1>6. PICK r \in 1 .. Len(stdin) :
         stdin' = SubSeq(stdin, r + 1, Len(stdin)) /\ (k \in SoundFrames => Line1(r))
    BY <1>5
<1>7. PICK g : g = [j \in 1 .. Next1 |-> f[j] - r]
    OBVIOUS
<1>8. r \in 0 .. Len(stdin) /\ r \in Nat /\ r >= 1
    BY SentFacts
<1>9. Layout(g)' /\ \A j \in 1 .. Len(sent) : Past(f, j) => Past(g, j)'
    BY <1>1, <1>6, <1>7, <1>8, ReadLayout
<1>10. (Places(g) # {})'
    BY <1>1, <1>9, KeepPlaces
<1>11. /\ \A j \in 1 .. Next1 : g[j] = f[j] - r /\ g[j] \in Int /\ f[j] \in Int
       /\ k \in 1 .. Next1 /\ k + 1 \in 1 .. Next1
       /\ g[k + 1] = g[k] + m /\ m \in Nat
       /\ \A j \in 1 .. Len(sent) : j \in 1 .. Next1 /\ j + 1 \in 1 .. Next1
       /\ \A j \in 1 .. Len(sent) : j < k => g[j + 1] <= g[k]
       /\ \A j \in 1 .. Next1 : j > k => g[k + 1] <= g[j]
       /\ \A j \in 1 .. Next1 : j > k /\ g[j] = g[k + 1] => j = k + 1
    BY <1>7, <1>8, Around
<1>12. /\ SoundFrames' = SoundFrames /\ Next1' = Next1
       /\ \A j : Past(g, j)' <=> Past(g, j)
       /\ \A j : Between(g, j)' <=> Between(g, j)
    BY <1>1, SameSent
<1>13. \A j \in SoundFrames : j \in 1 .. Len(sent) /\ (k <= j => k \in SoundFrames)
    <2> TAKE j \in SoundFrames
    <2>1. j \in 1 .. Len(sent) /\ \A i \in 1 .. j : i \in SoundFrames
        BY SoundFrame
    <2>2. k <= j => k \in 1 .. j
        BY <2>1
    <2> QED BY <2>1, <2>2
<1>14. g[k] = f[k] - r /\ g[k] \in Int /\ f[k] \in Int /\ g[k + 1] \in Int /\ g[k] <= 0
    <2>1. g[k] = f[k] - r /\ g[k] \in Int /\ f[k] \in Int /\ g[k + 1] \in Int
        BY <1>11
    <2> QED BY <1>4, <1>8, <2>1
<1>15. ASSUME k \in SoundFrames
       PROVE  /\ g[k + 1] >= 1
              /\ Past(g, k) => Past(f, k)
              /\ g[k + 1] = 1 => ~inBody' /\ len' = NoLength
              /\ 1 < g[k + 1] => InFrame(k, 2 - g[k])'
    <2>1. h \in 3 .. 5 /\ m \in {h + BodySize, h + BodySize + 1} /\ g[k + 1] = g[k] + m
        BY <1>11, <1>15, FrameOf, SoundFrame
    <2>2. Line1(r)
        BY <1>6, <1>15
    <2>3. o + r = 2 - g[k] /\ o = 2 - f[k]
        BY <1>8, <1>14
    <2>4. /\ Past(g, k) <=> g[k] + h + BodySize <= 1
          /\ Past(f, k) <=> f[k] + h + BodySize <= 1
        BY DEF Past
    <2> HIDE DEF o, h, m
    <2>0. h \in Nat /\ m \in Nat /\ m >= h + BodySize /\ BodySize \in Nat /\ BodySize >= 1
        BY <1>11, <2>1, Numbers
    <2>5. CASE o + r \in 2 .. h + 1 /\ InFrame(k, o + r)'
        <3>1. 2 - g[k] <= h + 1
            BY <2>0, <2>3, <2>5
        <3>2. PICK p \in Int : p = g[k]
            BY <1>14
        <3>3. p >= 1 - h
            BY <2>0, <3>1, <3>2
        <3>4. p + h >= 1
            BY <2>0, <3>3
        <3>5. p + h + BodySize > 1
            BY <2>0, <3>4
        <3>6. p + m > 1
            BY <2>0, <3>5
        <3>7. g[k + 1] > 1 /\ ~(g[k] + h + BodySize <= 1)
            <4>1. g[k + 1] = p + m /\ p + m \in Int
                BY <2>0, <2>1, <3>2
            <4>2. ~(p + h + BodySize <= 1)
                BY <2>0, <3>5
            <4> QED BY <3>2, <3>6, <4>1, <4>2
        <3>8. ~Past(g, k) /\ g[k + 1] # 1 /\ g[k + 1] >= 1
            <4>1. g[k + 1] \in Int
                BY <1>14
            <4> QED BY <2>4, <3>7, <4>1
        <3>9. InFrame(k, 2 - g[k])'
            BY <2>3, <2>5
        <3> QED BY <3>8, <3>9
    <2>6. CASE o = h + BodySize + 1 /\ o + r = m + 1 /\ ~inBody' /\ len' = NoLength
        <3>1. g[k] + m = 1 /\ f[k] + h + BodySize = 1
            <4>1. 2 - g[k] = m + 1 /\ 2 - f[k] = h + BodySize + 1
                BY <2>3, <2>6
            <4> QED BY <1>14, <2>0, <4>1
        <3> QED BY <2>1, <2>4, <2>6, <3>1
    <2>7. \/ o + r \in 2 .. h + 1 /\ InFrame(k, o + r)'
          \/ o = h + BodySize + 1 /\ o + r = m + 1 /\ ~inBody' /\ len' = NoLength
        BY <2>2
    <2> QED BY <2>5, <2>6, <2>7
<1> HIDE DEF o, h, m, Line1
<1>16. InStep(g)'
    <2>1. ASSUME NEW j \in SoundFrames
          PROVE  Past(g, j) => Past(f, j)
        <3>1. CASE j < k
            BY <1>4, <3>1, PastBefore
        <3>2. CASE j = k
            BY <1>15, <3>2
        <3>3. CASE j > k
            <4>1. k \in SoundFrames /\ j \in 1 .. Len(sent) /\ j \in 1 .. Next1
                BY <1>11, <1>13, <3>3
            <4>2. g[k + 1] <= g[j] /\ g[k + 1] >= 1 /\ g[j] \in Int /\ g[k + 1] \in Int
                BY <1>11, <1>14, <1>15, <3>3, <4>1
            <4>3. g[j] >= 1
                BY <4>2
            <4> QED BY <4>1, <4>2, <4>3, NotPast
        <3> QED BY <1>13, <3>1, <3>2, <3>3
    <2>2. \A j \in SoundFrames : Past(g, j) <=> Past(f, j)
        BY <1>9, <1>12, <1>13, <2>1
    <2>3. \A j \in SoundFrames' :
              /\ exitCode' = Running => (j <= Len(served') <=> Past(g, j)')
              /\ j <= Len(served') => served'[j] = sent'[j].body
        BY <1>1, <1>12, <2>2 DEF InStep
    <2> QED BY <2>3 DEF InStep
<1>17. Reading(g)'
    <2>1. ASSUME NEW j \in 1 .. Next1, Between(g, j)
          PROVE  ~inBody' /\ len' = NoLength
        <3>1. g[j] = 1 /\ \A i \in 1 .. j - 1 : Sound(sent[i])
            BY <2>1 DEF Between
        <3>2. j > k
            <4>1. CASE j < k
                <5>1. j \in 1 .. Len(sent) /\ g[j + 1] <= g[k]
                    BY <1>11, <4>1, SentFacts
                <5>2. f[j] < f[j + 1] /\ g[j] = f[j] - r /\ g[j + 1] = f[j + 1] - r /\ f[j + 1] \in Int /\ f[j] \in Int
                    <6>1. j \in 1 .. Next1 /\ j + 1 \in 1 .. Next1 /\ j < j + 1
                        BY <1>11, <5>1
                    <6> QED BY <1>11, <6>1 DEF Layout
                <5> QED BY <1>8, <1>14, <3>1, <5>1, <5>2
            <4>2. j # k
                BY <1>14, <3>1
            <4> QED BY <4>1, <4>2
        <3>3. k \in SoundFrames
            <4>1. \A i \in 1 .. k : i \in 1 .. j - 1
                BY <3>2
            <4> QED BY <3>1, <4>1, SentFacts DEF SoundFrames
        <3>4. g[k + 1] = 1
            <4>1. g[k + 1] <= g[j]
                BY <1>11, <3>2
            <4> QED BY <1>14, <1>15, <3>1, <3>3, <4>1
        <3> QED BY <1>15, <3>3, <3>4
    <2>2. ASSUME NEW j \in SoundFrames, g[j] < 1, 1 < g[j + 1]
          PROVE  InFrame(j, 2 - g[j])'
        <3>1. j \in 1 .. Len(sent) /\ j \in 1 .. Next1 /\ g[j] \in Int /\ g[j + 1] \in Int
            BY <1>11, <1>13
        <3>2. ~(j < k)
            <4>1. j < k => g[j + 1] <= g[k]
                BY <1>11, <3>1
            <4> QED BY <1>14, <2>2, <3>1, <4>1
        <3>3. ~(j > k)
            <4>1. j > k => g[k + 1] <= g[j] /\ k \in SoundFrames
                BY <1>11, <1>13, <3>1
            <4> QED BY <1>14, <1>15, <2>2, <3>1, <4>1
        <3>4. j = k
            BY <3>1, <3>2, <3>3
        <3> QED BY <1>15, <2>2, <3>4
    <2>3. exitCode' = Running =>
            /\ \A j \in 1 .. Next1' : Between(g, j)' => ~inBody' /\ len' = NoLength
            /\ \A j \in SoundFrames' : g[j] < 1 /\ 1 < g[j + 1] => InFrame(j, 2 - g[j])'
        BY <1>12, <2>1, <2>2
    <2> QED BY <2>3 DEF Reading
<1> QED BY <1>9, <1>10, <1>16, <1>17 DEF StreamInv

\* A body is served where it begins, after the header of its frame.
LEMMA ServedFrame ==
    ASSUME TypeOK, NEW f, Layout(f), NEW message \in Messages, Serve(message)
    PROVE  \E k \in 1 .. Len(sent) :
              /\ f[k] <= 1 /\ 1 < f[k + 1]
              /\ f[k] = 1 - Len(HeaderOf(k)) /\ sent[k].body = message
              /\ Len(Sent(k)) >= Len(HeaderOf(k)) + BodySize
<1>1. /\ BodySize <= Len(stdin) /\ \A i \in 1 .. BodySize : stdin[i] = message
      /\ message \in Bodies
    BY ServeFacts DEF Bodies
<1>2. 1 \in 1 .. BodySize /\ BodySize \in Nat /\ Len(stdin) \in Nat
    BY Numbers, SentFacts
<1>3. stdin # << >>
    BY <1>1, <1>2, Numbers
<1>4. PICK k \in 1 .. Len(sent) : f[k] <= 1 /\ 1 < f[k + 1]
    BY <1>3, HeadFrame
<1> DEFINE o == 2 - f[k]
           h == Len(HeaderOf(k))
           m == Len(Sent(k))
<1>5. /\ h \in 3 .. 5 /\ m \in Nat
      /\ \A i \in 1 .. h : Sent(k)[i] \notin Bodies
      /\ \A i \in 1 .. m : i > h + BodySize => Sent(k)[i] = EOL
      /\ \A i \in 1 .. m : h < i /\ i <= h + BodySize => Sent(k)[i] = sent[k].body \/ Sent(k)[i] = EOL
      /\ m \in {h, h + BodySize, h + BodySize + 1}
    BY FrameOf
<1>6. /\ f[k] \in Int /\ f[k + 1] = f[k] + m /\ o \in 1 .. m
      /\ \A i \in o .. m : i - o + 1 \in 1 .. Len(stdin) /\ stdin[i - o + 1] = Sent(k)[i]
      /\ f[k + 1] <= Len(stdin) => stdin[f[k + 1]] \notin Bodies
    BY <1>4, HeadSymbols
<1>7. f[k] = 2 - o /\ o \in Int
    BY <1>6
<1> HIDE DEF o, h, m
<1>8. Sent(k)[o] = message
    <2>1. o \in o .. m /\ o - o + 1 = 1
        BY <1>5, <1>6
    <2> QED BY <1>1, <1>2, <1>6, <2>1
<1>9. h < o /\ o <= h + BodySize /\ sent[k].body = message
    <2>1. ~(o \in 1 .. h)
        BY <1>1, <1>5, <1>8
    <2>2. ~(o > h + BodySize)
        BY <1>1, <1>5, <1>6, <1>8, Kinds
    <2>3. h < o /\ o <= h + BodySize
        BY <1>2, <1>5, <1>6, <2>1, <2>2
    <2>4. Sent(k)[o] = sent[k].body \/ Sent(k)[o] = EOL
        BY <1>5, <1>6, <2>3
    <2> QED BY <1>1, <1>8, <2>3, <2>4, Kinds
<1>10. m = h + BodySize \/ m = h + BodySize + 1
    BY <1>5, <1>6, <1>9
<1>11. ~(o > h + 1)
    <2> SUFFICES ASSUME o > h + 1
                 PROVE  FALSE
        OBVIOUS
    <2>1. PICK e : e = h + BodySize + 1
        OBVIOUS
    <2>2. e \in Int /\ e - o + 1 \in 1 .. BodySize
        <3>1. h \in Nat /\ o \in Int /\ BodySize \in Nat /\ h + 1 < o /\ o <= h + BodySize
            BY <1>2, <1>5, <1>7, <1>9
        <3>2. e \in Int /\ o < e /\ e - o < BodySize
            BY <2>1, <3>1
        <3>3. PICK d \in Int : d = e - o
            BY <3>1, <3>2
        <3>4. d >= 1 /\ d < BodySize
            BY <3>1, <3>2, <3>3
        <3> QED BY <3>1, <3>2, <3>3, <3>4
    <2>3. stdin[e - o + 1] = message
        BY <1>1, <2>2
    <2>4. CASE m = h + BodySize + 1
        <3>1. e \in 1 .. m /\ e \in o .. m /\ e > h + BodySize
            BY <1>2, <1>5, <1>6, <1>9, <2>1, <2>4
        <3>2. stdin[e - o + 1] = Sent(k)[e] /\ Sent(k)[e] = EOL
            BY <1>5, <1>6, <3>1
        <3> QED BY <1>1, <2>3, <3>2, Kinds
    <2>5. CASE m = h + BodySize
        <3>1. f[k + 1] = e - o + 1
            BY <1>2, <1>5, <1>6, <1>7, <2>1, <2>5
        <3>2. f[k + 1] <= Len(stdin)
            BY <1>1, <1>2, <2>2, <3>1
        <3> QED BY <1>1, <1>6, <2>3, <3>1, <3>2
    <2> QED BY <1>10, <2>4, <2>5
<1>12. f[k] = 1 - h
    BY <1>5, <1>7, <1>9, <1>11
<1>13. m >= h + BodySize
    BY <1>2, <1>5, <1>10
<1> QED BY <1>4, <1>9, <1>12, <1>13 DEF h, m

LEMMA ServePlaces ==
    ASSUME TypeOK, NEW f, NEW g, sent' = sent, Places(f) # {}, NEW k \in 1 .. Len(sent),
           \A j \in 1 .. Len(sent) : Past(f, j) => Past(g, j)' /\ j < k,
           Past(g, k)', served' = Append(served, sent[k].body)
    PROVE  (Places(g) # {})'
<1>1. PICK p \in Places(f) : TRUE
    OBVIOUS
<1>2. DOMAIN sent = 1 .. Len(sent) /\ DOMAIN served = 1 .. Len(served) /\ Len(served) \in Nat
    BY SentFacts
<1>3. /\ p \in [DOMAIN served -> DOMAIN sent]
      /\ \A i, j \in DOMAIN served : i < j => p[i] < p[j]
      /\ \A i \in DOMAIN served : served[i] = sent[p[i]].body /\ Past(f, p[i])
    BY <1>1 DEF Places
<1> DEFINE n == Len(served)
<1>4. /\ DOMAIN served' = 1 .. n + 1 /\ served'[n + 1] = sent[k].body
      /\ \A i \in 1 .. n : served'[i] = served[i]
    BY <1>2, AppendProperties DEF TypeOK
<1>5. n \in Nat /\ DOMAIN served = 1 .. n
    BY <1>2
<1> HIDE DEF n
<1>q. PICK q : q = [i \in 1 .. n + 1 |-> IF i = n + 1 THEN k ELSE p[i]]
    OBVIOUS
<1>6. /\ \A i \in 1 .. n : i \in 1 .. n + 1 /\ i # n + 1 /\ q[i] = p[i] /\ p[i] \in 1 .. Len(sent)
      /\ \A i \in 1 .. n + 1 : i \in 1 .. n \/ i = n + 1
      /\ n + 1 \in 1 .. n + 1 /\ q[n + 1] = k
    <2>1. /\ \A i \in 1 .. n : i \in 1 .. n + 1 /\ i # n + 1
          /\ \A i \in 1 .. n + 1 : i \in 1 .. n \/ i = n + 1
          /\ n + 1 \in 1 .. n + 1
        BY <1>5
    <2>2. \A i \in 1 .. n : p[i] \in 1 .. Len(sent)
        BY <1>2, <1>3, <1>5
    <2> QED BY <1>q, <2>1, <2>2
<1>7. q \in [1 .. n + 1 -> DOMAIN sent']
    BY <1>q, <1>2, <1>6
<1>8. ASSUME NEW i \in 1 .. n + 1, NEW j \in 1 .. n + 1, i < j
      PROVE  q[i] < q[j]
    <2>1. i \in 1 .. n
        BY <1>5, <1>8
    <2>2. CASE j \in 1 .. n
        BY <1>3, <1>5, <1>6, <1>8, <2>1, <2>2
    <2>3. CASE j = n + 1
        BY <1>3, <1>5, <1>6, <2>1, <2>3
    <2> QED BY <1>6, <2>2, <2>3
<1>9. ASSUME NEW i \in 1 .. n + 1
      PROVE  served'[i] = sent'[q[i]].body /\ Past(g, q[i])'
    <2>1. CASE i \in 1 .. n
        <3>1. Past(g, p[i])' /\ served'[i] = sent'[p[i]].body
            BY <1>3, <1>4, <1>5, <1>6, <2>1
        <3> QED BY <1>6, <2>1, <3>1
    <2>2. CASE i = n + 1
        BY <1>4, <1>6, <2>2
    <2> QED BY <1>6, <2>1, <2>2
<1>10. q \in {places \in [DOMAIN served' -> DOMAIN sent'] :
                /\ \A i, j \in DOMAIN served' : i < j => places[i] < places[j]
                /\ \A i \in DOMAIN served' : /\ served'[i] = sent'[places[i]].body
                                            /\ Past(g, places[i])'}
    BY <1>4, <1>7, <1>8, <1>9
<1>11. q \in Places(g)'
    BY <1>10 DEF Places, Past, HeaderOf
<1> QED BY <1>11

LEMMA ServeStep ==
    ASSUME TypeOK, NEW f, Layout(f), Places(f) # {}, InStep(f), Reading(f),
           NEW message \in Messages, Serve(message)
    PROVE  StreamInv'
<1>1. /\ exitCode = Running /\ len' = NoLength /\ ~inBody' /\ sent' = sent
      /\ served' = Append(served, message)
      /\ stdin' = SubSeq(stdin, BodySize + 1, Len(stdin)) /\ BodySize \in 0 .. Len(stdin)
    <2>1. exitCode = Running /\ stdin' = SubSeq(stdin, BodySize + 1, Len(stdin)) /\ BodySize <= Len(stdin)
        BY ServeFacts
    <2>2. BodySize \in 0 .. Len(stdin)
        BY <2>1, Numbers, SentFacts
    <2> QED BY <2>1, <2>2 DEF Serve
<1>2. PICK k \in 1 .. Len(sent) :
         /\ f[k] <= 1 /\ 1 < f[k + 1]
         /\ f[k] = 1 - Len(HeaderOf(k)) /\ sent[k].body = message
         /\ Len(Sent(k)) >= Len(HeaderOf(k)) + BodySize
    BY ServedFrame
<1>3. PICK g : g = [j \in 1 .. Next1 |-> f[j] - BodySize]
    OBVIOUS
<1>4. Layout(g)' /\ \A j \in 1 .. Len(sent) : Past(f, j) => Past(g, j)'
    BY <1>1, <1>3, ReadLayout
<1> DEFINE h == Len(HeaderOf(k))
           m == Len(Sent(k))
           n == Len(served)
<1>5. /\ \A j \in 1 .. Next1 : g[j] = f[j] - BodySize /\ g[j] \in Int /\ f[j] \in Int
      /\ k \in 1 .. Next1 /\ k + 1 \in 1 .. Next1
      /\ g[k + 1] = g[k] + m /\ m \in Nat
      /\ \A j \in 1 .. Len(sent) : j \in 1 .. Next1 /\ j + 1 \in 1 .. Next1
      /\ \A j \in 1 .. Len(sent) : j < k => g[j + 1] <= g[k]
      /\ \A j \in 1 .. Next1 : j > k => g[k + 1] <= g[j]
    BY <1>3, Around, Numbers
<1>6. /\ SoundFrames' = SoundFrames /\ Next1' = Next1
      /\ \A j : Past(g, j)' <=> Past(g, j)
      /\ \A j : Between(g, j)' <=> Between(g, j)
      /\ HeaderOf(k)' = HeaderOf(k)
    BY <1>1, SameSent
<1>7. \A j \in SoundFrames : j \in 1 .. Len(sent) /\ (k <= j => k \in SoundFrames)
    <2> TAKE j \in SoundFrames
    <2>1. j \in 1 .. Len(sent) /\ \A i \in 1 .. j : i \in SoundFrames
        BY SoundFrame
    <2>2. k <= j => k \in 1 .. j
        BY <2>1
    <2> QED BY <2>1, <2>2
<1>8. /\ h \in 3 .. 5 /\ m >= h + BodySize /\ f[k] = 1 - h /\ g[k] = f[k] - BodySize
      /\ BodySize \in Nat /\ BodySize >= 1 /\ n \in Nat
    BY <1>2, <1>5, FrameOf, Numbers, SentFacts
<1>9. /\ Past(f, k) <=> f[k] + h + BodySize <= 1
      /\ Past(g, k) <=> g[k] + h + BodySize <= 1
    BY DEF Past
<1> HIDE DEF h, m, n
<1>10. ~Past(f, k) /\ Past(g, k) /\ g[k] <= 0 /\ g[k + 1] >= 1 /\ 2 - g[k] = h + BodySize + 1
       /\ g[k] \in Int /\ g[k + 1] \in Int
    BY <1>5, <1>8, <1>9
<1>11. ASSUME NEW j \in 1 .. Len(sent), j > k
       PROVE  ~Past(f, j) /\ ~Past(g, j)
    <2>1. j \in 1 .. Next1 /\ g[j] \in Int /\ g[j] >= 1 /\ f[j] \in Int /\ g[j] = f[j] - BodySize
        BY <1>5, <1>10, <1>11
    <2>2. f[j] >= 1
        BY <1>8, <2>1
    <2> QED BY <2>1, <2>2, NotPast
<1>12. ASSUME NEW j \in 1 .. Len(sent), Past(f, j)
       PROVE  j < k
    BY <1>10, <1>11, <1>12
<1>13. (Places(g) # {})'
    BY <1>1, <1>2, <1>4, <1>6, <1>10, <1>12, ServePlaces
<1>14. \A j \in SoundFrames : j < k => Past(f, j)
    BY <1>2, PastBefore
<1>15. k \in SoundFrames => k = n + 1
    <2> SUFFICES ASSUME k \in SoundFrames
                 PROVE  k = n + 1
        OBVIOUS
    <2>1. ~(k <= n)
        BY <1>1, <1>10 DEF InStep, n
    <2>2. ASSUME k > 1
          PROVE  k - 1 <= n
        <3>1. k - 1 \in 1 .. k /\ k - 1 < k
            BY <2>2
        <3>2. k - 1 \in SoundFrames
            BY <3>1, SoundFrame
        <3> QED BY <1>1, <1>14, <3>1, <3>2 DEF InStep, n
    <2> QED BY <1>8, <2>1, <2>2
<1>16. /\ Len(served') = n + 1 /\ served'[n + 1] = message
       /\ \A i \in 1 .. n : served'[i] = served[i]
    BY <1>1, AppendProperties DEF TypeOK, n
<1>17. ASSUME NEW j \in SoundFrames
       PROVE  /\ j <= n + 1 <=> Past(g, j)
              /\ j <= n + 1 => served'[j] = sent[j].body
    <2>1. j \in 1 .. Len(sent) /\ (j <= n <=> Past(f, j)) /\ (j <= n => served[j] = sent[j].body)
        BY <1>1, <1>7 DEF InStep, n
    <2>2. CASE j < k
        <3>1. Past(f, j) /\ Past(g, j)
            BY <1>4, <1>6, <1>14, <2>1, <2>2
        <3>2. j \in 1 .. n /\ j <= n + 1
            BY <1>8, <2>1, <3>1
        <3> QED BY <1>16, <2>1, <3>1, <3>2
    <2>3. CASE j = k
        BY <1>2, <1>8, <1>10, <1>15, <1>16, <2>3
    <2>4. CASE j > k
        <3>1. k \in SoundFrames /\ ~Past(g, j)
            BY <1>7, <1>11, <2>1, <2>4
        <3>2. ~(j <= n + 1)
            BY <1>8, <1>15, <2>1, <2>4, <3>1
        <3> QED BY <3>1, <3>2
    <2> QED BY <2>1, <2>2, <2>3, <2>4
<1>18. InStep(g)'
    <2>1. \A j \in SoundFrames' :
              /\ exitCode' = Running => (j <= Len(served') <=> Past(g, j)')
              /\ j <= Len(served') => served'[j] = sent'[j].body
        BY <1>1, <1>6, <1>16, <1>17
    <2> QED BY <2>1 DEF InStep
<1>19. Reading(g)'
    <2>1. ASSUME NEW j \in SoundFrames, g[j] < 1, 1 < g[j + 1]
          PROVE  InFrame(j, 2 - g[j])'
        <3>1. j \in 1 .. Len(sent) /\ j \in 1 .. Next1 /\ g[j] \in Int /\ g[j + 1] \in Int
            BY <1>5, <1>7
        <3>2. ~(j < k)
            <4>1. j < k => g[j + 1] <= g[k]
                BY <1>5, <3>1
            <4> QED BY <1>10, <2>1, <3>1, <4>1
        <3>3. ~(j > k)
            <4>1. j > k => g[k + 1] <= g[j]
                BY <1>5, <3>1
            <4> QED BY <1>10, <2>1, <3>1, <4>1
        <3>4. j = k
            BY <3>1, <3>2, <3>3
        <3>5. Len(HeaderOf(k))' = h
            BY <1>6 DEF h
        <3> QED BY <1>1, <1>10, <3>4, <3>5 DEF InFrame
    <2>2. exitCode' = Running =>
            /\ \A j \in 1 .. Next1' : Between(g, j)' => ~inBody' /\ len' = NoLength
            /\ \A j \in SoundFrames' : g[j] < 1 /\ 1 < g[j + 1] => InFrame(j, 2 - g[j])'
        BY <1>1, <1>6, <2>1
    <2> QED BY <2>2 DEF Reading
<1> QED BY <1>4, <1>13, <1>18, <1>19 DEF StreamInv

-----------------------------------------------------------------------------
(* The other steps. *)

\* The client adds a frame at the end: nothing is known about it yet.
LEMMA WriteLayout ==
    ASSUME TypeOK, NEW f, Layout(f), NEW shape \in Shapes, NEW body \in Bodies,
           Write(shape, body), NEW g,
           g = [k \in 1 .. Next1 + 1 |-> IF k = Next1 + 1 THEN f[Next1] + Len(Frame(shape, body))
                                         ELSE f[k]]
    PROVE  /\ Layout(g)' /\ Next1' = Next1 + 1 /\ Len(sent') = Next1
           /\ \A k \in 1 .. Next1 : g[k] = f[k] /\ g[k] \in Int
           /\ g[Next1] >= 1 /\ g[Next1 + 1] > 1 /\ g[Next1 + 1] \in Int
           /\ \A k \in 1 .. Len(sent) : sent'[k] = sent[k]
<1>f. PICK frame : frame = Frame(shape, body)
    OBVIOUS
<1>n. PICK N : N = Next1
    OBVIOUS
<1>1. /\ f \in [1 .. N -> Int] /\ f[1] <= 1 /\ f[N] = Len(stdin) + 1
      /\ \A i, j \in 1 .. N : i < j => f[i] < f[j]
      /\ \A k \in 1 .. Len(sent) :
            /\ f[k + 1] = f[k] + Len(Sent(k))
            /\ \A i \in 1 .. Len(Sent(k)) : f[k] + i - 1 >= 1 => stdin[f[k] + i - 1] = Sent(k)[i]
    BY <1>n DEF Layout
<1>2. /\ Len(sent) \in Nat /\ N = Len(sent) + 1 /\ Len(stdin) \in Nat /\ stdin \in Seq(Symbols)
      /\ frame \in Seq(Symbols) /\ Len(frame) \in Nat /\ Len(frame) >= 1
    <2>1. /\ frame \in Seq(Symbols) /\ Len(Header(shape)) \in 3 .. 5
          /\ Len(frame) >= Len(Header(shape)) /\ Len(frame) \in Nat
        BY <1>f, FrameFacts, HeaderFacts
    <2>2. Len(frame) >= 1
        <3>1. PICK a \in Nat : a = Len(frame)
            BY <2>1
        <3>2. PICK b \in 3 .. 5 : b = Len(Header(shape))
            BY <2>1
        <3>3. a >= b
            BY <2>1, <3>1, <3>2
        <3> QED BY <3>1, <3>3
    <2> QED BY <1>n, <2>1, <2>2, SentFacts DEF Next1
<1>3. /\ Len(sent') = N /\ sent'[N] = [shape |-> shape, body |-> body]
      /\ \A k \in 1 .. Len(sent) : sent'[k] = sent[k]
    <2>1. sent' = Append(sent, [shape |-> shape, body |-> body])
          /\ [shape |-> shape, body |-> body] \in [shape : Shapes, body : Bodies]
        BY DEF Write
    <2> QED BY <1>2, <2>1, AppendProperties DEF TypeOK
<1>4. /\ Len(stdin') = Len(stdin) + Len(frame)
      /\ \A i \in 1 .. Len(stdin) : stdin'[i] = stdin[i]
      /\ \A i \in 1 .. Len(frame) : stdin'[Len(stdin) + i] = frame[i]
    <2>1. stdin' = stdin \o frame
        BY <1>f DEF Write
    <2>2. \A i \in 1 .. Len(stdin) + Len(frame) :
             stdin'[i] = IF i <= Len(stdin) THEN stdin[i] ELSE frame[i - Len(stdin)]
        BY <1>2, <2>1, ConcatProperties
    <2>3. ASSUME NEW i \in 1 .. Len(frame)
          PROVE  stdin'[Len(stdin) + i] = frame[i]
        <3>1. /\ Len(stdin) + i \in 1 .. Len(stdin) + Len(frame) /\ ~(Len(stdin) + i <= Len(stdin))
              /\ Len(stdin) + i - Len(stdin) = i
            BY <1>2
        <3> QED BY <2>2, <3>1
    <2>4. \A i \in 1 .. Len(stdin) : i \in 1 .. Len(stdin) + Len(frame) /\ i <= Len(stdin)
        BY <1>2
    <2> QED BY <1>2, <2>1, <2>2, <2>3, <2>4, ConcatProperties
<1>5. Next1' = N + 1
    BY <1>3, <1>n DEF Next1
<1>6. /\ Sent(N)' = frame /\ \A k \in 1 .. Len(sent) : Sent(k)' = Sent(k)
    <2>1. Sent(N)' = frame
        <3>1. sent'[N].shape = shape /\ sent'[N].body = body
            BY <1>3
        <3>2. Sent(N)' = Frame(sent'[N].shape, sent'[N].body)
            BY DEF Sent
        <3> QED BY <1>f, <3>1, <3>2
    <2> QED BY <1>3, <2>1 DEF Sent
<1>14. g = [k \in 1 .. N + 1 |-> IF k = N + 1 THEN f[N] + Len(frame) ELSE f[k]]
    BY <1>f, <1>n
<1>7. /\ \A k \in 1 .. N : k \in 1 .. N + 1 /\ k # N + 1
      /\ \A k \in 1 .. N + 1 : k \in 1 .. N \/ k = N + 1
      /\ N + 1 \in 1 .. N + 1 /\ 1 \in 1 .. N /\ N \in 1 .. N /\ N \in Nat
      /\ \A k \in 1 .. Len(sent) : k \in 1 .. N /\ k + 1 \in 1 .. N
    BY <1>2
<1>8. /\ \A k \in 1 .. N : g[k] = f[k] /\ f[k] \in Int
      /\ g[N + 1] = Len(stdin) + 1 + Len(frame) /\ g[N] = Len(stdin) + 1
    BY <1>14, <1>1, <1>7
<1>9. g[N + 1] = g[N] + Len(frame) /\ g[N + 1] \in Int /\ g[N + 1] > 1 /\ g[N] >= 1 /\ g[N] < g[N + 1]
    <2>1. PICK a \in Nat : a = Len(stdin)
        BY <1>2
    <2>2. PICK b \in Nat : b = Len(frame) /\ b >= 1
        BY <1>2
    <2>3. g[N] = a + 1 /\ g[N + 1] = a + 1 + b
        BY <1>8, <2>1, <2>2
    <2> QED BY <2>2, <2>3
<1>10. g \in [1 .. N + 1 -> Int]
    BY <1>14, <1>7, <1>8, <1>9
<1>11. ASSUME NEW i \in 1 .. N + 1, NEW j \in 1 .. N + 1, i < j
       PROVE  g[i] < g[j]
    <2>1. i \in 1 .. N
        BY <1>7, <1>11
    <2>2. CASE j \in 1 .. N
        BY <1>1, <1>8, <1>11, <2>1, <2>2
    <2>3. CASE j = N + 1
        <3>1. i = N \/ i < N
            BY <1>7, <2>1
        <3>2. g[i] <= g[N]
            <4>0. g[i] = f[i] /\ f[i] \in Int /\ g[N] = f[N] /\ f[N] \in Int
                BY <1>7, <1>8, <2>1
            <4>1. i < N => f[i] < f[N]
                BY <1>1, <1>7, <2>1
            <4>2. i = N => f[i] = f[N]
                OBVIOUS
            <4> QED BY <3>1, <4>0, <4>1, <4>2
        <3>3. g[i] \in Int /\ g[N] \in Int /\ g[N + 1] \in Int /\ g[N] < g[N + 1]
            BY <1>7, <1>8, <1>9, <2>1
        <3> QED BY <2>3, <3>2, <3>3
    <2> QED BY <1>7, <2>2, <2>3
<1>12. ASSUME NEW k \in 1 .. N
       PROVE  /\ g[k + 1] = g[k] + Len(Sent(k)')
              /\ \A i \in 1 .. Len(Sent(k)') :
                    g[k] + i - 1 >= 1 => stdin'[g[k] + i - 1] = Sent(k)'[i]
    <2>1. CASE k = N
        <3>1. Sent(k)' = frame
            BY <1>6, <2>1
        <3>2. \A i \in 1 .. Len(frame) : g[k] + i - 1 = Len(stdin) + i
            BY <1>2, <1>8, <2>1
        <3> QED BY <1>4, <1>9, <2>1, <3>1, <3>2
    <2>2. CASE k \in 1 .. Len(sent)
        <3>1. Sent(k)' = Sent(k) /\ g[k] = f[k] /\ g[k + 1] = f[k + 1] /\ f[k] \in Int /\ f[k + 1] \in Int
            BY <1>6, <1>7, <1>8, <2>2
        <3>2. f[k + 1] <= Len(stdin) + 1
            <4>1. k + 1 \in 1 .. N /\ (k + 1 = N \/ k + 1 < N)
                BY <1>7, <2>2
            <4>2. k + 1 < N => f[k + 1] < f[N]
                BY <1>1, <1>7, <4>1
            <4>3. f[N] = Len(stdin) + 1 /\ f[N] \in Int
                BY <1>1, <1>7
            <4> QED BY <3>1, <4>1, <4>2, <4>3
        <3>3. f[k + 1] = f[k] + Len(Sent(k)) /\ Len(Sent(k)) \in Nat
            BY <1>1, <2>2, FrameOf
        <3>4. ASSUME NEW i \in 1 .. Len(Sent(k)), f[k] + i - 1 >= 1
              PROVE  stdin'[f[k] + i - 1] = Sent(k)[i]
            <4>1. f[k] + i - 1 \in 1 .. Len(stdin)
                BY <1>2, <3>1, <3>2, <3>3, <3>4
            <4>2. stdin[f[k] + i - 1] = Sent(k)[i]
                BY <1>1, <2>2, <3>4
            <4> QED BY <1>4, <4>1, <4>2
        <3> QED BY <3>1, <3>3, <3>4
    <2>3. k = N \/ k \in 1 .. Len(sent)
        BY <1>2
    <2> QED BY <2>1, <2>2, <2>3
<1>13. Layout(g)'
    <2>1. /\ g \in [1 .. Next1' -> Int] /\ g[1] <= 1 /\ g[Next1'] = Len(stdin') + 1
          /\ \A i, j \in 1 .. Next1' : i < j => g[i] < g[j]
        <3>1. g[1] <= 1
            BY <1>1, <1>7, <1>8
        <3>2. g[N + 1] = Len(stdin') + 1
            BY <1>2, <1>4, <1>8
        <3> QED BY <1>5, <1>10, <1>11, <3>1, <3>2
    <2>2. \A k \in 1 .. Len(sent') :
             /\ g[k + 1] = g[k] + Len(Sent(k)')
             /\ \A i \in 1 .. Len(Sent(k)') : g[k] + i - 1 >= 1 => stdin'[g[k] + i - 1] = Sent(k)'[i]
        BY <1>3, <1>12
    <2> QED BY <2>1, <2>2 DEF Layout
<1> QED BY <1>n, <1>3, <1>5, <1>7, <1>8, <1>9, <1>13

LEMMA ServedAreSent ==
    ASSUME TypeOK, NEW f, Places(f) # {}
    PROVE  Len(served) <= Len(sent)
<1>1. PICK p \in Places(f) : TRUE
    OBVIOUS
<1>2. /\ DOMAIN sent = 1 .. Len(sent) /\ DOMAIN served = 1 .. Len(served)
      /\ Len(served) \in Nat /\ Len(sent) \in Nat
    BY SentFacts
<1>3. /\ p \in [1 .. Len(served) -> 1 .. Len(sent)]
      /\ \A i, j \in 1 .. Len(served) : i < j => p[i] < p[j]
    BY <1>1, <1>2 DEF Places
<1>4. \A i \in 1 .. Len(served) : i <= Len(sent)
    BY <1>2, <1>3, PlacesGrow
<1> QED BY <1>2, <1>4

LEMMA WriteStep ==
    ASSUME TypeOK, NEW f, Layout(f), Places(f) # {}, InStep(f), Reading(f),
           NEW shape \in Shapes, NEW body \in Bodies, Write(shape, body)
    PROVE  StreamInv'
<1>1. PICK g : g = [k \in 1 .. Next1 + 1 |-> IF k = Next1 + 1 THEN f[Next1] + Len(Frame(shape, body))
                                             ELSE f[k]]
    OBVIOUS
<1>2. /\ Layout(g)' /\ Next1' = Next1 + 1 /\ Len(sent') = Next1
      /\ \A k \in 1 .. Next1 : g[k] = f[k] /\ g[k] \in Int
      /\ g[Next1] >= 1 /\ g[Next1 + 1] > 1 /\ g[Next1 + 1] \in Int
      /\ \A k \in 1 .. Len(sent) : sent'[k] = sent[k]
    BY <1>1, WriteLayout
<1>3. UNCHANGED <<len, inBody, exitCode, served>>
    BY DEF Write, reading
<1>4. /\ Len(sent) \in Nat /\ Next1 = Len(sent) + 1 /\ DOMAIN sent = 1 .. Len(sent)
      /\ DOMAIN served = 1 .. Len(served) /\ Len(served) \in Nat
    BY SentFacts DEF Next1
<1>5. DOMAIN sent' = 1 .. Next1 /\ sent' \in Seq([shape : Shapes, body : Bodies])
    <2>1. TypeOK'
        BY ClientType
    <2>2. sent' \in Seq([shape : Shapes, body : Bodies])
        BY <2>1 DEF TypeOK
    <2> QED BY <1>2, <2>2, LenProperties
<1>6. /\ \A k \in 1 .. Len(sent) : k \in 1 .. Next1 /\ k + 1 \in 1 .. Next1
      /\ \A k \in 1 .. Next1 : k \in 1 .. Len(sent) \/ k = Next1
      /\ \A k \in 1 .. Next1 + 1 : k \in 1 .. Next1 \/ k = Next1 + 1
    BY <1>4
<1>7. ASSUME NEW k \in 1 .. Len(sent)
      PROVE  /\ HeaderOf(k)' = HeaderOf(k) /\ (Past(g, k)' <=> Past(f, k))
             /\ k \in SoundFrames' <=> k \in SoundFrames
    <2>1. HeaderOf(k)' = HeaderOf(k) /\ g[k] = f[k]
        BY <1>2, <1>6 DEF HeaderOf
    <2>2. \A j \in 1 .. k : sent'[j] = sent[j]
        <3>1. \A j \in 1 .. k : j \in 1 .. Len(sent)
            BY <1>4
        <3> QED BY <1>2, <3>1
    <2>3. k \in SoundFrames' <=> k \in SoundFrames
        BY <1>4, <1>5, <1>6, <2>2 DEF SoundFrames
    <2> QED BY <2>1, <2>3 DEF Past
<1>8. SoundFrames' \subseteq 1 .. Next1
    BY <1>5 DEF SoundFrames
<1>9. (Places(g) # {})'
    <2>1. PICK p \in Places(f) : TRUE
        OBVIOUS
    <2>2. /\ p \in [DOMAIN served -> DOMAIN sent]
          /\ \A i, j \in DOMAIN served : i < j => p[i] < p[j]
          /\ \A i \in DOMAIN served : served[i] = sent[p[i]].body /\ Past(f, p[i])
        BY <2>1 DEF Places
    <2>3. p \in [DOMAIN served' -> DOMAIN sent']
        BY <1>3, <1>4, <1>5, <1>6, <2>2
    <2>4. \A i \in DOMAIN served' : served'[i] = sent'[p[i]].body /\ Past(g, p[i])'
        BY <1>2, <1>3, <1>4, <1>7, <2>2
    <2>5. p \in {places \in [DOMAIN served' -> DOMAIN sent'] :
                   /\ \A i, j \in DOMAIN served' : i < j => places[i] < places[j]
                   /\ \A i \in DOMAIN served' : /\ served'[i] = sent'[places[i]].body
                                               /\ Past(g, places[i])'}
        BY <1>3, <2>2, <2>3, <2>4
    <2>6. p \in Places(g)'
        BY <2>5 DEF Places, Past, HeaderOf
    <2> QED BY <2>6
<1>10. InStep(g)'
    <2>1. ASSUME NEW k \in SoundFrames'
          PROVE  /\ exitCode' = Running => (k <= Len(served') <=> Past(g, k)')
                 /\ k <= Len(served') => served'[k] = sent'[k].body
        <3>1. CASE k \in 1 .. Len(sent)
            BY <1>2, <1>3, <1>7, <2>1, <3>1 DEF InStep
        <3>2. CASE k = Next1
            <4>1. ~(k <= Len(served'))
                BY <1>3, <1>4, <3>2, ServedAreSent
            <4>2. TypeOK' /\ Next1 \in 1 .. Len(sent')
                BY <1>2, <1>4, ClientType
            <4>3. ~Past(g, k)'
                <5>1. Len(Header(sent'[k].shape)) \in 3 .. 5
                    BY HeaderFacts
                <5>2. Len(HeaderOf(k))' = Len(Header(sent'[k].shape))
                    BY DEF HeaderOf
                <5>3. g[k] >= 1 /\ g[k] \in Int
                    BY <1>2, <1>6, <1>4, <3>2
                <5>4. \A h \in 3 .. 5 : ~(g[k] + h + BodySize <= 1)
                    BY <5>3, Numbers
                <5> QED BY <5>1, <5>2, <5>4 DEF Past, HeaderOf
            <4> QED BY <4>1, <4>3
        <3> QED BY <1>6, <1>8, <3>1, <3>2
    <2> QED BY <2>1 DEF InStep
<1>11. Reading(g)'
    <2>1. ASSUME NEW k \in 1 .. Next1 + 1, Between(g, k)', exitCode = Running
          PROVE  ~inBody' /\ len' = NoLength
        <3>1. g[k] = 1 /\ \A j \in 1 .. k - 1 : Sound(sent'[j])
            BY <2>1 DEF Between
        <3>2. k \in 1 .. Next1
            BY <1>2, <1>6, <3>1
        <3>3. \A j \in 1 .. k - 1 : j \in 1 .. Len(sent)
            BY <1>4, <3>2
        <3>4. Between(f, k)
            BY <1>2, <3>1, <3>2, <3>3 DEF Between
        <3> QED BY <1>3, <2>1, <3>2, <3>4 DEF Reading
    <2>2. ASSUME NEW k \in SoundFrames', g[k] < 1, 1 < g[k + 1], exitCode = Running
          PROVE  InFrame(k, 2 - g[k])'
        <3>1. k \in 1 .. Len(sent)
            <4>1. k # Next1
                <5> SUFFICES ASSUME k = Next1
                             PROVE  FALSE
                    OBVIOUS
                <5>1. g[k] >= 1 /\ g[k] \in Int
                    BY <1>2, <1>4
                <5> QED BY <2>2, <5>1
            <4> QED BY <1>6, <1>8, <4>1
        <3>2. /\ k \in SoundFrames /\ g[k] = f[k] /\ g[k + 1] = f[k + 1]
              /\ HeaderOf(k)' = HeaderOf(k)
            BY <1>2, <1>6, <1>7, <2>2, <3>1
        <3>3. InFrame(k, 2 - g[k])
            BY <2>2, <3>2 DEF Reading
        <3> QED BY <1>3, <3>2, <3>3 DEF InFrame
    <2>3. exitCode' = Running =>
            /\ \A k \in 1 .. Next1' : Between(g, k)' => ~inBody' /\ len' = NoLength
            /\ \A k \in SoundFrames' : g[k] < 1 /\ 1 < g[k + 1] => InFrame(k, 2 - g[k])'
        BY <1>2, <1>3, <2>1, <2>2
    <2> QED BY <2>3 DEF Reading
<1> QED BY <1>2, <1>9, <1>10, <1>11 DEF StreamInv

\* The loop of main has ended: what is left on stdin no longer matters.
LEMMA StopStep ==
    ASSUME TypeOK, NEW f, Layout(f), Places(f) # {}, InStep(f),
           EndOfInput \/ BodyMissing \/ BodyRefused
    PROVE  StreamInv'
<1>1. exitCode = Running /\ exitCode' # Running /\ UNCHANGED <<sent, served>>
    BY Numbers DEF EndOfInput, BodyMissing, BodyRefused, CanReadBody, Stop
<1>2. \E r \in 0 .. Len(stdin) : stdin' = SubSeq(stdin, r + 1, Len(stdin))
    <2>1. CASE BodyRefused
        BY <2>1, StepReads
    <2>2. CASE EndOfInput \/ BodyMissing
        <3>1. stdin' = stdin /\ stdin \in Seq(Symbols) /\ Len(stdin) \in Nat
            BY <2>2, SentFacts DEF EndOfInput, BodyMissing
        <3>2. 0 \in 0 .. Len(stdin) /\ Len(stdin) - 0 = Len(stdin) /\ \A i \in 1 .. Len(stdin) : 0 + i = i
            BY <3>1
        <3>3. /\ SubSeq(stdin, 0 + 1, Len(stdin)) \in Seq(Symbols)
              /\ Len(SubSeq(stdin, 0 + 1, Len(stdin))) = Len(stdin)
              /\ \A i \in 1 .. Len(stdin) : SubSeq(stdin, 0 + 1, Len(stdin))[i] = stdin[i]
            BY <3>1, <3>2, TailFacts
        <3>4. SubSeq(stdin, 0 + 1, Len(stdin)) = stdin
            BY <3>1, <3>3, SeqEqual
        <3> QED BY <3>1, <3>2, <3>4
    <2> QED BY <2>1, <2>2
<1>3. PICK r \in 0 .. Len(stdin) : stdin' = SubSeq(stdin, r + 1, Len(stdin))
    BY <1>2
<1>4. PICK g : g = [k \in 1 .. Next1 |-> f[k] - r]
    OBVIOUS
<1>5. Layout(g)' /\ \A k \in 1 .. Len(sent) : Past(f, k) => Past(g, k)'
    BY <1>1, <1>3, <1>4, ReadLayout
<1>6. (Places(g) # {})'
    BY <1>1, <1>5, KeepPlaces
<1>7. InStep(g)' /\ Reading(g)'
    BY <1>1, SameSent DEF InStep, Reading
<1> QED BY <1>5, <1>6, <1>7 DEF StreamInv

LEMMA QuietStep ==
    ASSUME StreamInv, UNCHANGED <<stdin, reading, exitCode, sent, served>>
    PROVE  StreamInv'
<1>1. PICK f : Layout(f) /\ Places(f) # {} /\ InStep(f) /\ Reading(f)
    BY DEF StreamInv
<1>2. /\ SoundFrames' = SoundFrames /\ Next1' = Next1 /\ \A k : HeaderOf(k)' = HeaderOf(k)
      /\ \A k : Past(f, k)' <=> Past(f, k)
      /\ \A k : Between(f, k)' <=> Between(f, k)
      /\ \A k : Sent(k)' = Sent(k)
      /\ inBody' = inBody /\ len' = len
    BY SameSent DEF Sent, reading
<1>3. Layout(f)'
    BY <1>1, <1>2 DEF Layout
<1>4. (Places(f) # {})'
    BY <1>1, <1>2 DEF Places, Past, HeaderOf
<1>5. InStep(f)'
    BY <1>1, <1>2 DEF InStep
<1>6. \A k, o : InFrame(k, o)' <=> InFrame(k, o)
    BY <1>2 DEF InFrame
<1>7. Reading(f)'
    BY <1>1, <1>2, <1>6 DEF Reading
<1> QED BY <1>3, <1>4, <1>5, <1>7 DEF StreamInv

LEMMA InitStream == Init => StreamInv
<1> SUFFICES ASSUME Init
             PROVE  StreamInv
    OBVIOUS
<1>1. /\ Len(sent) = 0 /\ Len(stdin) = 0 /\ DOMAIN sent = {} /\ DOMAIN served = {} /\ Next1 = 1
      /\ inBody = FALSE /\ len = NoLength
    BY DEF Init, Next1
<1>2. PICK f : f = [k \in 1 .. 1 |-> 1]
    OBVIOUS
<1>3. Layout(f)
    <2>1. f \in [1 .. 1 -> Int] /\ f[1] = 1 /\ 1 .. 0 = {}
        BY <1>2
    <2>2. \A i, j \in 1 .. 1 : ~(i < j)
        OBVIOUS
    <2> QED BY <1>1, <2>1, <2>2 DEF Layout
<1>4. Places(f) # {}
    <2>1. PICK p : p = [i \in {} |-> 1]
        OBVIOUS
    <2>2. p \in [DOMAIN served -> DOMAIN sent]
        BY <1>1, <2>1
    <2>3. p \in Places(f)
        BY <1>1, <2>2 DEF Places
    <2> QED BY <2>3
<1>5. SoundFrames = {}
    BY <1>1 DEF SoundFrames
<1> QED BY <1>1, <1>3, <1>4, <1>5 DEF StreamInv, InStep, Reading

LEMMA NextStream == FramingInv /\ [Next]_vars => StreamInv'
<1> SUFFICES ASSUME TypeOK, StreamInv, [Next]_vars
             PROVE  StreamInv'
    BY DEF FramingInv
<1>1. PICK f : Layout(f) /\ Places(f) # {} /\ InStep(f) /\ Reading(f)
    BY DEF StreamInv
<1>2. CASE HeaderLine
    BY <1>1, <1>2, HeaderLineStep
<1>3. CASE EndOfInput \/ BodyMissing \/ BodyRefused
    BY <1>1, <1>3, StopStep
<1>4. ASSUME NEW message \in Messages, Serve(message)
      PROVE  StreamInv'
    BY <1>1, <1>4, ServeStep
<1>5. ASSUME NEW shape \in Shapes, NEW body \in Bodies, Write(shape, body)
      PROVE  StreamInv'
    BY <1>1, <1>5, WriteStep
<1>6. CASE Close
    BY <1>6, QuietStep DEF Close
<1>7. CASE UNCHANGED vars
    BY <1>7, QuietStep DEF vars
<1> QED BY <1>2, <1>3, <1>4, <1>5, <1>6, <1>7 DEF Next, ServerNext, ClientNext, Rest

LEMMA StreamServes == FramingInv => ServedAsSent
<1> SUFFICES ASSUME TypeOK, StreamInv
             PROVE  ServedAsSent
    BY DEF FramingInv
<1>1. PICK f : Layout(f) /\ Places(f) # {} /\ InStep(f) /\ Reading(f)
    BY DEF StreamInv
<1>2. PICK p \in Places(f) : TRUE
    BY <1>1
<1>3. /\ p \in [DOMAIN served -> DOMAIN sent]
      /\ \A i \in DOMAIN served : served[i] = sent[p[i]].body
      /\ \A i, j \in DOMAIN served : i < j => p[i] < p[j]
    BY <1>2 DEF Places
<1>4. ASSUME NEW i \in DOMAIN served
      PROVE  i \in DOMAIN sent /\ (i \in SoundFrames => served[i] = sent[i].body)
    <2>1. Len(served) <= Len(sent)
        BY <1>1, ServedAreSent
    <2>2. i \in 1 .. Len(served) /\ i <= Len(served) /\ i \in DOMAIN sent
        BY <2>1, SentFacts
    <2> QED BY <1>1, <2>2 DEF InStep
<1> QED BY <1>3, <1>4 DEF ServedAsSent

(***************************************************************************)
(* The messages of correct frames are served in the order they were sent,  *)
(* none skipped and none made up, and after a faulty frame nothing is      *)
(* served that was not sent whole (read_message and the loop of main).     *)
(***************************************************************************)
THEOREM FramesServedAsSent == Spec => []ServedAsSent
<1>1. Init => FramingInv
    BY InitType, InitStream DEF FramingInv
<1>2. FramingInv /\ [Next]_vars => FramingInv'
    BY NextType, NextStream DEF FramingInv
<1> QED BY <1>1, <1>2, StreamServes, PTL DEF Spec
=============================================================================
