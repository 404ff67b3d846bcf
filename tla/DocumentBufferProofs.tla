------------------------ MODULE DocumentBufferProofs ------------------------
(***************************************************************************)
(* What the conversions and the edit of TextEdit compute, for texts of any *)
(* length: every offset has one position, the conversions between them are *)
(* inverse to each other, and an edit between two positions replaces what  *)
(* lies between their offsets.  LspSessionProofs takes these lemmas from   *)
(* here too.  With them, the properties of DocumentBuffer: they hold of    *)
(* every text, so the invariant they need is the type of the buffer.       *)
(*                                                                         *)
(* The argument counts line breaks.  LineAt(text, o) is the number of      *)
(* breaks before offset o; it grows with o by one at each break, so it     *)
(* takes every value up to the number of breaks, and the offsets where it  *)
(* has a given value are those of one line.  The lemmas name the text they *)
(* are about t, for `text` is the buffer.                                  *)
(***************************************************************************)
EXTENDS DocumentBuffer, FiniteSetTheorems, SequenceTheorems, WellFoundedInduction, TLAPS

Breaks(t) == {i \in 1 .. Len(t) : t[i] = NL}
Upto(S, n) == {i \in S : i <= n}
LineAt(t, o) == Cardinality(Upto(Breaks(t), o))

-----------------------------------------------------------------------------
(***************************************************************************)
(* A set of natural numbers that is not empty has a least element, and one *)
(* that has a bound a greatest one.                                        *)
(***************************************************************************)
LEMMA Least ==
    ASSUME NEW S \in SUBSET Nat, S # {}
    PROVE  \E a \in S : \A b \in S : a <= b
<1>1. PICK a \in S : \A b \in S : ~ (<<b, a>> \in OpToRel(<, Nat))
    BY NatLessThanWellFounded, WFMin
<1>2. \A b \in S : a <= b
    <2> TAKE b \in S
    <2>1. a \in Nat /\ b \in Nat
        OBVIOUS
    <2>2. ~(b < a)
        BY <1>1, <2>1 DEF OpToRel
    <2> QED BY <2>1, <2>2
<1> QED BY <1>2

LEMMA Greatest ==
    ASSUME NEW n \in Nat, NEW S \in SUBSET (0 .. n), S # {}
    PROVE  \E a \in S : \A b \in S : b <= a
<1> DEFINE T == {n - b : b \in S}
<1>1. T \in SUBSET Nat /\ T # {}
    <2>1. \A b \in S : b \in Int /\ 0 <= b /\ b <= n
        OBVIOUS
    <2>2. \A b \in S : n - b \in Nat
        BY <2>1
    <2>3. PICK b \in S : TRUE
        OBVIOUS
    <2>4. n - b \in T
        BY <2>3
    <2> QED BY <2>2, <2>4
<1>2. PICK c \in T : \A d \in T : c <= d
    BY <1>1, Least
<1>3. PICK a \in S : c = n - a
    OBVIOUS
<1>4. \A b \in S : b <= a
    <2> TAKE b \in S
    <2>1. n - b \in T
        OBVIOUS
    <2>2. c <= n - b
        BY <1>2, <2>1
    <2>3. a \in 0 .. n /\ b \in 0 .. n
        OBVIOUS
    <2> QED BY <2>2, <2>3, <1>3
<1> QED BY <1>4

(***************************************************************************)
(* Counting the elements of a set of positive numbers up to n: the count   *)
(* starts at zero, grows with n, and grows strictly where an element is    *)
(* passed.                                                                 *)
(***************************************************************************)
LEMMA Counting ==
    ASSUME NEW n \in Nat, NEW S \in SUBSET (1 .. n)
    PROVE  /\ IsFiniteSet(S) /\ Cardinality(S) \in Nat
           /\ \A i \in Nat : /\ IsFiniteSet(Upto(S, i))
                             /\ Cardinality(Upto(S, i)) \in Nat
                             /\ Cardinality(Upto(S, i)) <= Cardinality(S)
           /\ Cardinality(Upto(S, 0)) = 0
           /\ Upto(S, n) = S
<1>1. IsFiniteSet(1 .. n)
    BY FS_Interval
<1>2. IsFiniteSet(S)
    BY <1>1, FS_Subset
<1>3. Cardinality(S) \in Nat
    BY <1>2, FS_CardinalityType
<1>4. \A i \in Nat : Upto(S, i) \in SUBSET S
    BY DEF Upto
<1>5. \A i \in Nat : /\ IsFiniteSet(Upto(S, i))
                     /\ Cardinality(Upto(S, i)) <= Cardinality(S)
    BY <1>2, <1>4, FS_Subset
<1>6. \A i \in Nat : Cardinality(Upto(S, i)) \in Nat
    BY <1>5, FS_CardinalityType
<1>0. \A s \in S : s \in Nat /\ 1 <= s /\ s <= n
    OBVIOUS
<1>7. Upto(S, 0) = {}
    <2>1. \A s \in S : ~(s <= 0)
        BY <1>0
    <2> QED BY <2>1 DEF Upto
<1>8. Upto(S, n) = S
    BY <1>0 DEF Upto
<1> QED BY <1>2, <1>3, <1>5, <1>6, <1>7, <1>8, FS_EmptySet

LEMMA CountGrows ==
    ASSUME NEW n \in Nat, NEW S \in SUBSET (1 .. n), NEW i \in Nat, NEW j \in Nat, i <= j
    PROVE  /\ Cardinality(Upto(S, i)) <= Cardinality(Upto(S, j))
           /\ j \in S /\ i < j => Cardinality(Upto(S, i)) < Cardinality(Upto(S, j))
<1>0. \A s \in S : s \in Nat
    OBVIOUS
<1>1. Upto(S, i) \in SUBSET Upto(S, j)
    <2>1. \A s \in S : s <= i => s <= j
        BY <1>0
    <2> QED BY <2>1 DEF Upto
<1>2. IsFiniteSet(Upto(S, j))
    BY Counting
<1>3. Cardinality(Upto(S, i)) <= Cardinality(Upto(S, j))
    BY <1>1, <1>2, FS_Subset
<1>4. ASSUME j \in S, i < j
      PROVE  Cardinality(Upto(S, i)) # Cardinality(Upto(S, j))
    <2>1. j \in Upto(S, j) /\ j \notin Upto(S, i)
        BY <1>4 DEF Upto
    <2> QED BY <2>1, <1>1, <1>2, FS_Subset
<1>5. Cardinality(Upto(S, i)) \in Nat /\ Cardinality(Upto(S, j)) \in Nat
    BY Counting
<1> QED BY <1>3, <1>4, <1>5

LEMMA CountStep ==
    ASSUME NEW n \in Nat, NEW S \in SUBSET (1 .. n), NEW i \in Nat
    PROVE  Cardinality(Upto(S, i + 1)) =
               IF i + 1 \in S THEN Cardinality(Upto(S, i)) + 1 ELSE Cardinality(Upto(S, i))
<1>0. \A s \in S : s \in Nat
    OBVIOUS
<1>1. CASE i + 1 \in S
    <2>1. Upto(S, i + 1) = Upto(S, i) \cup {i + 1}
        <3>1. \A s \in S : s <= i + 1 <=> (s <= i \/ s = i + 1)
            BY <1>0
        <3> QED BY <1>1, <3>1 DEF Upto
    <2>2. i + 1 \notin Upto(S, i)
        BY DEF Upto
    <2>3. IsFiniteSet(Upto(S, i))
        BY Counting
    <2> QED BY <1>1, <2>1, <2>2, <2>3, FS_AddElement
<1>2. CASE i + 1 \notin S
    <2>1. Upto(S, i + 1) = Upto(S, i)
        <3>1. \A s \in S : s <= i + 1 <=> s <= i
            BY <1>0, <1>2
        <3> QED BY <3>1 DEF Upto
    <2> QED BY <1>2, <2>1
<1> QED BY <1>1, <1>2

\* Every number up to the size of the set is the count at one of its elements.
LEMMA CountReaches ==
    ASSUME NEW n \in Nat, NEW S \in SUBSET (1 .. n), NEW k \in 1 .. Cardinality(S)
    PROVE  \E i \in S : Cardinality(Upto(S, i)) = k
<1> DEFINE T == {i \in Nat : k <= Cardinality(Upto(S, i))}
<1>0. k \in Nat /\ 1 <= k /\ k <= Cardinality(S)
    BY Counting
<1>1. n \in T
    BY <1>0, Counting
<1>2. PICK i \in T : \A j \in T : i <= j
    BY <1>1, Least
<1>3. i \in Nat /\ k <= Cardinality(Upto(S, i))
    OBVIOUS
<1>4. i # 0
    BY <1>0, <1>3, Counting
<1>5. i - 1 \in Nat /\ (i - 1) + 1 = i
    BY <1>3, <1>4
<1>6. ~(k <= Cardinality(Upto(S, i - 1)))
    <2>1. i - 1 \notin T
        BY <1>2, <1>3
    <2> QED BY <1>5, <2>1
<1>7. Cardinality(Upto(S, i)) =
          IF i \in S THEN Cardinality(Upto(S, i - 1)) + 1 ELSE Cardinality(Upto(S, i - 1))
    <2>1. Cardinality(Upto(S, (i - 1) + 1)) =
              IF (i - 1) + 1 \in S THEN Cardinality(Upto(S, i - 1)) + 1
              ELSE Cardinality(Upto(S, i - 1))
        BY <1>5, CountStep
    <2> QED BY <1>5, <2>1
<1>8. Cardinality(Upto(S, i)) \in Nat /\ Cardinality(Upto(S, i - 1)) \in Nat
    BY <1>3, <1>5, Counting
<1>9. i \in S /\ Cardinality(Upto(S, i)) = k
    BY <1>0, <1>3, <1>6, <1>7, <1>8
<1> QED BY <1>9

-----------------------------------------------------------------------------
(***************************************************************************)
(* The same for the lines of a text.                                       *)
(***************************************************************************)
LEMMA Lines ==
    ASSUME NEW t, Len(t) \in Nat
    PROVE  /\ Breaks(t) \in SUBSET (1 .. Len(t))
           /\ IsFiniteSet(Breaks(t)) /\ Cardinality(Breaks(t)) \in Nat
           /\ \A o \in Nat : LineAt(t, o) \in Nat /\ LineAt(t, o) <= Cardinality(Breaks(t))
           /\ LineAt(t, 0) = 0
           /\ LineAt(t, Len(t)) = Cardinality(Breaks(t))
<1>1. Breaks(t) \in SUBSET (1 .. Len(t))
    BY DEF Breaks
<1> QED BY <1>1, Counting DEF LineAt

LEMMA LinesGrow ==
    ASSUME NEW t, Len(t) \in Nat, NEW i \in Nat, NEW j \in Nat
    PROVE  /\ i <= j => LineAt(t, i) <= LineAt(t, j)
           /\ i < j /\ j \in Breaks(t) => LineAt(t, i) < LineAt(t, j)
<1>1. Breaks(t) \in SUBSET (1 .. Len(t))
    BY DEF Breaks
<1>2. i < j => i <= j
    OBVIOUS
<1> QED BY <1>1, <1>2, CountGrows DEF LineAt

(***************************************************************************)
(* The scan for a line finds exactly the offsets of that line, or of the   *)
(* last one when there are fewer.                                          *)
(***************************************************************************)
LEMMA SpanIsLine ==
    ASSUME NEW t, Len(t) \in Nat, NEW line \in Nat
    PROVE  LET span == LineSpan(t, line)
               wanted == Smaller(line, Cardinality(Breaks(t)))
           IN  /\ span.start \in Breaks(t) \cup {0}
               /\ span.start \in Nat /\ span.stop \in Nat
               /\ span.start <= span.stop /\ span.stop <= Len(t)
               /\ \A o \in 0 .. Len(t) :
                     LineAt(t, o) = wanted <=> (span.start <= o /\ o <= span.stop)
<1> DEFINE B == Breaks(t)
           n == Len(t)
           w == Smaller(line, Cardinality(B))
           s == CHOOSE i \in B \cup {0} : LineAt(t, i) = w
           e == CHOOSE i \in B : LineAt(t, i) = w + 1
           span == LineSpan(t, line)
<1>1. /\ span.start = s
      /\ span.stop = IF w = Cardinality(B) THEN n ELSE e - 1
    BY Zenon DEF LineSpan, LineAt, Upto, Breaks
<1>2. B \in SUBSET (1 .. n) /\ Cardinality(B) \in Nat
    BY Lines
<1>3. w \in Nat /\ w <= Cardinality(B)
    BY <1>2 DEF Smaller
<1>4. \E i \in B \cup {0} : LineAt(t, i) = w
    <2>1. CASE w = 0
        BY <2>1, Lines
    <2>2. CASE w # 0
        <3>1. w \in 1 .. Cardinality(B)
            BY <2>2, <1>2, <1>3
        <3>2. \E i \in B : Cardinality(Upto(B, i)) = w
            BY <1>2, <3>1, CountReaches
        <3> QED BY <3>2 DEF LineAt
    <2> QED BY <2>1, <2>2
<1>5. s \in B \cup {0} /\ LineAt(t, s) = w
    BY <1>4, Zenon
<1>6. ASSUME w # Cardinality(B)
      PROVE  e \in B /\ LineAt(t, e) = w + 1
    <2>1. w + 1 \in 1 .. Cardinality(B)
        BY <1>2, <1>3, <1>6
    <2>2. \E i \in B : Cardinality(Upto(B, i)) = w + 1
        BY <1>2, <2>1, CountReaches
    <2>3. \E i \in B : LineAt(t, i) = w + 1
        BY <2>2 DEF LineAt
    <2> QED BY <2>3, Zenon
<1> HIDE DEF B, n, w, s, e, span
<1>7. n \in Nat /\ s \in Nat /\ s <= n
    <2>1. n \in Nat
        BY DEF n
    <2> QED BY <2>1, <1>2, <1>5
<1>8. \A o \in 0 .. n : o < s => LineAt(t, o) # w
    <2> TAKE o \in 0 .. n
    <2> HAVE o < s
    <2>1. o \in Nat
        BY <1>7
    <2>2. s \in B
        BY <1>5, <2>1
    <2>3. LineAt(t, o) < LineAt(t, s)
        BY <2>1, <2>2, <1>7, LinesGrow DEF B
    <2> QED BY <2>1, <2>3, <1>3, <1>5, Lines
<1>9. \A o \in 0 .. n : s <= o => LineAt(t, o) \in Nat /\ w <= LineAt(t, o)
    BY <1>5, <1>7, LinesGrow, Lines
<1>10. CASE w = Cardinality(B)
    <2>1. span.stop = n
        BY <1>1, <1>10
    <2>2. \A o \in 0 .. n : LineAt(t, o) \in Nat /\ LineAt(t, o) <= w
        BY <1>7, <1>10, Lines DEF B
    <2>3. \A o \in 0 .. n : LineAt(t, o) = w <=> s <= o /\ o <= n
        BY <1>3, <1>7, <1>8, <1>9, <2>2
    <2> QED BY <2>1, <2>3, <1>1, <1>5, <1>7 DEF n, B, w, span
<1>11. CASE w # Cardinality(B)
    <2>1. span.stop = e - 1 /\ e \in B /\ LineAt(t, e) = w + 1
        BY <1>1, <1>6, <1>11
    <2>2. e \in Nat /\ 1 <= e /\ e <= n
        BY <2>1, <1>2, <1>7
    <2>3. s < e
        <3>1. ~(e <= s)
            <4>1. e <= s => LineAt(t, e) <= LineAt(t, s)
                BY <1>7, <2>2, LinesGrow
            <4> QED BY <4>1, <2>1, <1>5, <1>3
        <3> QED BY <3>1, <2>2, <1>7
    <2>4. \A o \in 0 .. n : o < e => LineAt(t, o) < w + 1
        <3> TAKE o \in 0 .. n
        <3>1. o \in Nat
            BY <1>7
        <3> QED BY <3>1, <2>1, <2>2, LinesGrow DEF B
    <2>5. \A o \in 0 .. n : e <= o => w + 1 <= LineAt(t, o)
        BY <1>7, <2>1, <2>2, LinesGrow
    <2>6. \A o \in 0 .. n : LineAt(t, o) \in Nat
        BY <1>7, Lines
    <2>7. \A o \in 0 .. n : LineAt(t, o) = w <=> s <= o /\ o <= e - 1
        BY <1>3, <1>7, <1>8, <1>9, <2>2, <2>4, <2>5, <2>6
    <2>8. e - 1 \in Nat /\ s <= e - 1 /\ e - 1 <= n
        BY <2>2, <2>3, <1>7
    <2> QED BY <2>1, <2>7, <2>8, <1>1, <1>5, <1>7 DEF n, B, w, span
<1> QED BY <1>10, <1>11

-----------------------------------------------------------------------------
\* A position, as the protocol has it: inside the text or not.
AnyPosition == [line : Nat, character : Nat]

(***************************************************************************)
(* The position of an offset is its line and the distance from the start   *)
(* of that line.                                                           *)
(***************************************************************************)
LEMMA PositionIs ==
    ASSUME NEW t, Len(t) \in Nat, NEW o \in 0 .. Len(t)
    PROVE  LET span == LineSpan(t, LineAt(t, o))
           IN  /\ span.start \in Breaks(t) \cup {0} /\ span.start \in Nat /\ span.stop \in Nat
               /\ span.start <= o /\ o <= span.stop
               /\ \A j \in Breaks(t) : j <= o => j <= span.start
               /\ OffsetToLspPos(t, o) =
                      [line |-> LineAt(t, o), character |-> o - span.start]
<1> DEFINE B == Breaks(t)
           n == Len(t)
           w == LineAt(t, o)
           span == LineSpan(t, w)
           breaks == {i \in 1 .. o : t[i] = NL}
           lineStart == IF breaks = {} THEN 0
                        ELSE CHOOSE i \in breaks : \A j \in breaks : j <= i
<1>1. n \in Nat /\ o \in Nat /\ o <= n
    OBVIOUS
<1>2. w \in Nat /\ w <= Cardinality(B) /\ Cardinality(B) \in Nat
    BY <1>1, Lines
<1>3. Smaller(w, Cardinality(B)) = w
    BY <1>2 DEF Smaller
<1>4. /\ span.start \in B \cup {0} /\ span.start \in Nat /\ span.stop \in Nat
      /\ \A i \in 0 .. n : LineAt(t, i) = w <=> (span.start <= i /\ i <= span.stop)
    BY <1>2, <1>3, SpanIsLine
<1>5. span.start <= o /\ o <= span.stop
    BY <1>4
<1>6. B \in SUBSET (1 .. n)
    BY Lines
<1>7. \A j \in B : j <= o => j <= span.start
    <2> SUFFICES ASSUME NEW j \in B, j <= o, ~(j <= span.start)
                 PROVE  FALSE
        OBVIOUS
    <2>1. j \in Nat /\ span.start < j
        BY <1>1, <1>4, <1>6
    <2>2. LineAt(t, span.start) < LineAt(t, j)
        BY <1>4, <2>1, LinesGrow
    <2>3. LineAt(t, j) <= w
        BY <1>1, <2>1, LinesGrow
    <2>4. span.start \in 0 .. n
        BY <1>1, <1>4, <1>5
    <2>5. LineAt(t, span.start) = w
        BY <1>4, <1>5, <2>4
    <2>6. LineAt(t, j) \in Nat
        BY <2>1, Lines
    <2> QED BY <1>2, <2>2, <2>3, <2>5, <2>6
<1>8. breaks = Upto(B, o)
    <2>1. \A i : i \in 1 .. o <=> i \in 1 .. n /\ i <= o
        BY <1>1
    <2> QED BY <2>1 DEF Upto, Breaks
<1>9. lineStart = span.start
    <2>1. CASE breaks = {}
        <3>1. span.start \notin B
            BY <2>1, <1>5, <1>8 DEF Upto
        <3> QED BY <2>1, <3>1, <1>4
    <2>2. CASE breaks # {}
        <3>1. \A j \in breaks : j \in Nat /\ 1 <= j /\ j <= span.start
            BY <1>1, <1>6, <1>7, <1>8 DEF Upto
        <3>2. span.start # 0
            BY <2>2, <3>1
        <3>3. span.start \in breaks
            BY <3>2, <1>4, <1>5, <1>8 DEF Upto
        <3>4. \A i \in breaks : (\A j \in breaks : j <= i) => i = span.start
            BY <3>1, <3>3, <1>4
        <3> HIDE DEF breaks, span
        <3>5. (CHOOSE i \in breaks : \A j \in breaks : j <= i) = span.start
            BY <3>1, <3>3, <3>4
        <3> QED BY <2>2, <3>5
    <2> QED BY <2>1, <2>2
<1>10. OffsetToLspPos(t, o) = [line |-> Cardinality(breaks), character |-> o - lineStart]
    <2>1. Smaller(o, Len(t)) = o
        BY <1>1 DEF Smaller
    <2> QED BY <2>1 DEF OffsetToLspPos
<1>11. OffsetToLspPos(t, o) = [line |-> w, character |-> o - span.start]
    BY <1>8, <1>9, <1>10 DEF LineAt
<1> QED BY <1>4, <1>5, <1>7, <1>11

(***************************************************************************)
(* From an offset to its position and back: the same offset.               *)
(***************************************************************************)
LEMMA PositionToByte ==
    ASSUME NEW t, Len(t) \in Nat, NEW o \in 0 .. Len(t)
    PROVE  LET pos == OffsetToLspPos(t, o)
           IN  /\ pos \in AnyPosition
               /\ pos.line = LineAt(t, o)
               /\ pos.character <= LineCharLen(t, pos.line)
               /\ LspPosToByte(t, pos.line, pos.character) = o
<1> DEFINE w == LineAt(t, o)
           span == LineSpan(t, w)
<1>1. /\ span.start \in Nat /\ span.stop \in Nat
      /\ span.start <= o /\ o <= span.stop
      /\ OffsetToLspPos(t, o) = [line |-> w, character |-> o - span.start]
    BY PositionIs
<1>2. o \in Nat /\ w \in Nat
    BY Lines
<1> HIDE DEF w
<1>3. OffsetToLspPos(t, o) \in AnyPosition
    BY <1>1, <1>2 DEF AnyPosition
<1>4. o - span.start <= LineCharLen(t, w)
    BY <1>1, <1>2 DEF LineCharLen
<1>5. LspPosToByte(t, w, o - span.start) = o
    BY <1>1, <1>2 DEF LspPosToByte, Smaller
<1> QED BY <1>1, <1>3, <1>4, <1>5 DEF w

(***************************************************************************)
(* What a position means and what offset_to_lsp_pos computes are the same. *)
(***************************************************************************)
LEMMA IsAtPosition ==
    ASSUME NEW t, Len(t) \in Nat, NEW o \in 0 .. Len(t), NEW pos \in AnyPosition
    PROVE  IsAt(t, pos, o) <=> pos = OffsetToLspPos(t, o)
<1> DEFINE B == Breaks(t)
           w == LineAt(t, o)
           start == LineSpan(t, w).start
           before == {i \in 1 .. o : t[i] = NL}
<1>1. /\ start \in B \cup {0} /\ start \in Nat /\ start <= o
      /\ \A j \in B : j <= o => j <= start
      /\ OffsetToLspPos(t, o) = [line |-> w, character |-> o - start]
    BY PositionIs
<1>2. o \in Nat /\ w \in Nat /\ Len(t) \in Nat /\ o <= Len(t)
    BY Lines
<1>3. before = Upto(B, o)
    <2>1. \A i : i \in 1 .. o <=> i \in 1 .. Len(t) /\ i <= o
        BY <1>2
    <2> QED BY <2>1 DEF Upto, Breaks
<1>4. Cardinality(before) = w
    BY <1>3 DEF LineAt
<1>5. IsFiniteSet(before)
    BY <1>2, <1>3, Lines, Counting
<1>6. \A j \in before : j \in Nat /\ 1 <= j /\ j <= start /\ j <= o
    BY <1>1, <1>2, <1>3 DEF Upto
<1>7. w = 0 => start = 0
    <2> HAVE w = 0
    <2>1. before = {}
        BY <1>4, <1>5, FS_EmptySet
    <2> QED BY <2>1, <1>1, <1>3 DEF Upto
<1>8. w > 0 => start \in before
    <2> HAVE w > 0
    <2> HIDE DEF before, w
    <2>0. w # 0
        BY <1>2
    <2>1. before # {}
        BY <1>4, <2>0, FS_EmptySet
    <2>2. start # 0
        BY <1>6, <2>1
    <2> USE DEF before, w
    <2> QED BY <2>2, <1>1, <1>3 DEF Upto
<1>9. IsAt(t, pos, o) <=>
          /\ w = pos.line
          /\ pos.character <= o
          /\ pos.character > 0 => (o - pos.character + 1 .. o) \cap before = {}
          /\ pos.line > 0 => o - pos.character \in before
          /\ pos.line = 0 => o = pos.character
    BY <1>4 DEF IsAt
<1>10. /\ pos.line \in Nat /\ pos.character \in Nat
       /\ pos = [line |-> pos.line, character |-> pos.character]
    BY DEF AnyPosition
<1> HIDE DEF w, start, before, B
<1>11. ASSUME pos = OffsetToLspPos(t, o)
       PROVE  IsAt(t, pos, o)
    <2>1. pos.line = w /\ pos.character = o - start
        BY <1>1, <1>11
    <2>2. o - pos.character = start
        BY <1>1, <1>2, <2>1
    <2>3. (start + 1 .. o) \cap before = {}
        BY <1>1, <1>2, <1>6
    <2> QED BY <1>1, <1>2, <1>7, <1>8, <1>9, <2>1, <2>2, <2>3
<1>12. ASSUME IsAt(t, pos, o)
       PROVE  pos = OffsetToLspPos(t, o)
    <2>1. CASE w = 0
        BY <2>1, <1>1, <1>2, <1>7, <1>9, <1>10, <1>12
    <2>2. CASE w > 0
        <3>1. o - pos.character \in before /\ w = pos.line /\ pos.character <= o
            BY <2>2, <1>9, <1>12
        <3>2. o - pos.character <= start
            BY <3>1, <1>6
        <3>3. ~(o - pos.character < start)
            <4> SUFFICES ASSUME o - pos.character < start
                         PROVE  FALSE
                OBVIOUS
            <4>1. pos.character > 0 /\ start \in o - pos.character + 1 .. o
                BY <1>1, <1>2, <1>10
            <4>2. start \in before
                BY <2>2, <1>8
            <4> QED BY <4>1, <4>2, <1>9, <1>12
        <3>4. pos.character = o - start
            BY <3>2, <3>3, <1>1, <1>2, <1>10
        <3> QED BY <3>1, <3>4, <1>1, <1>10
    <2> QED BY <2>1, <2>2, <1>2
<1> QED BY <1>11, <1>12

-----------------------------------------------------------------------------
(***************************************************************************)
(* Later offsets have later positions.                                     *)
(***************************************************************************)
LEMMA PositionsInOrder ==
    ASSUME NEW t, Len(t) \in Nat,
           NEW p \in 0 .. Len(t), NEW q \in 0 .. Len(t)
    PROVE  NotAfter(OffsetToLspPos(t, p), OffsetToLspPos(t, q)) <=> p <= q
<1> DEFINE v == LineAt(t, p)
           w == LineAt(t, q)
           a == LineSpan(t, v).start
           b == LineSpan(t, w).start
<1>1. /\ a \in Nat /\ a <= p
      /\ OffsetToLspPos(t, p) = [line |-> v, character |-> p - a]
    BY PositionIs
<1>2. /\ b \in Nat /\ b <= q
      /\ OffsetToLspPos(t, q) = [line |-> w, character |-> q - b]
    BY PositionIs
<1>3. p \in Nat /\ q \in Nat /\ v \in Nat /\ w \in Nat
    BY Lines
<1>4. p <= q => v <= w
    BY <1>3, LinesGrow
<1>5. q <= p => w <= v
    BY <1>3, LinesGrow
<1>6. v = w => a = b
    OBVIOUS
<1> HIDE DEF v, w, a, b
<1>7. NotAfter(OffsetToLspPos(t, p), OffsetToLspPos(t, q)) <=>
          (v < w \/ (v = w /\ p - a <= q - b))
    BY <1>1, <1>2 DEF NotAfter
<1> QED BY <1>1, <1>2, <1>3, <1>4, <1>5, <1>6, <1>7

(***************************************************************************)
(* An edit between the positions of two offsets replaces exactly the       *)
(* characters between them.                                                *)
(***************************************************************************)
LEMMA EditIsSplice ==
    ASSUME NEW t, Len(t) \in Nat, NEW new,
           NEW from \in 0 .. Len(t), NEW to \in 0 .. Len(t), from <= to
    PROVE  ApplyIncrementalChange(t, OffsetToLspPos(t, from),
                                  OffsetToLspPos(t, to), new)
               = Splice(t, from, to, new)
<1> DEFINE p == OffsetToLspPos(t, from)
           q == OffsetToLspPos(t, to)
<1>1. /\ p.character \in Nat
      /\ p.character <= LineCharLen(t, p.line)
      /\ LspPosToByte(t, p.line, p.character) = from
    BY PositionToByte DEF AnyPosition
<1>2. /\ q.character \in Nat
      /\ q.character <= LineCharLen(t, q.line)
      /\ LspPosToByte(t, q.line, q.character) = to
    BY PositionToByte DEF AnyPosition
<1>3. Smaller(q.character, LineCharLen(t, q.line)) = q.character
    BY <1>2 DEF Smaller
<1>4. Smaller(from, to) = from
    BY DEF Smaller
<1>5. ~(p.character > LineCharLen(t, p.line))
    <2>1. p.line \in Nat
        BY PositionToByte DEF AnyPosition
    <2>2. LineCharLen(t, p.line) \in Int
        BY <2>1, SpanIsLine DEF LineCharLen
    <2> QED BY <1>1, <2>2
<1>6. ~(to > Len(t))
    OBVIOUS
<1> HIDE DEF p, q
<1>7. ApplyIncrementalChange(t, p, q, new) = Splice(t, from, to, new)
    BY <1>1, <1>2, <1>3, <1>4, <1>5, <1>6 DEF ApplyIncrementalChange
<1> QED BY <1>7 DEF p, q

(***************************************************************************)
(* Replacing a part of a text: what comes before it and after it stays.    *)
(***************************************************************************)
LEMMA SpliceKeeps ==
    ASSUME NEW C, NEW t \in Seq(C), NEW new \in Seq(C),
           NEW from \in 0 .. Len(t), NEW to \in from .. Len(t)
    PROVE  /\ Splice(t, from, to, new) \in Seq(C)
           /\ Len(Splice(t, from, to, new)) = from + Len(new) + (Len(t) - to)
           /\ \A i \in 1 .. from : Splice(t, from, to, new)[i] = t[i]
           /\ \A i \in 1 .. Len(new) : Splice(t, from, to, new)[from + i] = new[i]
           /\ \A i \in to + 1 .. Len(t) :
                 Splice(t, from, to, new)[from + Len(new) + (i - to)] = t[i]
<1> DEFINE n == Len(t)
           m == Len(new)
           a == SubSeq(t, 1, from)
           b == SubSeq(t, to + 1, n)
<1>1. n \in Nat /\ m \in Nat /\ from \in Nat /\ to \in Nat /\ from <= to /\ to <= n
    OBVIOUS
<1>2. \A i \in 1 .. n : t[i] \in C
    OBVIOUS
<1>3. a \in Seq(C) /\ Len(a) = from /\ \A i \in 1 .. from : a[i] = t[i]
    <2>1. \A i \in 1 .. from : t[i] \in C
        BY <1>1, <1>2
    <2>2. a \in Seq(C)
        BY <1>1, <2>1, SubSeqProperties
    <2>3. Len(a) = IF 1 <= from THEN from - 1 + 1 ELSE 0
        BY <1>1, SubSeqProperties
    <2>4. \A i \in 1 .. from : a[i] = t[1 + i - 1]
        BY <1>1, SubSeqProperties
    <2>5. \A i \in 1 .. from : 1 + i - 1 = i
        BY <1>1
    <2> HIDE DEF a, n
    <2>6. Len(a) = from
        BY <1>1, <2>3
    <2> QED BY <2>2, <2>4, <2>5, <2>6
<1>4. b \in Seq(C) /\ Len(b) = n - to /\ \A i \in 1 .. n - to : b[i] = t[to + i]
    <2>1. \A i \in to + 1 .. n : t[i] \in C
        BY <1>1, <1>2
    <2>2. b \in Seq(C)
        BY <1>1, <2>1, SubSeqProperties
    <2>3. Len(b) = IF to + 1 <= n THEN n - (to + 1) + 1 ELSE 0
        BY <1>1, SubSeqProperties
    <2>4. \A i \in 1 .. n - (to + 1) + 1 : b[i] = t[(to + 1) + i - 1]
        BY <1>1, SubSeqProperties
    <2>5. n - (to + 1) + 1 = n - to /\ \A i \in 1 .. n - to : (to + 1) + i - 1 = to + i
        BY <1>1
    <2> HIDE DEF b, n
    <2>6. Len(b) = n - to
        BY <1>1, <2>3
    <2> QED BY <2>2, <2>4, <2>5, <2>6
<1> DEFINE ab == a \o new
           r == ab \o b
<1>5. Splice(t, from, to, new) = r
    BY DEF Splice
<1> HIDE DEF n, m, a, b
<1>6. /\ ab \in Seq(C) /\ Len(ab) = from + m
      /\ \A i \in 1 .. from : ab[i] = a[i]
      /\ \A i \in 1 .. m : ab[from + i] = new[i]
    BY <1>1, <1>3 DEF m
<1> HIDE DEF ab
<1>7. /\ r \in Seq(C) /\ Len(r) = from + m + (n - to)
      /\ \A i \in 1 .. from + m : r[i] = ab[i]
      /\ \A i \in 1 .. n - to : r[from + m + i] = b[i]
    <2>1. r \in Seq(C) /\ Len(r) = Len(ab) + Len(b)
        BY <1>4, <1>6, ConcatProperties
    <2>2. \A i \in 1 .. Len(ab) + Len(b) :
              r[i] = IF i <= Len(ab) THEN ab[i] ELSE b[i - Len(ab)]
        BY <1>4, <1>6, ConcatProperties
    <2> HIDE DEF r
    <2>3. \A i \in 1 .. from + m : r[i] = ab[i]
        <3>1. Len(ab) = from + m /\ from + m + (n - to) \in Nat
            BY <1>1, <1>6
        <3>2. \A i \in 1 .. from + m : i \in 1 .. (from + m) + (n - to) /\ i <= from + m
            BY <1>1
        <3>3. Len(b) = n - to
            BY <1>4
        <3> QED BY <3>1, <3>2, <3>3, <2>2
    <2>4. \A i \in 1 .. n - to :
              /\ from + m + i \in 1 .. Len(ab) + Len(b)
              /\ ~(from + m + i <= Len(ab)) /\ (from + m + i) - Len(ab) = i
        BY <1>1, <1>4, <1>6
    <2>5. \A i \in 1 .. n - to : r[from + m + i] = b[i]
        BY <2>2, <2>4
    <2> QED BY <2>1, <2>3, <2>5, <1>4, <1>6
<1> HIDE DEF r
<1>8. \A i \in 1 .. from : r[i] = t[i]
    BY <1>1, <1>3, <1>6, <1>7
<1>9. \A i \in 1 .. m : r[from + i] = new[i]
    <2> TAKE i \in 1 .. m
    <2>1. from + i \in 1 .. from + m
        BY <1>1
    <2> QED BY <2>1, <1>6, <1>7
<1>10. \A i \in to + 1 .. n : r[from + m + (i - to)] = t[i]
    <2> TAKE i \in to + 1 .. n
    <2>1. i - to \in 1 .. n - to /\ to + (i - to) = i
        BY <1>1
    <2>2. r[from + m + (i - to)] = b[i - to]
        BY <2>1, <1>7
    <2>3. b[i - to] = t[to + (i - to)]
        BY <2>1, <1>4
    <2> QED BY <2>1, <2>2, <2>3
<1> QED BY <1>5, <1>7, <1>8, <1>9, <1>10 DEF n, m

(***************************************************************************)
(* Any edit, its positions in the text or not: it leaves the text as it is *)
(* or replaces the characters between two offsets, none before the line it *)
(* starts in nor after the line it ends in.                                *)
(***************************************************************************)
LEMMA EditIsSomeSplice ==
    ASSUME NEW t, Len(t) \in Nat, NEW new,
           NEW p \in AnyPosition, NEW q \in AnyPosition
    PROVE  \E from \in 0 .. Len(t) : \E to \in from .. Len(t) :
               /\ ApplyIncrementalChange(t, p, q, new) \in {t, Splice(t, from, to, new)}
               /\ \/ from = to
                  \/ LineSpan(t, p.line).start <= from
               /\ LineSpan(t, q.line).start <= to
               /\ to <= LineSpan(t, q.line).stop
<1> DEFINE n == Len(t)
           s == LineSpan(t, p.line)
           e == LineSpan(t, q.line)
           endLen == LineCharLen(t, q.line)
           at == LspPosToByte(t, p.line, p.character)
           to == LspPosToByte(t, q.line, Smaller(q.character, endLen))
           from == Smaller(at, to)
<1>1. /\ p.line \in Nat /\ p.character \in Nat
      /\ q.line \in Nat /\ q.character \in Nat
    BY DEF AnyPosition
<1>2. /\ s.start \in Nat /\ s.stop \in Nat /\ s.start <= s.stop /\ s.stop <= n
      /\ e.start \in Nat /\ e.stop \in Nat /\ e.start <= e.stop /\ e.stop <= n
    BY <1>1, SpanIsLine
<1>3. endLen = e.stop - e.start
    BY DEF LineCharLen
<1>4. at = s.start + Smaller(p.character, s.stop - s.start)
    BY DEF LspPosToByte
<1>5. to = e.start + Smaller(Smaller(q.character, endLen), e.stop - e.start)
    BY DEF LspPosToByte
<1>6. ApplyIncrementalChange(t, p, q, new) \in {t, Splice(t, from, to, new)}
    BY DEF ApplyIncrementalChange
<1> HIDE DEF s, e, endLen, at, to
<1>7. n \in Nat
    OBVIOUS
<1> HIDE DEF n
<1>8. at \in Nat /\ s.start <= at /\ at <= n
    BY <1>1, <1>2, <1>4, <1>7 DEF Smaller
<1>9. to \in Nat /\ e.start <= to /\ to <= e.stop /\ to <= n
    BY <1>1, <1>2, <1>3, <1>5, <1>7 DEF Smaller
<1>10. from \in 0 .. n /\ to \in from .. n /\ (from = to \/ s.start <= from)
    BY <1>7, <1>8, <1>9 DEF Smaller
<1> HIDE DEF from
<1> QED BY <1>6, <1>9, <1>10 DEF n, s, e

\* An edit of a text over some characters by a text over them is one.
LEMMA EditType ==
    ASSUME NEW C, NEW t \in Seq(C), NEW new \in Seq(C),
           NEW p \in AnyPosition, NEW q \in AnyPosition
    PROVE  ApplyIncrementalChange(t, p, q, new) \in Seq(C)
<1>1. Len(t) \in Nat
    OBVIOUS
<1>2. PICK from \in 0 .. Len(t) : \E to \in from .. Len(t) :
          ApplyIncrementalChange(t, p, q, new) \in {t, Splice(t, from, to, new)}
    BY <1>1, EditIsSomeSplice
<1>3. PICK to \in from .. Len(t) :
          ApplyIncrementalChange(t, p, q, new) \in {t, Splice(t, from, to, new)}
    BY <1>2
<1> QED BY <1>3, SpliceKeeps

-----------------------------------------------------------------------------
(***************************************************************************)
(* The buffer.                                                             *)
(***************************************************************************)
Chars == Letters \cup {NL}

LEMMA InputTypes ==
    /\ Positions \subseteq AnyPosition
    /\ Inserts \subseteq Seq(Chars)
<1>1. MaxText \in Nat
    BY BufferAssumption
<1>2. Positions \subseteq AnyPosition
    BY <1>1 DEF Positions, AnyPosition
<1>3. Inserts \subseteq Seq(Chars)
    <2> SUFFICES ASSUME NEW new \in Inserts
                 PROVE  new \in Seq(Chars)
        OBVIOUS
    <2>1. PICK n \in 0 .. 1 : new \in [1 .. n -> Chars]
        BY DEF Inserts, Chars
    <2>2. n \in Nat
        OBVIOUS
    <2> QED BY <2>1, <2>2
<1> QED BY <1>2, <1>3

(***************************************************************************)
(* The buffer stays a text: an edit makes one of a text and an inserted    *)
(* text, whatever positions it names (did_change).                         *)
(***************************************************************************)
THEOREM TypeCorrect == Spec => []TypeOK
<1>1. Init => TypeOK
    BY BufferAssumption DEF Init, TypeOK
<1>2. TypeOK /\ [Next]_text => TypeOK'
    <2> SUFFICES ASSUME TypeOK, [Next]_text
                 PROVE  TypeOK'
        OBVIOUS
    <2>1. CASE Next
        <3>1. PICK start \in Positions, end \in Positions, new \in Inserts :
                  /\ text' = ApplyIncrementalChange(text, start, end, new)
                  /\ Len(text') <= MaxText
            BY <2>1 DEF Next, Edit
        <3>2. text \in Seq(Chars) /\ new \in Seq(Chars)
            BY InputTypes DEF TypeOK, Chars
        <3>3. start \in AnyPosition /\ end \in AnyPosition
            BY InputTypes
        <3>4. text' \in Seq(Chars)
            BY <3>1, <3>2, <3>3, EditType
        <3> QED BY <3>1, <3>4 DEF TypeOK, Chars
    <2>2. CASE UNCHANGED text
        BY <2>2 DEF TypeOK
    <2> QED BY <2>1, <2>2
<1> QED BY <1>1, <1>2, PTL DEF Spec

-----------------------------------------------------------------------------
LEMMA TextHasLength == TypeOK => text \in Seq(Chars) /\ Len(text) \in Nat
BY DEF TypeOK, Chars

\* A position in the text is that of one offset, which lsp_pos_to_byte finds.
LEMMA InTextPosition ==
    ASSUME TypeOK, NEW pos \in Positions, InText(text, pos)
    PROVE  /\ OffsetOf(text, pos) \in 0 .. Len(text)
           /\ pos = OffsetToLspPos(text, OffsetOf(text, pos))
           /\ LspPosToByte(text, pos.line, pos.character) = OffsetOf(text, pos)
<1>1. Len(text) \in Nat /\ pos \in AnyPosition
    BY TextHasLength, InputTypes
<1>2. OffsetOf(text, pos) \in 0 .. Len(text) /\ IsAt(text, pos, OffsetOf(text, pos))
    BY DEF InText, OffsetOf
<1>3. pos = OffsetToLspPos(text, OffsetOf(text, pos))
    BY <1>1, <1>2, IsAtPosition
<1> QED BY <1>1, <1>2, <1>3, PositionToByte

(***************************************************************************)
(* Offsets and positions are inverse to each other in every text.          *)
(***************************************************************************)
THEOREM ConversionsAreInverse == Spec => []ConversionsInverse
<1>1. TypeOK => ConversionsInverse
    <2> SUFFICES ASSUME TypeOK
                 PROVE  ConversionsInverse
        OBVIOUS
    <2>1. ASSUME NEW o \in 0 .. Len(text)
          PROVE  LET pos == OffsetToLspPos(text, o)
                 IN  IsAt(text, pos, o) /\ LspPosToByte(text, pos.line, pos.character) = o
        BY TextHasLength, PositionToByte, IsAtPosition
    <2>2. ASSUME NEW pos \in Positions, InText(text, pos)
          PROVE  OffsetToLspPos(text, LspPosToByte(text, pos.line, pos.character)) = pos
        BY <2>2, InTextPosition
    <2> QED BY <2>1, <2>2 DEF ConversionsInverse
<1> QED BY <1>1, TypeCorrect, PTL

-----------------------------------------------------------------------------
LEMMA ValidEdits == TypeOK => ValidEditIsSplice
<1> SUFFICES ASSUME TypeOK, NEW start \in Positions, NEW end \in Positions,
                    InText(text, start), InText(text, end), NotAfter(start, end),
                    NEW new \in Inserts
             PROVE  ApplyIncrementalChange(text, start, end, new) =
                        Splice(text, OffsetOf(text, start), OffsetOf(text, end), new)
    BY DEF ValidEditIsSplice
<1> DEFINE from == OffsetOf(text, start)
           to == OffsetOf(text, end)
<1>1. from \in 0 .. Len(text) /\ start = OffsetToLspPos(text, from)
    BY InTextPosition
<1>2. to \in 0 .. Len(text) /\ end = OffsetToLspPos(text, to)
    BY InTextPosition
<1>3. Len(text) \in Nat
    BY TextHasLength
<1>4. NotAfter(OffsetToLspPos(text, from), OffsetToLspPos(text, to))
    BY <1>1, <1>2
<1> HIDE DEF from, to
<1>5. from <= to
    BY <1>1, <1>2, <1>3, <1>4, PositionsInOrder
<1>6. ApplyIncrementalChange(text, OffsetToLspPos(text, from), OffsetToLspPos(text, to), new)
          = Splice(text, from, to, new)
    BY <1>1, <1>2, <1>3, <1>5, EditIsSplice
<1> QED BY <1>1, <1>2, <1>6 DEF from, to

(***************************************************************************)
(* The lines before the one an edit starts in end before its offsets, and  *)
(* those after the one it ends in begin after them.                        *)
(***************************************************************************)
LEMMA OtherLines ==
    ASSUME TypeOK, NEW start \in Positions, NEW end \in Positions, NEW new \in Inserts,
           NotAfter(start, end), NEW i \in 1 .. Len(text)
    PROVE  LET after == ApplyIncrementalChange(text, start, end, new)
           IN  /\ start.line <= Cardinality(Breaks(text)) /\ LineAt(text, i - 1) < start.line
                     => i <= Len(after) /\ after[i] = text[i]
               /\ LineAt(text, i - 1) > end.line
                     => Len(text) - i < Len(after) /\ after[Len(after) - (Len(text) - i)] = text[i]
<1> DEFINE n == Len(text)
           last == Cardinality(Breaks(text))
           s == LineSpan(text, start.line)
           e == LineSpan(text, end.line)
           after == ApplyIncrementalChange(text, start, end, new)
<1>1. text \in Seq(Chars) /\ n \in Nat /\ new \in Seq(Chars)
    BY TextHasLength, InputTypes
<1>2. start \in AnyPosition /\ end \in AnyPosition
    BY InputTypes
<1>3. start.line \in Nat /\ end.line \in Nat /\ start.line <= end.line
    BY <1>2 DEF AnyPosition, NotAfter
<1>4. last \in Nat
    BY <1>1, Lines
<1>5. /\ s.start \in Breaks(text) \cup {0} /\ s.start \in Nat /\ s.start \in 0 .. n
      /\ LineAt(text, s.start) = Smaller(start.line, last)
    <2>1. /\ s.start \in Breaks(text) \cup {0}
          /\ s.start \in Nat /\ s.stop \in Nat /\ s.start <= s.stop /\ s.stop <= n
          /\ \A o \in 0 .. n : LineAt(text, o) = Smaller(start.line, last)
                                 <=> s.start <= o /\ o <= s.stop
        BY <1>1, <1>3, SpanIsLine
    <2> HIDE DEF n, last, s
    <2>2. s.start \in 0 .. n /\ s.start <= s.start
        BY <1>1, <2>1
    <2> QED BY <2>1, <2>2
<1>6. /\ e.start \in Nat /\ e.stop \in Nat /\ e.start \in 0 .. n /\ e.stop \in 0 .. n
      /\ LineAt(text, e.start) = Smaller(end.line, last)
      /\ LineAt(text, e.stop) = Smaller(end.line, last)
    <2>1. /\ e.start \in Nat /\ e.stop \in Nat /\ e.start <= e.stop /\ e.stop <= n
          /\ \A o \in 0 .. n : LineAt(text, o) = Smaller(end.line, last)
                                 <=> e.start <= o /\ o <= e.stop
        BY <1>1, <1>3, SpanIsLine
    <2> HIDE DEF n, last, e
    <2>2. /\ e.start \in 0 .. n /\ e.start <= e.start
          /\ e.stop \in 0 .. n /\ e.stop <= e.stop
        BY <1>1, <2>1
    <2> QED BY <2>1, <2>2
<1>7. PICK from \in 0 .. n : \E to \in from .. n :
          /\ after \in {text, Splice(text, from, to, new)}
          /\ from = to \/ s.start <= from
          /\ e.start <= to /\ to <= e.stop
    BY <1>1, <1>2, EditIsSomeSplice
<1>8. PICK to \in from .. n :
          /\ after \in {text, Splice(text, from, to, new)}
          /\ from = to \/ s.start <= from
          /\ e.start <= to /\ to <= e.stop
    BY <1>7
<1>9. LineAt(text, i - 1) \in Nat /\ LineAt(text, i - 1) <= last
    BY <1>1, Lines
<1> HIDE DEF n, last, s, e, after
<1>10. i \in 1 .. n /\ i - 1 \in Nat
    <2>1. i \in 1 .. n
        BY DEF n
    <2> QED BY <2>1, <1>1
<1>11. ASSUME start.line <= last, LineAt(text, i - 1) < start.line
       PROVE  i <= Len(after) /\ after[i] = text[i]
    <2>1. LineAt(text, s.start) = start.line
        BY <1>3, <1>4, <1>5, <1>11 DEF Smaller
    <2>2. i <= s.start
        <3>1. s.start <= i - 1 => LineAt(text, s.start) <= LineAt(text, i - 1)
            BY <1>1, <1>5, <1>10, LinesGrow DEF n
        <3>2. ~(s.start <= i - 1)
            BY <3>1, <2>1, <1>3, <1>9, <1>11
        <3> QED BY <3>2, <1>1, <1>5, <1>10
    <2>3. s.start <= e.start
        <3>1. LineAt(text, s.start) <= LineAt(text, e.start)
            BY <2>1, <1>3, <1>4, <1>6, <1>11 DEF Smaller
        <3>2. s.start \in Breaks(text)
            BY <2>2, <1>5, <1>10
        <3>3. e.start < s.start => LineAt(text, e.start) < LineAt(text, s.start)
            BY <3>2, <1>1, <1>5, <1>6, LinesGrow DEF n
        <3>4. LineAt(text, e.start) \in Nat /\ LineAt(text, s.start) \in Nat
            BY <1>1, <1>5, <1>6, Lines DEF n
        <3> QED BY <3>1, <3>3, <3>4, <1>5, <1>6
    <2>4. i \in 1 .. from
        BY <2>2, <2>3, <1>5, <1>6, <1>8, <1>10
    <2>5. CASE after = text
        BY <2>5, <1>10 DEF n
    <2>6. CASE after = Splice(text, from, to, new)
        <3>1. after[i] = text[i] /\ Len(after) = from + Len(new) + (n - to)
            <4>1. from \in 0 .. Len(text) /\ to \in from .. Len(text)
                BY <1>8 DEF n
            <4> QED BY <4>1, <2>4, <2>6, <1>1, SpliceKeeps DEF n
        <3>2. Len(new) \in Nat
            BY <1>1
        <3> QED BY <3>1, <3>2, <2>4, <1>1, <1>8
    <2> QED BY <2>5, <2>6, <1>8
<1>12. ASSUME LineAt(text, i - 1) > end.line
       PROVE  n - i < Len(after) /\ after[Len(after) - (n - i)] = text[i]
    <2>1. LineAt(text, e.stop) = end.line
        BY <1>3, <1>4, <1>6, <1>9, <1>12 DEF Smaller
    <2>2. ~(i - 1 <= e.stop)
        <3>1. i - 1 <= e.stop => LineAt(text, i - 1) <= LineAt(text, e.stop)
            BY <1>1, <1>6, <1>10, LinesGrow DEF n
        <3> QED BY <3>1, <2>1, <1>3, <1>9, <1>12
    <2>3. i \in to + 1 .. n
        BY <2>2, <1>1, <1>6, <1>8, <1>10
    <2>4. CASE after = text
        <3>1. Len(after) = n
            BY <2>4 DEF n
        <3>2. n - i < n /\ n - (n - i) = i
            BY <1>1, <1>10
        <3> QED BY <3>1, <3>2, <2>4
    <2>5. CASE after = Splice(text, from, to, new)
        <3>0. /\ Len(after) = from + Len(new) + (n - to)
              /\ \A k \in to + 1 .. n : after[from + Len(new) + (k - to)] = text[k]
            <4>1. /\ Len(Splice(text, from, to, new)) = from + Len(new) + (n - to)
                  /\ \A k \in to + 1 .. n :
                        Splice(text, from, to, new)[from + Len(new) + (k - to)] = text[k]
                BY <1>1, SpliceKeeps DEF n
            <4> QED BY <4>1, <2>5
        <3>1. /\ after[from + Len(new) + (i - to)] = text[i]
              /\ Len(after) = from + Len(new) + (n - to)
            BY <3>0, <2>3
        <3>2. Len(new) \in Nat
            BY <1>1
        <3>3. /\ from + Len(new) + (n - to) - (n - i) = from + Len(new) + (i - to)
              /\ n - i < from + Len(new) + (n - to)
            BY <3>2, <2>3, <1>1, <1>8
        <3>4. Len(after) = from + Len(new) + (n - to)
            BY <3>1
        <3>5. Len(after) - (n - i) = from + Len(new) + (i - to)
            BY <3>2, <3>4, <2>3, <1>1, <1>8
        <3>6. n - i < Len(after)
            BY <3>1, <3>3
        <3> QED BY <3>1, <3>5, <3>6
    <2> QED BY <2>4, <2>5, <1>8
<1> QED BY <1>11, <1>12 DEF n, last, after

(***************************************************************************)
(* In every text, an edit between two positions of it replaces exactly     *)
(* what is between them, and any edit leaves the lines before and after    *)
(* those it names as they are.                                             *)
(***************************************************************************)
THEOREM EditsStayInRange == Spec => []EditTouchesItsRange
<1>1. TypeOK => OtherLinesStay
    <2> SUFFICES ASSUME TypeOK,
                        NEW start \in Positions, NEW end \in Positions, NEW new \in Inserts,
                        NotAfter(start, end)
                 PROVE  LET after == ApplyIncrementalChange(text, start, end, new)
                            lineOf(i) == Cardinality({j \in 1 .. i - 1 : text[j] = NL})
                            ahead == {i \in 1 .. Len(text) : lineOf(i) < start.line}
                            last == Cardinality({j \in 1 .. Len(text) : text[j] = NL})
                            behind == {i \in 1 .. Len(text) : lineOf(i) > end.line}
                        IN  /\ start.line <= last => \A i \in ahead : i <= Len(after) /\ after[i] = text[i]
                            /\ \A i \in behind :
                                  LET fromEnd == Len(text) - i
                                  IN  fromEnd < Len(after) /\ after[Len(after) - fromEnd] = text[i]
        BY DEF OtherLinesStay
    <2>1. \A i \in 1 .. Len(text) :
              Cardinality({j \in 1 .. i - 1 : text[j] = NL}) = LineAt(text, i - 1)
        <3> TAKE i \in 1 .. Len(text)
        <3>1. Len(text) \in Nat
            BY TextHasLength
        <3>2. \A j : j \in 1 .. i - 1 <=> j \in 1 .. Len(text) /\ j <= i - 1
            BY <3>1
        <3>3. {j \in 1 .. i - 1 : text[j] = NL} = Upto(Breaks(text), i - 1)
            BY <3>2 DEF Upto, Breaks
        <3> QED BY <3>3 DEF LineAt
    <2> QED BY <2>1, OtherLines DEF Breaks
<1>2. TypeOK => EditTouchesItsRange
    BY <1>1, ValidEdits DEF EditTouchesItsRange
<1> QED BY <1>2, TypeCorrect, PTL
=============================================================================
