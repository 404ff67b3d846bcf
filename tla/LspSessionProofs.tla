-------------------------- MODULE LspSessionProofs --------------------------
(***************************************************************************)
(* The safety of a session for any documents, texts, versions, requests    *)
(* and size of the pipes.  The inductive invariant says what the messages  *)
(* under way mean together with the two states they lie between.           *)
(***************************************************************************)
EXTENDS LspSession, FiniteSetTheorems, SequenceTheorems, WellFoundedInduction, TLAPS

(***************************************************************************)
(* The lemmas about positions and edits are those of DocumentBufferProofs, *)
(* whose operators are these.                                              *)
(***************************************************************************)
Buffer == INSTANCE DocumentBufferProofs WITH text <- << >>

Breaks(text) == {i \in 1 .. Len(text) : text[i] = NL}
Upto(S, n) == {i \in S : i <= n}
LineAt(text, o) == Cardinality(Upto(Breaks(text), o))
AnyPosition == [line : Nat, character : Nat]

\* What DocumentBuffer assumes of its constants.
LEMMA BufferConstants == MaxText \in Nat /\ NL \notin Letters
BY SessionAssumption

LEMMA SameCardinality ==
    ASSUME NEW S
    PROVE  Buffer!Cardinality(S) = Cardinality(S)
BY DEF Cardinality, Buffer!Cardinality

LEMMA SameOperators ==
    ASSUME NEW text
    PROVE  /\ Buffer!AnyPosition = AnyPosition
           /\ Buffer!Breaks(text) = Breaks(text)
           /\ \A o : Buffer!LineAt(text, o) = LineAt(text, o)
           /\ \A l : Buffer!LineSpan(text, l) = LineSpan(text, l)
           /\ \A l : Buffer!LineCharLen(text, l) = LineCharLen(text, l)
           /\ \A l, c : Buffer!LspPosToByte(text, l, c) = LspPosToByte(text, l, c)
           /\ \A o : Buffer!OffsetToLspPos(text, o) = OffsetToLspPos(text, o)
           /\ \A from, to, new : Buffer!Splice(text, from, to, new) = Splice(text, from, to, new)
           /\ \A start, end, new : Buffer!ApplyIncrementalChange(text, start, end, new)
                                       = ApplyIncrementalChange(text, start, end, new)
<1>1. Buffer!AnyPosition = AnyPosition /\ Buffer!Breaks(text) = Breaks(text)
    BY DEF Breaks, Buffer!Breaks, AnyPosition, Buffer!AnyPosition
<1>2. ASSUME NEW o
      PROVE  Buffer!LineAt(text, o) = LineAt(text, o)
    BY SameCardinality DEF LineAt, Upto, Breaks, Buffer!LineAt, Buffer!Upto, Buffer!Breaks
<1>3. ASSUME NEW l
      PROVE  Buffer!LineSpan(text, l) = LineSpan(text, l)
    BY Zenon DEF LineSpan, Buffer!LineSpan, Smaller, Buffer!Smaller, Cardinality, Buffer!Cardinality
<1>4. ASSUME NEW l
      PROVE  Buffer!LineCharLen(text, l) = LineCharLen(text, l)
    BY <1>3 DEF LineCharLen, Buffer!LineCharLen
<1>5. ASSUME NEW l, NEW c
      PROVE  Buffer!LspPosToByte(text, l, c) = LspPosToByte(text, l, c)
    BY <1>3 DEF LspPosToByte, Buffer!LspPosToByte, Smaller, Buffer!Smaller
<1>6. ASSUME NEW o
      PROVE  Buffer!OffsetToLspPos(text, o) = OffsetToLspPos(text, o)
    BY SameCardinality DEF OffsetToLspPos, Buffer!OffsetToLspPos, Smaller, Buffer!Smaller
<1>7. ASSUME NEW from, NEW to, NEW new
      PROVE  Buffer!Splice(text, from, to, new) = Splice(text, from, to, new)
    BY DEF Splice, Buffer!Splice
<1>8. ASSUME NEW start, NEW end, NEW new
      PROVE  Buffer!ApplyIncrementalChange(text, start, end, new)
                 = ApplyIncrementalChange(text, start, end, new)
    BY <1>4, <1>5, <1>7
       DEF ApplyIncrementalChange, Buffer!ApplyIncrementalChange, Smaller, Buffer!Smaller
<1> QED BY <1>1, <1>2, <1>3, <1>4, <1>5, <1>6, <1>7, <1>8

LEMMA PositionIs ==
    ASSUME NEW text, Len(text) \in Nat, NEW o \in 0 .. Len(text)
    PROVE  LET span == LineSpan(text, LineAt(text, o))
           IN  /\ span.start \in Breaks(text) \cup {0} /\ span.start \in Nat /\ span.stop \in Nat
               /\ span.start <= o /\ o <= span.stop
               /\ \A j \in Breaks(text) : j <= o => j <= span.start
               /\ OffsetToLspPos(text, o) =
                      [line |-> LineAt(text, o), character |-> o - span.start]
BY Buffer!PositionIs, BufferConstants, SameOperators

LEMMA PositionToByte ==
    ASSUME NEW text, Len(text) \in Nat, NEW o \in 0 .. Len(text)
    PROVE  LET pos == OffsetToLspPos(text, o)
           IN  /\ pos \in AnyPosition
               /\ pos.line = LineAt(text, o)
               /\ pos.character <= LineCharLen(text, pos.line)
               /\ LspPosToByte(text, pos.line, pos.character) = o
<1> DEFINE pos == Buffer!OffsetToLspPos(text, o)
<1>1. pos \in Buffer!AnyPosition /\ pos.line = Buffer!LineAt(text, o)
    BY Buffer!PositionToByte, BufferConstants
<1>2. pos.character <= Buffer!LineCharLen(text, pos.line)
    BY Buffer!PositionToByte, BufferConstants
<1>3. Buffer!LspPosToByte(text, pos.line, pos.character) = o
    BY Buffer!PositionToByte, BufferConstants
<1>4. OffsetToLspPos(text, o) = pos
    BY SameOperators
<1> HIDE DEF pos
<1>5. Buffer!AnyPosition = AnyPosition /\ Buffer!LineAt(text, o) = LineAt(text, o)
    BY SameOperators
<1>6. Buffer!LineCharLen(text, pos.line) = LineCharLen(text, pos.line)
    BY SameOperators
<1>7. Buffer!LspPosToByte(text, pos.line, pos.character)
          = LspPosToByte(text, pos.line, pos.character)
    BY SameOperators
<1> QED BY <1>1, <1>2, <1>3, <1>4, <1>5, <1>6, <1>7

LEMMA EditIsSplice ==
    ASSUME NEW text, Len(text) \in Nat, NEW new,
           NEW from \in 0 .. Len(text), NEW to \in 0 .. Len(text), from <= to
    PROVE  ApplyIncrementalChange(text, OffsetToLspPos(text, from),
                                  OffsetToLspPos(text, to), new)
               = Splice(text, from, to, new)
<1> DEFINE p == Buffer!OffsetToLspPos(text, from)
           q == Buffer!OffsetToLspPos(text, to)
<1>1. Buffer!ApplyIncrementalChange(text, p, q, new) = Buffer!Splice(text, from, to, new)
    BY Buffer!EditIsSplice, BufferConstants
<1>2. OffsetToLspPos(text, from) = p /\ OffsetToLspPos(text, to) = q
    BY SameOperators
<1> HIDE DEF p, q
<1> QED BY <1>1, <1>2, SameOperators

LEMMA EditType ==
    ASSUME NEW C, NEW text \in Seq(C), NEW new \in Seq(C),
           NEW p \in AnyPosition, NEW q \in AnyPosition
    PROVE  ApplyIncrementalChange(text, p, q, new) \in Seq(C)
BY Buffer!EditType, BufferConstants, SameOperators

LEMMA SpliceKeeps ==
    ASSUME NEW C, NEW text \in Seq(C), NEW new \in Seq(C),
           NEW from \in 0 .. Len(text), NEW to \in from .. Len(text)
    PROVE  /\ Splice(text, from, to, new) \in Seq(C)
           /\ Len(Splice(text, from, to, new)) = from + Len(new) + (Len(text) - to)
           /\ \A i \in 1 .. from : Splice(text, from, to, new)[i] = text[i]
           /\ \A i \in 1 .. Len(new) : Splice(text, from, to, new)[from + i] = new[i]
           /\ \A i \in to + 1 .. Len(text) :
                 Splice(text, from, to, new)[from + Len(new) + (i - to)] = text[i]
<1> DEFINE s == Buffer!Splice(text, from, to, new)
<1>1. s \in Seq(C)
    BY Buffer!SpliceKeeps, BufferConstants
<1>2. Len(s) = from + Len(new) + (Len(text) - to)
    BY Buffer!SpliceKeeps, BufferConstants
<1>3. \A i \in 1 .. from : s[i] = text[i]
    BY Buffer!SpliceKeeps, BufferConstants
<1>4. \A i \in 1 .. Len(new) : s[from + i] = new[i]
    BY Buffer!SpliceKeeps, BufferConstants
<1>5. \A i \in to + 1 .. Len(text) : s[from + Len(new) + (i - to)] = text[i]
    BY Buffer!SpliceKeeps, BufferConstants
<1>6. Splice(text, from, to, new) = s
    BY SameOperators
<1> HIDE DEF s
<1> QED BY <1>1, <1>2, <1>3, <1>4, <1>5, <1>6

\* A set of natural numbers that is not empty has a least element.
LEMMA Least ==
    ASSUME NEW S \in SUBSET Nat, S # {}
    PROVE  \E a \in S : \A b \in S : a <= b
<1>1. PICK a \in S : \A b \in S : ~ (<<b, a>> \in OpToRel(<, Nat))
    BY NatLessThanWellFounded, WFMin
<1>2. \A b \in S : a <= b
    <2> TAKE b \in S
    <2>1. a \in Nat /\ b \in Nat
        OBVIOUS
    <2>2. ~(b < a)
        BY <1>1, <2>1 DEF OpToRel
    <2> QED BY <2>1, <2>2
<1> QED BY <1>2

-----------------------------------------------------------------------------
\* What document u is to become at the server by the first i messages in stdin.
After(u, i) == CopyAfter(u, ServerCopy(u), toServer, i)

\* A message that carries a copy means that copy, coming after this one.
Follows(before, m) ==
    \/ /\ m.kind = "didOpen"
       /\ before = Nothing
       /\ m.copy = Copy(m.text, 0)
    \/ /\ m.kind = "didChange"
       /\ before # Nothing
       /\ m.version = before.version
       /\ m.copy = Copy(ApplyChanges(before.text, m.changes), before.version + 1)
    \/ /\ m.kind = "didClose"
       /\ m.copy = Nothing

(***************************************************************************)
(* Each message under way leads from the copy before it to its own, and    *)
(* the last of them to the editor's.                                       *)
(***************************************************************************)
CopiesFollow ==
    \A u \in Uris : \A i \in DOMAIN toServer :
        Carries(toServer[i], u) => Follows(After(u, i - 1), toServer[i])

EndsAtEditor == \A u \in Uris : After(u, Len(toServer)) = EditorCopy(u)

VersionsOfOpen == DOMAIN docVersions = DOMAIN openDocs

\* Copy d is of the same text as c or of a later version of the document.
NotNewer(c, d) ==
    /\ c \in Copies /\ d \in Copies
    /\ c.version <= d.version
    /\ c.version = d.version => c.text = d.text

(***************************************************************************)
(* A request that is still awaited is followed by no closing of its        *)
(* document, so that what it is answered with is no newer than any copy    *)
(* after it, and of the same text when of the same version.                *)
(***************************************************************************)
AskedWhileOpen ==
    \A u \in Uris : \A i \in DOMAIN toServer :
        LET m == toServer[i]
        IN  (m.kind = "rename" /\ m.uri = u /\ awaiting[m.id] = u) =>
                \A j \in i .. Len(toServer) : NotNewer(After(u, i), After(u, j))

AnsweredWhileOpen ==
    \A u \in Uris : \A i \in DOMAIN toClient :
        LET m == toClient[i]
        IN  (m.kind = "answer" /\ m.result # NoAnswer /\ m.uri = u /\ awaiting[m.id] = u) =>
                \A j \in 0 .. Len(toServer) :
                    NotNewer(Copy(m.result.on, m.result.version), After(u, j))

\* The messages of a queue that are of a set M, by their positions.
Marked(q, M) == {i \in DOMAIN q : q[i] \in M}
AtMostOne(P) == \A i, j \in P : i = j

\* The places of a request: asked in stdin, answered in stdout.
Requests(id) == {m \in FromEditor : m.kind \in {"rename", "shutdown"} /\ m.id = id}
Answers(id) == {m \in FromServer : m.kind = "answer" /\ m.id = id}
Asked(id) == Marked(toServer, Requests(id))
Answered(id) == Marked(toClient, Answers(id))

(***************************************************************************)
(* A request is in one place at most, in none when it is not awaited, and  *)
(* in one while it is and the server runs.                                 *)
(***************************************************************************)
OnePlace(id) ==
    /\ AtMostOne(Asked(id)) /\ AtMostOne(Answered(id))
    /\ Asked(id) = {} \/ Answered(id) = {}
OnlyAwaited(id) == Asked(id) # {} \/ Answered(id) # {} => id \in DOMAIN awaiting
NotLost(id) ==
    exitCode = Running /\ id \in DOMAIN awaiting => Asked(id) # {} \/ Answered(id) # {}

(***************************************************************************)
(* No exit is under way before the editor stops, and once it has asked for *)
(* shutdown that request has been handled or is ahead of every exit.       *)
(***************************************************************************)
ShutdownAhead ==
    /\ ending = "no" => exitCode # 1 /\ \A i \in DOMAIN toServer : toServer[i].kind # "exit"
    /\ ending = "shutdown" =>
          /\ exitCode # 1
          /\ \/ shutdownReceived
             \/ exitCode # Running
             \/ \E i \in DOMAIN toServer :
                   /\ toServer[i].kind = "shutdown"
                   /\ \A j \in DOMAIN toServer : toServer[j].kind = "exit" => i < j

CopiesInv == CopiesFollow /\ EndsAtEditor /\ VersionsOfOpen
RequestsInv == \A id \in Ids : OnePlace(id) /\ OnlyAwaited(id) /\ NotLost(id)
RenamesInv == AskedWhileOpen /\ AnsweredWhileOpen

-----------------------------------------------------------------------------
(***************************************************************************)
(* A message either carries a new copy of a document or leaves the one it  *)
(* finds; what a queue means depends only on its messages.                 *)
(***************************************************************************)
LEMMA CopyAtStart ==
    ASSUME NEW u, NEW c, NEW q
    PROVE  CopyAfter(u, c, q, 0) = c
<1>1. 1 .. 0 = {}
    OBVIOUS
<1>2. {k \in 1 .. 0 : Carries(q[k], u)} = {}
    BY <1>1
<1> QED BY <1>2, Zenon DEF CopyAfter

LEMMA CopyStep ==
    ASSUME NEW u, NEW c, NEW q, NEW i \in Nat
    PROVE  CopyAfter(u, c, q, i + 1) =
               IF Carries(q[i + 1], u) THEN q[i + 1].copy ELSE CopyAfter(u, c, q, i)
<1> DEFINE S(n) == {k \in 1 .. n : Carries(q[k], u)}
           last(n) == CHOOSE k \in S(n) : \A j \in S(n) : j <= k
<1>1. \A k : k \in 1 .. i + 1 <=> k \in 1 .. i \/ k = i + 1
    OBVIOUS
<1>2. CASE Carries(q[i + 1], u)
    <2>1. i + 1 \in S(i + 1)
        BY <1>2
    <2>2. \A j \in S(i + 1) : j \in Nat /\ j <= i + 1
        OBVIOUS
    <2> HIDE DEF S
    <2>3. \A k \in S(i + 1) : (\A j \in S(i + 1) : j <= k) => k = i + 1
        BY <2>1, <2>2
    <2>4. last(i + 1) = i + 1
        BY <2>1, <2>2, <2>3
    <2>5. S(i + 1) # {}
        BY <2>1
    <2> HIDE DEF last
    <2>6. CopyAfter(u, c, q, i + 1) = IF S(i + 1) = {} THEN c ELSE q[last(i + 1)].copy
        BY Zenon DEF CopyAfter, S, last
    <2> QED BY <1>2, <2>4, <2>5, <2>6
<1>3. CASE ~Carries(q[i + 1], u)
    <2>1. S(i + 1) = S(i)
        BY <1>1, <1>3
    <2> DEFINE meant(X) ==
            IF X = {} THEN c ELSE q[CHOOSE k \in X : \A j \in X : j <= k].copy
    <2>2. CopyAfter(u, c, q, i + 1) = meant(S(i + 1)) /\ CopyAfter(u, c, q, i) = meant(S(i))
        BY Zenon DEF CopyAfter
    <2> HIDE DEF S, meant
    <2>3. CopyAfter(u, c, q, i + 1) = CopyAfter(u, c, q, i)
        BY <2>1, <2>2
    <2> QED BY <1>3, <2>3
<1> QED BY <1>2, <1>3

\* From position d of queue q on come the first n messages of queue r.
RunsFrom(r, n, q, d) == \A k \in 1 .. n : r[k] = q[k + d]

LEMMA CopiesShift ==
    ASSUME NEW u, NEW b, NEW c, NEW q, NEW r, NEW n \in Nat, NEW d \in Nat,
           b = CopyAfter(u, c, q, d), RunsFrom(r, n, q, d)
    PROVE  \A i \in 0 .. n : CopyAfter(u, b, r, i) = CopyAfter(u, c, q, i + d)
<1> DEFINE differ == {i \in 0 .. n : CopyAfter(u, b, r, i) # CopyAfter(u, c, q, i + d)}
<1>1. SUFFICES ASSUME differ # {}
               PROVE  FALSE
    OBVIOUS
<1>2. differ \in SUBSET Nat
    OBVIOUS
<1>3. PICK i \in differ : \A j \in differ : i <= j
    BY <1>1, <1>2, Least
<1>4. i # 0
    <2>1. CopyAfter(u, b, r, 0) = CopyAfter(u, c, q, d)
        BY CopyAtStart
    <2>2. 0 + d = d
        OBVIOUS
    <2> QED BY <2>1, <2>2
<1>5. i - 1 \in 0 .. n /\ i - 1 \in Nat /\ i \in 1 .. n /\ ~(i <= i - 1)
    BY <1>4
<1>6. CopyAfter(u, b, r, i - 1) = CopyAfter(u, c, q, (i - 1) + d)
    BY <1>3, <1>5
<1>7. CopyAfter(u, b, r, (i - 1) + 1) =
          IF Carries(r[(i - 1) + 1], u) THEN r[(i - 1) + 1].copy ELSE CopyAfter(u, b, r, i - 1)
    BY <1>5, CopyStep
<1>8. CopyAfter(u, c, q, ((i - 1) + d) + 1) =
          IF Carries(q[((i - 1) + d) + 1], u) THEN q[((i - 1) + d) + 1].copy
          ELSE CopyAfter(u, c, q, (i - 1) + d)
    BY <1>5, CopyStep
<1>9. (i - 1) + 1 = i /\ ((i - 1) + d) + 1 = i + d
    BY <1>5
<1>10. r[i] = q[i + d]
    BY <1>5 DEF RunsFrom
<1>11. CopyAfter(u, b, r, i) # CopyAfter(u, c, q, i + d)
    OBVIOUS
<1> HIDE DEF differ
<1> QED BY <1>6, <1>7, <1>8, <1>9, <1>10, <1>11

\* r is what a queue q of n messages is after its first.
TailOf(r, q, n) == n \in Nat \ {0} /\ RunsFrom(r, n - 1, q, 1)

LEMMA CopiesOfTail ==
    ASSUME NEW u, NEW b, NEW c, NEW q, NEW r, NEW n,
           b = CopyAfter(u, c, q, 1), TailOf(r, q, n)
    PROVE  \A i \in 0 .. n - 1 : CopyAfter(u, b, r, i) = CopyAfter(u, c, q, i + 1)
<1> DEFINE l == n - 1
<1>1. l \in Nat /\ 1 \in Nat /\ RunsFrom(r, l, q, 1)
    BY DEF TailOf
<1> HIDE DEF l
<1>2. \A i \in 0 .. l : CopyAfter(u, b, r, i) = CopyAfter(u, c, q, i + 1)
    BY <1>1, CopiesShift
<1> QED BY <1>2 DEF l

-----------------------------------------------------------------------------
(***************************************************************************)
(* A list of content changes of any length makes a text of a text, each    *)
(* change applied to what the one before it left.                          *)
(***************************************************************************)
LEMMA ChangeType ==
    ASSUME NEW text \in Seq(Chars), NEW change \in ContentChanges
    PROVE  ApplyChange(text, change) \in Seq(Chars)
<1>1. change.text \in Seq(Chars)
    BY DEF ContentChanges
<1>2. CASE change.whole
    BY <1>1, <1>2 DEF ApplyChange
<1>3. CASE ~change.whole
    <2>1. change.start \in AnyPosition /\ change.end \in AnyPosition
        BY <1>3 DEF ContentChanges, SomePosition, AnyPosition
    <2>2. ApplyIncrementalChange(text, change.start, change.end, change.text) \in Seq(Chars)
        BY <1>1, <2>1, EditType
    <2> QED BY <1>3, <2>2 DEF ApplyChange
<1> QED BY <1>2, <1>3

AppliesUpto(after, text, changes, k) ==
    /\ after[0] = text
    /\ \A i \in 1 .. k : after[i] = ApplyChange(after[i - 1], changes[i])

LEMMA ChangesInOrder ==
    ASSUME NEW text \in Seq(Chars), NEW changes \in Seq(ContentChanges)
    PROVE  \E after \in [0 .. Len(changes) -> Seq(Chars)] :
               /\ AppliesUpto(after, text, changes, Len(changes))
               /\ ApplyChanges(text, changes) = after[Len(changes)]
<1> DEFINE n == Len(changes)
           some(k) == \E f \in [0 .. k -> Seq(Chars)] : AppliesUpto(f, text, changes, k)
           none == {k \in Nat : k <= n /\ ~some(k)}
<1>1. n \in Nat /\ \A i \in 1 .. n : changes[i] \in ContentChanges
    OBVIOUS
<1>2. none = {}
    <2>1. SUFFICES ASSUME none # {}
                   PROVE  FALSE
        OBVIOUS
    <2>2. none \in SUBSET Nat
        OBVIOUS
    <2>3. PICK k \in none : \A j \in none : k <= j
        BY <2>1, <2>2, Least
    <2>4. k # 0
        <3>1. [i \in 0 .. 0 |-> text] \in [0 .. 0 -> Seq(Chars)]
            OBVIOUS
        <3>2. AppliesUpto([i \in 0 .. 0 |-> text], text, changes, 0)
            BY DEF AppliesUpto
        <3>3. some(0)
            BY <3>1, <3>2
        <3> QED BY <3>3
    <2>5. k - 1 \in Nat /\ k - 1 <= n /\ ~(k <= k - 1) /\ k \in 1 .. n
        BY <1>1, <2>4
    <2>6. some(k - 1)
        BY <2>3, <2>5
    <2>7. PICK f \in [0 .. k - 1 -> Seq(Chars)] : AppliesUpto(f, text, changes, k - 1)
        BY <2>6
    <2> DEFINE g == [i \in 0 .. k |-> IF i <= k - 1 THEN f[i] ELSE ApplyChange(f[k - 1], changes[k])]
    <2> HIDE DEF none, some
    <2>8. \A i \in 0 .. k : (i <= k - 1 => i \in 0 .. k - 1) /\ (~(i <= k - 1) => i = k)
        BY <2>5
    <2>9. k - 1 \in 0 .. k - 1
        BY <2>5
    <2>10. ApplyChange(f[k - 1], changes[k]) \in Seq(Chars)
        BY <1>1, <2>5, <2>9, ChangeType
    <2>11. g \in [0 .. k -> Seq(Chars)]
        BY <2>8, <2>10
    <2>12. \A i \in 0 .. k - 1 : g[i] = f[i]
        BY <2>5
    <2>13. g[k] = ApplyChange(f[k - 1], changes[k])
        BY <2>5
    <2> HIDE DEF g
    <2>14. g[0] = text
        BY <2>5, <2>7, <2>12 DEF AppliesUpto
    <2>15. ASSUME NEW i \in 1 .. k
           PROVE  g[i] = ApplyChange(g[i - 1], changes[i])
        <3>1. i - 1 \in 0 .. k - 1
            BY <2>5
        <3>2. CASE i = k
            BY <3>1, <3>2, <2>12, <2>13
        <3>3. CASE i # k
            <4>1. i \in 1 .. k - 1 /\ i \in 0 .. k - 1
                BY <3>3, <2>5
            <4>2. f[i] = ApplyChange(f[i - 1], changes[i])
                BY <4>1, <2>7 DEF AppliesUpto
            <4> QED BY <3>1, <4>1, <4>2, <2>12
        <3> QED BY <3>2, <3>3
    <2>16. AppliesUpto(g, text, changes, k)
        BY <2>14, <2>15 DEF AppliesUpto
    <2> QED BY <2>11, <2>16, <2>3 DEF none, some
<1>3. PICK f \in [0 .. n -> Seq(Chars)] : AppliesUpto(f, text, changes, n)
    BY <1>1, <1>2
<1> HIDE DEF none, some
<1> DEFINE step(h) == [i \in 0 .. n |-> IF i = 0 THEN text ELSE ApplyChange(h[i - 1], changes[i])]
           after == CHOOSE h : h = step(h)
<1>4. f = step(f)
    <2>1. \A i \in 0 .. n : i # 0 => i \in 1 .. n
        BY <1>1
    <2>2. \A i \in 0 .. n : f[i] = IF i = 0 THEN text ELSE ApplyChange(f[i - 1], changes[i])
        BY <1>3, <2>1 DEF AppliesUpto
    <2> QED BY <2>2
<1>5. after = step(after)
    <2> HIDE DEF step
    <2> QED BY <1>4
<1>6. ApplyChanges(text, changes) = after[n]
    BY Zenon DEF ApplyChanges
<1> HIDE DEF after
<1> DEFINE differ == {i \in Nat : i <= n /\ after[i] # f[i]}
<1>7. differ = {}
    <2>1. SUFFICES ASSUME differ # {}
                   PROVE  FALSE
        OBVIOUS
    <2>2. differ \in SUBSET Nat
        OBVIOUS
    <2>3. PICK i \in differ : \A j \in differ : i <= j
        BY <2>1, <2>2, Least
    <2>4. i \in 0 .. n
        BY <1>1
    <2>5. /\ after[i] = IF i = 0 THEN text ELSE ApplyChange(after[i - 1], changes[i])
          /\ f[i] = IF i = 0 THEN text ELSE ApplyChange(f[i - 1], changes[i])
        BY <1>4, <1>5, <2>4
    <2>6. i # 0
        BY <2>5
    <2>7. i - 1 \in Nat /\ i - 1 <= n /\ ~(i <= i - 1)
        BY <1>1, <2>6
    <2>8. after[i - 1] = f[i - 1]
        BY <2>3, <2>7
    <2> QED BY <2>5, <2>6, <2>8
<1>8. after[n] = f[n]
    BY <1>1, <1>7
<1> QED BY <1>3, <1>6, <1>8

LEMMA ChangesType ==
    ASSUME NEW text \in Seq(Chars), NEW changes \in Seq(ContentChanges)
    PROVE  ApplyChanges(text, changes) \in Seq(Chars)
<1>1. Len(changes) \in 0 .. Len(changes)
    <2>1. Len(changes) \in Nat
        OBVIOUS
    <2> QED BY <2>1
<1> QED BY <1>1, ChangesInOrder

(***************************************************************************)
(* The editor's positions are those the server computes, so each change    *)
(* the editor describes makes of its text the text it means.               *)
(***************************************************************************)
LEMMA EditorsPosition ==
    ASSUME NEW text, Len(text) \in Nat, NEW o \in 0 .. Len(text)
    PROVE  /\ Position(text, o) = OffsetToLspPos(text, o)
           /\ Position(text, o) \in SomePosition
<1> DEFINE B == Breaks(text)
           start == LineSpan(text, LineAt(text, o)).start
           breaks == {i \in 1 .. o : text[i] = NL}
           line == {i \in 1 .. o : \A b \in breaks : b < i}
<1>1. /\ start \in B \cup {0} /\ start \in Nat /\ start <= o
      /\ \A j \in B : j <= o => j <= start
      /\ OffsetToLspPos(text, o) = [line |-> LineAt(text, o), character |-> o - start]
    BY PositionIs
<1>2. o \in Nat /\ o <= Len(text)
    OBVIOUS
<1>3. breaks = Upto(B, o)
    <2>1. \A i : i \in 1 .. o <=> i \in 1 .. Len(text) /\ i <= o
        BY <1>2
    <2> QED BY <2>1 DEF Upto, Breaks
<1>4. \A b \in breaks : b \in Nat /\ 1 <= b /\ b <= start
    BY <1>1, <1>2, <1>3 DEF Upto
<1>5. start # 0 => start \in breaks
    BY <1>1, <1>3 DEF Upto
<1>6. line = start + 1 .. o
    <2> HIDE DEF breaks, start
    <2>1. \A i \in 1 .. o : (\A b \in breaks : b < i) <=> start < i
        BY <1>1, <1>2, <1>4, <1>5
    <2>2. \A i : i \in start + 1 .. o <=> i \in 1 .. o /\ start < i
        BY <1>1, <1>2
    <2> QED BY <2>1, <2>2
<1>7. Cardinality(start + 1 .. o) = o - start
    <2>1. start + 1 \in Int /\ o \in Int
        BY <1>1, <1>2
    <2>2. Cardinality(start + 1 .. o) = IF start + 1 > o THEN 0 ELSE o - (start + 1) + 1
        BY <2>1, FS_Interval
    <2> HIDE DEF start
    <2>3. (start + 1 > o => o - start = 0) /\ o - (start + 1) + 1 = o - start
        BY <1>1, <1>2
    <2> QED BY <2>2, <2>3
<1>8. Position(text, o) = [line |-> Cardinality(breaks), character |-> Cardinality(line)]
    BY DEF Position
<1>9. Position(text, o) = OffsetToLspPos(text, o)
    BY <1>1, <1>3, <1>6, <1>7, <1>8 DEF LineAt
<1>10. OffsetToLspPos(text, o) \in SomePosition
    BY PositionToByte DEF AnyPosition, SomePosition
<1> QED BY <1>9, <1>10

LEMMA OneChange ==
    ASSUME NEW text \in Seq(Chars), NEW c \in ContentChanges
    PROVE  /\ <<c>> \in Seq(ContentChanges)
           /\ ApplyChanges(text, <<c>>) = ApplyChange(text, c)
<1>1. <<c>> \in Seq(ContentChanges) /\ Len(<<c>>) = 1 /\ <<c>>[1] = c
    OBVIOUS
<1>2. PICK after \in [0 .. 1 -> Seq(Chars)] :
          AppliesUpto(after, text, <<c>>, 1) /\ ApplyChanges(text, <<c>>) = after[1]
    BY <1>1, ChangesInOrder
<1>3. after[1] = ApplyChange(after[1 - 1], <<c>>[1]) /\ after[0] = text
    BY <1>2 DEF AppliesUpto
<1>4. 1 - 1 = 0
    OBVIOUS
<1> QED BY <1>1, <1>2, <1>3, <1>4

LEMMA TwoChanges ==
    ASSUME NEW text \in Seq(Chars), NEW c \in ContentChanges, NEW d \in ContentChanges
    PROVE  /\ <<c, d>> \in Seq(ContentChanges)
           /\ ApplyChanges(text, <<c, d>>) = ApplyChange(ApplyChange(text, c), d)
<1>1. /\ <<c, d>> \in Seq(ContentChanges) /\ Len(<<c, d>>) = 2
      /\ <<c, d>>[1] = c /\ <<c, d>>[2] = d
    OBVIOUS
<1>2. PICK after \in [0 .. 2 -> Seq(Chars)] :
          AppliesUpto(after, text, <<c, d>>, 2) /\ ApplyChanges(text, <<c, d>>) = after[2]
    BY <1>1, ChangesInOrder
<1>3. /\ after[1] = ApplyChange(after[1 - 1], <<c, d>>[1]) /\ after[0] = text
      /\ after[2] = ApplyChange(after[2 - 1], <<c, d>>[2])
    BY <1>2 DEF AppliesUpto
<1>4. 1 - 1 = 0 /\ 2 - 1 = 1
    OBVIOUS
<1> QED BY <1>1, <1>2, <1>3, <1>4

\* A change with a range between two offsets of the text.
RangeChange(text, from, to, new) ==
    [whole |-> FALSE, text |-> new, start |-> Position(text, from), end |-> Position(text, to)]

LEMMA RangeChangeMeans ==
    ASSUME NEW text \in Seq(Chars), NEW new \in Seq(Chars),
           NEW from \in 0 .. Len(text), NEW to \in from .. Len(text)
    PROVE  /\ RangeChange(text, from, to, new) \in ContentChanges
           /\ ApplyChange(text, RangeChange(text, from, to, new)) = Splice(text, from, to, new)
<1>1. Len(text) \in Nat
    OBVIOUS
<1>2. to \in 0 .. Len(text) /\ from <= to
    BY <1>1
<1>3. /\ Position(text, from) = OffsetToLspPos(text, from)
      /\ Position(text, to) = OffsetToLspPos(text, to)
      /\ Position(text, from) \in SomePosition /\ Position(text, to) \in SomePosition
    BY <1>1, <1>2, EditorsPosition
<1>4. RangeChange(text, from, to, new) \in ContentChanges
    BY <1>3 DEF RangeChange, ContentChanges
<1>5. ApplyIncrementalChange(text, Position(text, from), Position(text, to), new)
          = Splice(text, from, to, new)
    BY <1>1, <1>2, <1>3, EditIsSplice
<1> QED BY <1>4, <1>5 DEF RangeChange, ApplyChange

LEMMA WholeChangeMeans ==
    ASSUME NEW text \in Seq(Chars), NEW new \in Seq(Chars)
    PROVE  /\ [whole |-> TRUE, text |-> new] \in ContentChanges
           /\ ApplyChange(text, [whole |-> TRUE, text |-> new]) = new
BY DEF ContentChanges, ApplyChange

\* An insertion at the end, then one at the start.
LEMMA EndsMeans ==
    ASSUME NEW text \in Seq(Chars), NEW first \in Seq(Chars), NEW last \in Seq(Chars)
    PROVE  LET atEnd == RangeChange(text, Len(text), Len(text), last)
               atHome == RangeChange(text, 0, 0, first)
           IN  /\ atEnd \in ContentChanges /\ atHome \in ContentChanges
               /\ first \o text \o last \in Seq(Chars)
               /\ ApplyChange(ApplyChange(text, atEnd), atHome) = first \o text \o last
<1> DEFINE n == Len(text)
           both == text \o last
<1>1. n \in Nat /\ n \in 0 .. n /\ 0 \in 0 .. n /\ n \in n .. n /\ 0 \in 0 .. 0
    OBVIOUS
<1>2. /\ RangeChange(text, n, n, last) \in ContentChanges
      /\ ApplyChange(text, RangeChange(text, n, n, last)) = Splice(text, n, n, last)
    BY <1>1, RangeChangeMeans
<1>3. Splice(text, n, n, last) = both
    <2>1. SubSeq(text, 1, n) = text
        OBVIOUS
    <2>2. SubSeq(text, n + 1, n) = << >>
        BY <1>1, SubSeqEmpty
    <2>3. both \in Seq(Chars)
        OBVIOUS
    <2>4. both \o << >> = both
        BY <2>3, ConcatEmptySeq
    <2> QED BY <2>1, <2>2, <2>4 DEF Splice
<1>4. both \in Seq(Chars) /\ Len(both) \in Nat /\ 0 \in 0 .. Len(both)
    OBVIOUS
<1> HIDE DEF both
<1>5. Position(text, 0) = Position(both, 0)
    <2>1. 1 .. 0 = {}
        OBVIOUS
    <2>2. \A t : {i \in 1 .. 0 : t[i] = NL} = {}
        BY <2>1
    <2>3. \A t : Position(t, 0) = [line |-> Cardinality({}), character |-> Cardinality({})]
        <3> TAKE t
        <3> DEFINE breaks == {i \in 1 .. 0 : t[i] = NL}
                   line == {i \in 1 .. 0 : \A b \in breaks : b < i}
        <3>1. breaks = {}
            BY <2>2
        <3>2. line = {}
            BY <2>1
        <3>3. Position(t, 0) = [line |-> Cardinality(breaks), character |-> Cardinality(line)]
            BY DEF Position
        <3> QED BY <3>1, <3>2, <3>3
    <2> QED BY <2>3
<1>6. RangeChange(text, 0, 0, first) = RangeChange(both, 0, 0, first)
    BY <1>5 DEF RangeChange
<1>7. 0 \in 0 .. n /\ 0 \in 0 .. 0
    BY <1>1
<1>8. /\ RangeChange(both, 0, 0, first) \in ContentChanges
      /\ ApplyChange(both, RangeChange(both, 0, 0, first)) = Splice(both, 0, 0, first)
    <2>1. 0 \in 0 .. Len(both) /\ 0 \in 0 .. Len(both)
        BY <1>4
    <2> QED BY <2>1, <1>4, RangeChangeMeans
<1>9. Splice(both, 0, 0, first) = first \o both
    <2>1. SubSeq(both, 1, 0) = << >>
        BY SubSeqEmpty
    <2>2. SubSeq(both, 0 + 1, Len(both)) = both
        BY <1>4
    <2>3. << >> \o first = first
        BY ConcatEmptySeq
    <2> QED BY <2>1, <2>2, <2>3 DEF Splice
<1>10. first \o both = first \o text \o last
    BY ConcatAssociative DEF both
<1>11. first \o both \in Seq(Chars)
    BY <1>4
<1> QED BY <1>2, <1>3, <1>6, <1>8, <1>9, <1>10, <1>11

-----------------------------------------------------------------------------
(***************************************************************************)
(* Types.                                                                  *)
(***************************************************************************)
LEMMA EditorMessage ==
    ASSUME NEW m \in FromEditor
    PROVE  /\ m.kind = "didOpen" => m.uri \in Uris /\ m.text \in Seq(Chars) /\ m.copy \in Copies
           /\ m.kind = "didChange" =>
                 /\ m.uri \in Uris /\ m.changes \in Seq(ContentChanges)
                 /\ m.version \in Nat /\ m.copy \in Copies
           /\ m.kind = "didClose" => m.uri \in Uris /\ m.copy = Nothing
           /\ m.kind = "rename" => m.uri \in Uris /\ m.id \in Ids
           /\ m.kind = "shutdown" => m.uri = Nothing /\ m.id \in Ids
BY DEF FromEditor

LEMMA ServerMessage ==
    ASSUME NEW m \in FromServer
    PROVE  /\ m.kind \in {"diagnostics", "answer"}
           /\ m.kind = "diagnostics" => m.uri \in Uris /\ m.on \in Seq(Chars)
           /\ m.kind = "answer" => m.id \in Ids
           /\ m.kind = "answer" /\ m.result # NoAnswer =>
                 m.uri \in Uris /\ m.result.version \in Nat /\ m.result.on \in Seq(Chars)
BY DEF FromServer

LEMMA TextTypes ==
    /\ \A t \in Texts : t \in Seq(Chars) /\ Len(t) <= MaxText
    /\ \A t \in Seq(Chars) : Len(t) <= MaxText => t \in Texts
    /\ Inserts \subseteq Seq(Chars)
<1>0. MaxText \in Nat
    BY SessionAssumption
<1>1. ASSUME NEW t \in Texts
      PROVE  t \in Seq(Chars) /\ Len(t) <= MaxText
    <2>1. PICK n \in 0 .. MaxText : t \in [1 .. n -> Chars]
        BY DEF Texts, Chars
    <2>2. n \in Nat
        BY <1>0
    <2>3. t \in Seq(Chars) /\ Len(t) = n
        BY <2>1, <2>2
    <2> QED BY <2>3, <1>0
<1>2. ASSUME NEW t \in Seq(Chars), Len(t) <= MaxText
      PROVE  t \in Texts
    <2>1. t \in [1 .. Len(t) -> Chars]
        OBVIOUS
    <2>2. Len(t) \in Nat
        OBVIOUS
    <2>3. Len(t) \in 0 .. MaxText
        BY <1>0, <1>2, <2>2
    <2> QED BY <2>1, <2>3 DEF Texts, Chars
<1>3. Inserts \subseteq Seq(Chars)
    <2> SUFFICES ASSUME NEW new \in Inserts
                 PROVE  new \in Seq(Chars)
        OBVIOUS
    <2>1. PICK n \in 0 .. 1 : new \in [1 .. n -> Chars]
        BY DEF Inserts, Chars
    <2>2. n \in Nat
        OBVIOUS
    <2> QED BY <2>1, <2>2
<1> QED BY <1>1, <1>2, <1>3

LEMMA MapDomains ==
    ASSUME NEW f, NEW k
    PROVE  /\ DOMAIN Removed(f, k) = DOMAIN f \ {k}
           /\ \A v : DOMAIN Inserted(f, k, v) = DOMAIN f \cup {k} /\ Inserted(f, k, v)[k] = v
           /\ \A v : \A x \in DOMAIN f : x # k => Inserted(f, k, v)[x] = f[x]
           /\ \A x \in DOMAIN f : x # k => Removed(f, k)[x] = f[x]
BY DEF Inserted, Removed

LEMMA InsertedType ==
    ASSUME NEW S, NEW f, f \in [DOMAIN f -> S], NEW k, NEW v \in S
    PROVE  Inserted(f, k, v) \in [DOMAIN f \cup {k} -> S]
BY DEF Inserted

LEMMA RemovedType ==
    ASSUME NEW S, NEW f, f \in [DOMAIN f -> S], NEW k
    PROVE  Removed(f, k) \in [DOMAIN f \ {k} -> S]
BY DEF Removed

LEMMA QueueTypes ==
    ASSUME NEW S, NEW q \in Seq(S)
    PROVE  /\ Len(q) \in Nat
           /\ DOMAIN q = 1 .. Len(q)
           /\ \A i \in DOMAIN q : q[i] \in S
           /\ \A m \in S : /\ Append(q, m) \in Seq(S)
                            /\ Len(Append(q, m)) = Len(q) + 1
                            /\ \A i \in 1 .. Len(q) : Append(q, m)[i] = q[i]
                            /\ Append(q, m)[Len(q) + 1] = m
           /\ q # << >> => /\ Head(q) \in S /\ Head(q) = q[1]
                           /\ Len(q) \in Nat \ {0}
                           /\ Tail(q) \in Seq(S)
                           /\ Len(Tail(q)) = Len(q) - 1
                           /\ \A i \in 1 .. Len(q) - 1 : Tail(q)[i] = q[i + 1]
<1>1. Len(q) \in Nat /\ DOMAIN q = 1 .. Len(q) /\ \A i \in DOMAIN q : q[i] \in S
    OBVIOUS
<1>2. ASSUME NEW m \in S
      PROVE  /\ Append(q, m) \in Seq(S)
             /\ Len(Append(q, m)) = Len(q) + 1
             /\ \A i \in 1 .. Len(q) : Append(q, m)[i] = q[i]
             /\ Append(q, m)[Len(q) + 1] = m
    BY AppendProperties
<1>3. ASSUME q # << >>
      PROVE  /\ Head(q) \in S /\ Head(q) = q[1]
             /\ Len(q) \in Nat \ {0}
             /\ Tail(q) \in Seq(S)
             /\ Len(Tail(q)) = Len(q) - 1
             /\ \A i \in 1 .. Len(q) - 1 : Tail(q)[i] = q[i + 1]
    <2>1. Len(q) # 0
        BY <1>3, EmptySeq
    <2>2. Len(Tail(q)) = Len(q) - 1 /\ Tail(q) \in Seq(S) /\ Head(q) \in S
        BY <1>3, HeadTailProperties
    <2>3. \A i \in 1 .. Len(Tail(q)) : Tail(q)[i] = q[i + 1]
        BY <1>3, HeadTailProperties
    <2>4. Head(q) = q[1]
        BY <1>3
    <2> QED BY <1>1, <2>1, <2>2, <2>3, <2>4
<1> QED BY <1>1, <1>2, <1>3

LEMMA SendTypes ==
    ASSUME TypeOK, NEW m \in FromEditor, Send(m)
    PROVE  ServerTypes' /\ PipeTypes'
<1>1. Len(toServer) \in Nat /\ PipeSize \in Nat
    BY SessionAssumption DEF TypeOK, PipeTypes
<1>2. toServer' \in Seq(FromEditor) /\ Len(toServer') = Len(toServer) + 1
    BY QueueTypes DEF TypeOK, PipeTypes, Send
<1>3. Len(toServer) < PipeSize
    BY DEF Send, CanSend
<1>4. Len(toServer') <= PipeSize
    BY <1>1, <1>2, <1>3
<1>5. PipeTypes'
    BY <1>2, <1>4 DEF Send, TypeOK, PipeTypes
<1>6. ServerTypes'
    BY DEF Send, serverVars, TypeOK, ServerTypes
<1> QED BY <1>5, <1>6

LEMMA OpenTypes == ASSUME TypeOK, NEW u \in Uris, Open(u) PROVE TypeOK'
<1>1. disk[u] \in Texts
    BY DEF TypeOK, EditorTypes
<1>2. Copy(disk[u], 0) \in Copies
    BY <1>1, TextTypes DEF Copy, Copies
<1>3. [kind |-> "didOpen", uri |-> u, text |-> disk[u], copy |-> Copy(disk[u], 0)] \in FromEditor
    BY <1>1, <1>2, TextTypes DEF FromEditor
<1>4. ServerTypes' /\ PipeTypes'
    BY <1>3, SendTypes DEF Open
<1>5. DOMAIN cText' = DOMAIN cText \cup {u} /\ cText' \in [DOMAIN cText' -> Texts]
    <2>1. cText \in [DOMAIN cText -> Texts] /\ cText' = Inserted(cText, u, disk[u])
        BY DEF Open, TypeOK, EditorTypes
    <2>2. /\ DOMAIN Inserted(cText, u, disk[u]) = DOMAIN cText \cup {u}
          /\ Inserted(cText, u, disk[u]) \in [DOMAIN cText \cup {u} -> Texts]
        BY <1>1, <2>1, MapDomains, InsertedType, RemovedType
    <2> QED BY <2>1, <2>2
<1>6. cVersion' \in [DOMAIN cText' -> 0 .. MaxVersion]
    <2>1. 0 \in 0 .. MaxVersion
        BY SessionAssumption
    <2>2. /\ cVersion \in [DOMAIN cText -> 0 .. MaxVersion] /\ DOMAIN cVersion = DOMAIN cText
          /\ cVersion' = Inserted(cVersion, u, 0)
        BY DEF Open, TypeOK, EditorTypes
    <2>3. cVersion' \in [DOMAIN cVersion \cup {u} -> 0 .. MaxVersion]
        BY <2>1, <2>2, MapDomains, InsertedType, RemovedType
    <2> QED BY <1>5, <2>2, <2>3
<1>7. EditorTypes'
    BY <1>5, <1>6 DEF Open, TypeOK, EditorTypes
<1> QED BY <1>4, <1>7 DEF TypeOK

LEMMA ChangeTypes ==
    ASSUME TypeOK, NEW u \in DOMAIN cText, NEW newText \in Seq(Chars),
           NEW changes \in Seq(ContentChanges), Change(u, newText, changes)
    PROVE  TypeOK'
<1>1. cVersion[u] \in 0 .. MaxVersion /\ cVersion[u] < MaxVersion /\ u \in Uris
    BY DEF TypeOK, EditorTypes, Change
<1>2. cVersion[u] \in Nat /\ cVersion[u] + 1 \in 0 .. MaxVersion /\ cVersion[u] + 1 \in Nat
    BY <1>1, SessionAssumption
<1>3. Copy(newText, cVersion[u] + 1) \in Copies
    BY <1>2 DEF Copy, Copies
<1>4. [kind |-> "didChange", uri |-> u, changes |-> changes,
       version |-> cVersion[u], copy |-> Copy(newText, cVersion[u] + 1)] \in FromEditor
    BY <1>1, <1>2, <1>3 DEF FromEditor
<1>5. ServerTypes' /\ PipeTypes'
    BY <1>4, SendTypes DEF Change
<1>6. newText \in Texts
    BY TextTypes DEF Change
<1>7. DOMAIN cText' = DOMAIN cText /\ cText' \in [DOMAIN cText -> Texts]
    BY <1>6 DEF Change, TypeOK, EditorTypes
<1>8. cVersion' \in [DOMAIN cText -> 0 .. MaxVersion]
    BY <1>2 DEF Change, TypeOK, EditorTypes
<1>9. EditorTypes'
    BY <1>7, <1>8 DEF Change, TypeOK, EditorTypes
<1> QED BY <1>5, <1>9 DEF TypeOK

(***************************************************************************)
(* Whatever the editor does to a text, what it says of it leads from the   *)
(* text it had to the text it has.                                         *)
(***************************************************************************)
EditorChange(u) == Edit(u) \/ EditTwice(u) \/ Replace(u)

LEMMA ChangesMeant ==
    ASSUME TypeOK, NEW u \in DOMAIN cText, EditorChange(u)
    PROVE  \E newText \in Seq(Chars), changes \in Seq(ContentChanges) :
               /\ Change(u, newText, changes)
               /\ ApplyChanges(cText[u], changes) = newText
<1>1. cText[u] \in Seq(Chars) /\ Len(cText[u]) \in Nat
    BY TextTypes DEF TypeOK, EditorTypes
<1>2. CASE Edit(u)
    <2>0. PICK from \in 0 .. Len(cText[u]) : \E to \in from .. Len(cText[u]), new \in Inserts :
              Change(u, Splice(cText[u], from, to, new), <<RangeChange(cText[u], from, to, new)>>)
        BY <1>2 DEF Edit, RangeChange
    <2>1. PICK to \in from .. Len(cText[u]), new \in Inserts :
              Change(u, Splice(cText[u], from, to, new), <<RangeChange(cText[u], from, to, new)>>)
        BY <2>0
    <2>2. new \in Seq(Chars)
        BY TextTypes
    <2>3. /\ RangeChange(cText[u], from, to, new) \in ContentChanges
          /\ ApplyChange(cText[u], RangeChange(cText[u], from, to, new))
                 = Splice(cText[u], from, to, new)
        BY <1>1, <2>2, RangeChangeMeans
    <2>4. Splice(cText[u], from, to, new) \in Seq(Chars)
        BY <1>1, <2>2, SpliceKeeps
    <2> QED BY <1>1, <2>1, <2>3, <2>4, OneChange
<1>3. CASE EditTwice(u)
    <2> DEFINE n == Len(cText[u])
    <2>1. PICK first \in Inserts \ {<< >>}, last \in Inserts \ {<< >>} :
              Change(u, first \o cText[u] \o last,
                     <<RangeChange(cText[u], n, n, last), RangeChange(cText[u], 0, 0, first)>>)
        BY <1>3 DEF EditTwice, RangeChange
    <2>2. first \in Seq(Chars) /\ last \in Seq(Chars)
        BY TextTypes
    <2> DEFINE c == RangeChange(cText[u], n, n, last)
               d == RangeChange(cText[u], 0, 0, first)
    <2>3. /\ c \in ContentChanges /\ d \in ContentChanges
          /\ first \o cText[u] \o last \in Seq(Chars)
          /\ ApplyChange(ApplyChange(cText[u], c), d) = first \o cText[u] \o last
        BY <1>1, <2>2, EndsMeans
    <2> HIDE DEF c, d
    <2>4. /\ <<c, d>> \in Seq(ContentChanges)
          /\ ApplyChanges(cText[u], <<c, d>>) = ApplyChange(ApplyChange(cText[u], c), d)
        BY <1>1, <2>3, TwoChanges
    <2>5. Change(u, first \o cText[u] \o last, <<c, d>>)
        BY <2>1 DEF c, d
    <2> QED BY <2>3, <2>4, <2>5
<1>4. CASE Replace(u)
    <2>1. PICK text \in Texts : Change(u, text, <<[whole |-> TRUE, text |-> text]>>)
        BY <1>4 DEF Replace
    <2>2. text \in Seq(Chars)
        BY TextTypes
    <2>3. /\ [whole |-> TRUE, text |-> text] \in ContentChanges
          /\ ApplyChange(cText[u], [whole |-> TRUE, text |-> text]) = text
        BY <1>1, <2>2, WholeChangeMeans
    <2> QED BY <1>1, <2>1, <2>2, <2>3, OneChange
<1> QED BY <1>2, <1>3, <1>4 DEF EditorChange

LEMMA EditorChangeTypes ==
    ASSUME TypeOK, NEW u \in DOMAIN cText, EditorChange(u)
    PROVE  TypeOK'
BY ChangesMeant, ChangeTypes

LEMMA SaveTypes == ASSUME TypeOK, NEW u \in DOMAIN cText, Save(u) PROVE TypeOK'
<1>1. u \in Uris /\ cText[u] \in Texts
    BY DEF TypeOK, EditorTypes
<1>2. [kind |-> "didSave", uri |-> u] \in FromEditor
    BY <1>1 DEF FromEditor
<1>3. ServerTypes' /\ PipeTypes'
    BY <1>2, SendTypes DEF Save
<1>4. disk' \in [Uris -> Texts]
    BY <1>1 DEF Save, TypeOK, EditorTypes
<1>5. EditorTypes'
    BY <1>4 DEF Save, clientVars, TypeOK, EditorTypes
<1> QED BY <1>3, <1>5 DEF TypeOK

LEMMA CloseTypes == ASSUME TypeOK, NEW u \in DOMAIN cText, Close(u) PROVE TypeOK'
<1>1. u \in Uris
    BY DEF TypeOK, EditorTypes
<1>2. [kind |-> "didClose", uri |-> u, copy |-> Nothing] \in FromEditor
    BY <1>1 DEF FromEditor
<1>3. ServerTypes' /\ PipeTypes'
    BY <1>2, SendTypes DEF Close
<1>4. DOMAIN cText' = DOMAIN cText \ {u} /\ cText' \in [DOMAIN cText' -> Texts]
    <2>1. cText \in [DOMAIN cText -> Texts] /\ cText' = Removed(cText, u)
        BY DEF Close, TypeOK, EditorTypes
    <2> QED BY <2>1, MapDomains, InsertedType, RemovedType
<1>5. cVersion' \in [DOMAIN cText' -> 0 .. MaxVersion]
    <2>1. /\ cVersion \in [DOMAIN cText -> 0 .. MaxVersion] /\ DOMAIN cVersion = DOMAIN cText
          /\ cVersion' = Removed(cVersion, u)
        BY DEF Close, TypeOK, EditorTypes
    <2>2. cVersion' \in [DOMAIN cVersion \ {u} -> 0 .. MaxVersion]
        BY <2>1, MapDomains, InsertedType, RemovedType
    <2> QED BY <1>4, <2>1, <2>2
<1>6. shown' \in [Uris -> Seq(Chars) \cup {Nothing}]
    BY DEF Close, TypeOK, EditorTypes
<1>7. /\ DOMAIN awaiting' = DOMAIN awaiting
      /\ awaiting' \in [DOMAIN awaiting -> Uris \cup {Nothing, Abandoned}]
    BY DEF Close, TypeOK, EditorTypes
<1>8. EditorTypes'
    BY <1>4, <1>5, <1>6, <1>7 DEF Close, TypeOK, EditorTypes
<1> QED BY <1>3, <1>8 DEF TypeOK

\* A new request is awaited, the others as before.
LEMMA AwaitTypes ==
    ASSUME EditorTypes, NEW id \in Ids, NEW v \in Uris \cup {Nothing},
           awaiting' = Inserted(awaiting, id, v),
           ending' \in {"no", "shutdown", "abrupt"},
           UNCHANGED <<disk, cText, cVersion, shown>>
    PROVE  EditorTypes'
<1>1. awaiting \in [DOMAIN awaiting -> Uris \cup {Nothing, Abandoned}] /\ DOMAIN awaiting \subseteq Ids
    BY DEF EditorTypes
<1>2. /\ DOMAIN awaiting' = DOMAIN awaiting \cup {id}
      /\ awaiting' \in [DOMAIN awaiting \cup {id} -> Uris \cup {Nothing, Abandoned}]
    <2> DEFINE A == Uris \cup {Nothing, Abandoned}
    <2>1. v \in A /\ awaiting \in [DOMAIN awaiting -> A]
        BY <1>1
    <2> HIDE DEF A
    <2>2. /\ DOMAIN Inserted(awaiting, id, v) = DOMAIN awaiting \cup {id}
          /\ Inserted(awaiting, id, v) \in [DOMAIN awaiting \cup {id} -> A]
        BY <2>1, MapDomains, InsertedType, RemovedType
    <2> QED BY <2>2 DEF A
<1> QED BY <1>1, <1>2 DEF EditorTypes

LEMMA AskTypes ==
    ASSUME TypeOK, NEW id \in Ids \ DOMAIN awaiting,
           AskShutdown(id) \/ \E u \in DOMAIN cText : AskRename(u, id)
    PROVE  TypeOK'
<1>1. CASE AskShutdown(id)
    <2>1. [kind |-> "shutdown", uri |-> Nothing, id |-> id] \in FromEditor
        BY DEF FromEditor
    <2>2. ServerTypes' /\ PipeTypes'
        BY <1>1, <2>1, SendTypes DEF AskShutdown
    <2>3. EditorTypes'
        BY <1>1, AwaitTypes DEF AskShutdown, TypeOK
    <2> QED BY <2>2, <2>3 DEF TypeOK
<1>2. CASE \E u \in DOMAIN cText : AskRename(u, id)
    <2>1. PICK u \in DOMAIN cText : AskRename(u, id)
        BY <1>2
    <2>2. u \in Uris
        BY DEF TypeOK, EditorTypes
    <2>3. [kind |-> "rename", uri |-> u, id |-> id] \in FromEditor
        BY <2>2 DEF FromEditor
    <2>4. ServerTypes' /\ PipeTypes'
        BY <2>1, <2>3, SendTypes DEF AskRename
    <2>5. ending' \in {"no", "shutdown", "abrupt"}
        BY <2>1 DEF AskRename, TypeOK, EditorTypes
    <2>6. EditorTypes'
        BY <2>1, <2>2, <2>5, AwaitTypes DEF AskRename, TypeOK
    <2> QED BY <2>4, <2>6 DEF TypeOK
<1> QED BY <1>1, <1>2

LEMMA EndTypes == ASSUME TypeOK, SendExit \/ CloseInput PROVE TypeOK'
<1>1. CASE SendExit
    <2>1. [kind |-> "exit"] \in FromEditor
        BY DEF FromEditor
    <2>2. ServerTypes' /\ PipeTypes'
        BY <1>1, <2>1, SendTypes DEF SendExit
    <2>3. EditorTypes'
        BY <1>1 DEF SendExit, TypeOK, EditorTypes
    <2> QED BY <2>2, <2>3 DEF TypeOK
<1>2. CASE CloseInput
    BY <1>2 DEF CloseInput, serverVars, TypeOK, ServerTypes, PipeTypes, EditorTypes
<1> QED BY <1>1, <1>2

LEMMA ReceiveTypes == ASSUME TypeOK, Receive PROVE TypeOK'
<1> DEFINE m == Head(toClient)
<1>1. /\ m \in FromServer /\ Len(toClient) \in Nat
      /\ toClient' \in Seq(FromServer) /\ Len(toClient') = Len(toClient) - 1
    BY QueueTypes DEF Receive, TypeOK, PipeTypes
<1>2. Len(toClient') <= PipeSize
    <2>1. PipeSize \in Nat /\ Len(toClient) <= PipeSize
        BY SessionAssumption DEF TypeOK, PipeTypes
    <2> QED BY <1>1, <2>1
<1>3. PipeTypes'
    BY <1>1, <1>2 DEF Receive, TypeOK, PipeTypes
<1>4. ServerTypes'
    BY DEF Receive, serverVars, TypeOK, ServerTypes
<1>5. shown' \in [Uris -> Seq(Chars) \cup {Nothing}]
    <2>1. m.kind = "diagnostics" => m.on \in Seq(Chars)
        BY <1>1, ServerMessage
    <2> HIDE DEF m
    <2>2. \/ m.kind = "diagnostics" /\ shown' = IF m.uri \in DOMAIN cText
                                               THEN [shown EXCEPT ![m.uri] = m.on] ELSE shown
          \/ UNCHANGED shown
        BY DEF Receive, m
    <2> QED BY <2>1, <2>2 DEF TypeOK, EditorTypes
<1>6. DOMAIN awaiting' \subseteq Ids /\ awaiting' \in [DOMAIN awaiting' -> Uris \cup {Nothing, Abandoned}]
    <2>1. /\ awaiting \in [DOMAIN awaiting -> Uris \cup {Nothing, Abandoned}]
          /\ DOMAIN awaiting \subseteq Ids
        BY DEF TypeOK, EditorTypes
    <2>2. awaiting' = Removed(awaiting, m.id) \/ UNCHANGED awaiting
        BY DEF Receive
    <2>3. CASE awaiting' = Removed(awaiting, m.id)
        <3>1. /\ DOMAIN awaiting' = DOMAIN awaiting \ {m.id}
              /\ awaiting' \in [DOMAIN awaiting \ {m.id} -> Uris \cup {Nothing, Abandoned}]
            <4> DEFINE A == Uris \cup {Nothing, Abandoned}
            <4>1. awaiting \in [DOMAIN awaiting -> A]
                BY <2>1
            <4> HIDE DEF A, m
            <4>2. /\ DOMAIN Removed(awaiting, m.id) = DOMAIN awaiting \ {m.id}
                  /\ Removed(awaiting, m.id) \in [DOMAIN awaiting \ {m.id} -> A]
                BY <4>1, MapDomains, InsertedType, RemovedType
            <4> QED BY <4>2, <2>3 DEF A
        <3> QED BY <2>1, <3>1
    <2> QED BY <2>1, <2>2, <2>3
<1>7. EditorTypes'
    BY <1>5, <1>6 DEF Receive, TypeOK, EditorTypes
<1> QED BY <1>3, <1>4, <1>7 DEF TypeOK

LEMMA TakeTypes ==
    ASSUME TypeOK, NEW kind, Handle(kind)
    PROVE  /\ Head(toServer) \in FromEditor /\ Head(toServer).kind = kind
           /\ toServer' \in Seq(FromEditor) /\ Len(toServer') <= PipeSize
<1>1. /\ Head(toServer) \in FromEditor /\ Len(toServer) \in Nat
      /\ toServer' \in Seq(FromEditor) /\ Len(toServer') = Len(toServer) - 1
    BY QueueTypes DEF Handle, TypeOK, PipeTypes
<1>2. PipeSize \in Nat /\ Len(toServer) <= PipeSize
    BY SessionAssumption DEF TypeOK, PipeTypes
<1>3. Len(toServer') <= PipeSize
    BY <1>1, <1>2
<1> QED BY <1>1, <1>3 DEF Handle

LEMMA WriteTypes ==
    ASSUME TypeOK, NEW m \in FromServer, Write(m)
    PROVE  toClient' \in Seq(FromServer) /\ Len(toClient') <= PipeSize
<1>1. /\ Len(toClient) \in Nat /\ Len(toClient) < PipeSize
      /\ toClient' \in Seq(FromServer) /\ Len(toClient') = Len(toClient) + 1
    BY QueueTypes DEF Write, TypeOK, PipeTypes
<1>2. PipeSize \in Nat
    BY SessionAssumption
<1>3. Len(toClient') <= PipeSize
    BY <1>1, <1>2
<1> QED BY <1>1, <1>3

LEMMA PublishTypes ==
    ASSUME TypeOK, NEW uri \in Uris, NEW docs, docs \in [DOMAIN docs -> Seq(Chars)],
           PublishDiagnostics(uri, docs)
    PROVE  toClient' \in Seq(FromServer) /\ Len(toClient') <= PipeSize
<1>1. CASE uri \in DOMAIN docs
    <2>1. disk[uri] \in Seq(Chars)
        BY TextTypes DEF TypeOK, EditorTypes
    <2>2. docs[uri] \in Seq(Chars)
        BY <1>1
    <2>3. Analysed(uri, docs) \in Seq(Chars)
        BY <2>1, <2>2 DEF Analysed
    <2>4. [kind |-> "diagnostics", uri |-> uri, on |-> Analysed(uri, docs)] \in FromServer
        BY <2>3 DEF FromServer
    <2> QED BY <1>1, <2>4, WriteTypes DEF PublishDiagnostics
<1>2. CASE uri \notin DOMAIN docs
    BY <1>2 DEF PublishDiagnostics, TypeOK, PipeTypes
<1> QED BY <1>1, <1>2

LEMMA AnswerTypes ==
    ASSUME TypeOK, NEW m \in FromEditor, m.kind \in {"rename", "shutdown"}, NEW result,
           \/ result = NoAnswer
           \/ m.kind = "rename" /\ result \in [version : Nat, on : Seq(Chars)],
           Answer(m, result)
    PROVE  toClient' \in Seq(FromServer) /\ Len(toClient') <= PipeSize
<1>1. [kind |-> "answer", id |-> m.id, uri |-> m.uri, result |-> result] \in FromServer
    BY EditorMessage DEF FromServer
<1> QED BY <1>1, WriteTypes DEF Answer

\* A step of the server leaves the editor and the disk alone.
LEMMA EditorTypesKept ==
    ASSUME EditorTypes, UNCHANGED <<disk, clientVars>>
    PROVE  EditorTypes'
BY DEF EditorTypes, clientVars

LEMMA DidOpenTypes == ASSUME TypeOK, DidOpen, UNCHANGED clientVars PROVE TypeOK'
<1> DEFINE m == Head(toServer)
           docs == Inserted(openDocs, m.uri, m.text)
<1>1. /\ m \in FromEditor /\ m.kind = "didOpen"
      /\ toServer' \in Seq(FromEditor) /\ Len(toServer') <= PipeSize
    BY TakeTypes DEF DidOpen
<1>2. m.uri \in Uris /\ m.text \in Seq(Chars)
    BY <1>1, EditorMessage
<1>3. /\ openDocs' = docs /\ docVersions' = Inserted(docVersions, m.uri, 0)
      /\ PublishDiagnostics(m.uri, docs)
      /\ UNCHANGED <<shutdownReceived, exitCode, disk, inputClosed>>
    BY DEF DidOpen, Handle
<1> HIDE DEF m
<1>4. DOMAIN docs = DOMAIN openDocs \cup {m.uri} /\ docs \in [DOMAIN docs -> Seq(Chars)]
    <2>1. openDocs \in [DOMAIN openDocs -> Seq(Chars)]
        BY DEF TypeOK, ServerTypes
    <2>2. docs \in [DOMAIN openDocs \cup {m.uri} -> Seq(Chars)]
        BY <2>1, <1>2, InsertedType
    <2> QED BY <2>2
<1>5. /\ DOMAIN docVersions' = DOMAIN docVersions \cup {m.uri}
      /\ docVersions' \in [DOMAIN docVersions' -> Nat]
    <2>1. docVersions \in [DOMAIN docVersions -> Nat] /\ 0 \in Nat
        BY DEF TypeOK, ServerTypes
    <2>2. docVersions' \in [DOMAIN docVersions \cup {m.uri} -> Nat]
        BY <2>1, <1>3, InsertedType
    <2> QED BY <2>2
<1> HIDE DEF docs
<1>6. toClient' \in Seq(FromServer) /\ Len(toClient') <= PipeSize
    BY <1>2, <1>3, <1>4, PublishTypes
<1>7. ServerTypes'
    BY <1>2, <1>3, <1>4, <1>5 DEF TypeOK, ServerTypes
<1>8. PipeTypes'
    BY <1>1, <1>3, <1>6 DEF TypeOK, PipeTypes
<1>9. EditorTypes'
    BY <1>3, EditorTypesKept DEF TypeOK
<1> QED BY <1>7, <1>8, <1>9 DEF TypeOK

LEMMA DidChangeTypes == ASSUME TypeOK, DidChange, UNCHANGED clientVars PROVE TypeOK'
<1> DEFINE m == Head(toServer)
           docs == IF m.uri \in DOMAIN openDocs
                   THEN [openDocs EXCEPT ![m.uri] = ApplyChanges(@, m.changes)]
                   ELSE openDocs
<1>1. /\ m \in FromEditor /\ m.kind = "didChange"
      /\ toServer' \in Seq(FromEditor) /\ Len(toServer') <= PipeSize
    BY TakeTypes DEF DidChange
<1>2. m.uri \in Uris /\ m.changes \in Seq(ContentChanges) /\ m.version \in Nat
    BY <1>1, EditorMessage
<1>3. /\ openDocs' = docs /\ docVersions' = Inserted(docVersions, m.uri, m.version + 1)
      /\ PublishDiagnostics(m.uri, docs)
      /\ UNCHANGED <<shutdownReceived, exitCode, disk, inputClosed>>
    BY DEF DidChange, Handle
<1> HIDE DEF m
<1>4. DOMAIN docs = DOMAIN openDocs /\ docs \in [DOMAIN docs -> Seq(Chars)]
    <2>1. openDocs \in [DOMAIN openDocs -> Seq(Chars)]
        BY DEF TypeOK, ServerTypes
    <2>2. m.uri \in DOMAIN openDocs => ApplyChanges(openDocs[m.uri], m.changes) \in Seq(Chars)
        BY <1>2, <2>1, ChangesType
    <2> QED BY <2>1, <2>2
<1>5. /\ DOMAIN docVersions' = DOMAIN docVersions \cup {m.uri}
      /\ docVersions' \in [DOMAIN docVersions' -> Nat]
    <2>1. docVersions \in [DOMAIN docVersions -> Nat] /\ m.version + 1 \in Nat
        BY <1>2 DEF TypeOK, ServerTypes
    <2>2. docVersions' \in [DOMAIN docVersions \cup {m.uri} -> Nat]
        BY <2>1, <1>3, InsertedType
    <2> QED BY <2>2
<1> HIDE DEF docs
<1>6. toClient' \in Seq(FromServer) /\ Len(toClient') <= PipeSize
    BY <1>2, <1>3, <1>4, PublishTypes
<1>7. ServerTypes'
    BY <1>2, <1>3, <1>4, <1>5 DEF TypeOK, ServerTypes
<1>8. PipeTypes'
    BY <1>1, <1>3, <1>6 DEF TypeOK, PipeTypes
<1>9. EditorTypes'
    BY <1>3, EditorTypesKept DEF TypeOK
<1> QED BY <1>7, <1>8, <1>9 DEF TypeOK

LEMMA DidCloseTypes == ASSUME TypeOK, DidClose, UNCHANGED clientVars PROVE TypeOK'
<1> DEFINE uri == Head(toServer).uri
<1>1. toServer' \in Seq(FromEditor) /\ Len(toServer') <= PipeSize
    BY TakeTypes DEF DidClose
<1>2. /\ openDocs' = Removed(openDocs, uri) /\ docVersions' = Removed(docVersions, uri)
      /\ UNCHANGED <<toClient, shutdownReceived, exitCode, disk, inputClosed>>
    BY DEF DidClose, Handle
<1> HIDE DEF uri
<1>3. /\ openDocs \in [DOMAIN openDocs -> Seq(Chars)]
      /\ docVersions \in [DOMAIN docVersions -> Nat]
    BY DEF TypeOK, ServerTypes
<1>4. DOMAIN openDocs' = DOMAIN openDocs \ {uri} /\ openDocs' \in [DOMAIN openDocs' -> Seq(Chars)]
    BY <1>2, <1>3, MapDomains, RemovedType
<1>5. DOMAIN docVersions' = DOMAIN docVersions \ {uri} /\ docVersions' \in [DOMAIN docVersions' -> Nat]
    BY <1>2, <1>3, MapDomains, RemovedType
<1>6. ServerTypes'
    BY <1>2, <1>4, <1>5 DEF TypeOK, ServerTypes
<1>7. PipeTypes'
    BY <1>1, <1>2 DEF TypeOK, PipeTypes
<1>8. EditorTypes'
    BY <1>2, EditorTypesKept DEF TypeOK
<1> QED BY <1>6, <1>7, <1>8 DEF TypeOK

LEMMA OtherServerTypes ==
    ASSUME TypeOK, OtherNotification \/ Rename \/ Shutdown \/ Exit \/ EndOfInput,
           UNCHANGED clientVars
    PROVE  TypeOK'
<1> DEFINE m == Head(toServer)
<1>1. CASE OtherNotification
    <2>1. toServer' \in Seq(FromEditor) /\ Len(toServer') <= PipeSize
        BY <1>1, TakeTypes DEF OtherNotification
    <2>2. UNCHANGED <<toClient, serverVars, disk, inputClosed>>
        BY <1>1 DEF OtherNotification, Handle
    <2>3. EditorTypes'
        BY <2>2, EditorTypesKept DEF TypeOK
    <2> QED BY <2>1, <2>2, <2>3 DEF serverVars, TypeOK, ServerTypes, PipeTypes
<1>2. CASE Rename
    <2>1. /\ m \in FromEditor /\ m.kind = "rename"
          /\ toServer' \in Seq(FromEditor) /\ Len(toServer') <= PipeSize
        BY <1>2, TakeTypes DEF Rename
    <2>2. UNCHANGED <<serverVars, disk, inputClosed>>
        BY <1>2 DEF Rename, Handle
    <2> DEFINE version == IF m.uri \in DOMAIN docVersions THEN docVersions[m.uri] ELSE 0
    <2>3. \/ Answer(m, NoAnswer)
          \/ m.uri \in DOMAIN openDocs /\ Answer(m, [version |-> version, on |-> openDocs[m.uri]])
        BY <1>2 DEF Rename
    <2> HIDE DEF m
    <2>4. version \in Nat
        BY DEF TypeOK, ServerTypes
    <2>5. m.uri \in DOMAIN openDocs =>
              [version |-> version, on |-> openDocs[m.uri]] \in [version : Nat, on : Seq(Chars)]
        BY <2>4 DEF TypeOK, ServerTypes
    <2> HIDE DEF version
    <2>6. toClient' \in Seq(FromServer) /\ Len(toClient') <= PipeSize
        BY <2>1, <2>3, <2>5, AnswerTypes
    <2>7. EditorTypes'
        BY <2>2, EditorTypesKept DEF TypeOK
    <2> QED BY <2>1, <2>2, <2>6, <2>7 DEF serverVars, TypeOK, ServerTypes, PipeTypes
<1>3. CASE Shutdown
    <2>1. /\ m \in FromEditor /\ m.kind = "shutdown"
          /\ toServer' \in Seq(FromEditor) /\ Len(toServer') <= PipeSize
        BY <1>3, TakeTypes DEF Shutdown
    <2>2. /\ shutdownReceived' = TRUE /\ Answer(m, NoAnswer)
          /\ UNCHANGED <<openDocs, docVersions, exitCode, disk, inputClosed>>
        BY <1>3 DEF Shutdown, Handle
    <2> HIDE DEF m
    <2>3. toClient' \in Seq(FromServer) /\ Len(toClient') <= PipeSize
        BY <2>1, <2>2, AnswerTypes
    <2>4. EditorTypes'
        BY <2>2, EditorTypesKept DEF TypeOK
    <2> QED BY <2>1, <2>2, <2>3, <2>4 DEF TypeOK, ServerTypes, PipeTypes
<1>4. CASE Exit
    <2>1. toServer' \in Seq(FromEditor) /\ Len(toServer') <= PipeSize
        BY <1>4, TakeTypes DEF Exit
    <2>2. /\ exitCode' \in {0, 1}
          /\ UNCHANGED <<toClient, openDocs, docVersions, shutdownReceived, disk, inputClosed>>
        BY <1>4 DEF Exit, Handle
    <2>3. EditorTypes'
        BY <2>2, EditorTypesKept DEF TypeOK
    <2> QED BY <2>1, <2>2, <2>3 DEF TypeOK, ServerTypes, PipeTypes
<1>5. CASE EndOfInput
    <2>1. exitCode' = 0 /\ UNCHANGED <<openDocs, docVersions, shutdownReceived, disk, pipes>>
        BY <1>5 DEF EndOfInput
    <2>2. EditorTypes'
        BY <2>1, EditorTypesKept DEF TypeOK
    <2> QED BY <2>1, <2>2 DEF pipes, TypeOK, ServerTypes, PipeTypes
<1> QED BY <1>1, <1>2, <1>3, <1>4, <1>5

LEMMA InitTypes == Init => TypeOK
<1> SUFFICES ASSUME Init
             PROVE  TypeOK
    OBVIOUS
<1>1. ServerTypes
    <2>1. /\ openDocs = << >> /\ docVersions = << >>
          /\ shutdownReceived = FALSE /\ exitCode = Running
        BY DEF Init, ServerInit
    <2>2. DOMAIN openDocs \subseteq Uris /\ openDocs \in [DOMAIN openDocs -> Seq(Chars)]
        BY <2>1
    <2>3. DOMAIN docVersions \subseteq Uris /\ docVersions \in [DOMAIN docVersions -> Nat]
        BY <2>1
    <2> QED BY <2>1, <2>2, <2>3 DEF ServerTypes
<1>2. PipeTypes
    <2>1. Len(<< >>) = 0 /\ 0 <= PipeSize /\ << >> \in Seq(FromEditor) /\ << >> \in Seq(FromServer)
        BY SessionAssumption
    <2> QED BY <2>1 DEF Init, ServerInit, PipeTypes
<1>3. EditorTypes
    BY DEF Init, EditorTypes
<1> QED BY <1>1, <1>2, <1>3 DEF TypeOK

LEMMA StepTypes == TypeOK /\ [Next]_vars => TypeOK'
<1> SUFFICES ASSUME TypeOK, [Next]_vars
             PROVE  TypeOK'
    OBVIOUS
<1>1. CASE ServerStep
    BY <1>1, DidOpenTypes, DidChangeTypes, DidCloseTypes, OtherServerTypes DEF ServerStep, ServerNext
<1>2. CASE ClientNext
    <2>1. DOMAIN cText \subseteq Uris
        BY DEF TypeOK, EditorTypes
    <2> QED BY <1>2, <2>1, OpenTypes, EditorChangeTypes, SaveTypes, CloseTypes, AskTypes, EndTypes,
               ReceiveTypes DEF ClientNext, EditorChange
<1>3. CASE UNCHANGED vars
    <2>1. UNCHANGED <<serverVars, disk, pipes, clientVars>>
        BY <1>3 DEF vars
    <2> QED BY <2>1 DEF serverVars, pipes, clientVars, TypeOK, ServerTypes, PipeTypes, EditorTypes
<1> QED BY <1>1, <1>2, <1>3 DEF Next, Ended

(***************************************************************************)
(* The server's maps and both pipes, and with them what the editor keeps,  *)
(* have their types: whatever the editor says, in any order and with any   *)
(* list of content changes (server.rs, main.rs).                           *)
(***************************************************************************)
THEOREM TypeCorrect == Spec => []TypeOK
BY InitTypes, StepTypes, PTL DEF Spec

-----------------------------------------------------------------------------
(***************************************************************************)
(* Copies.  A message that is sent is added to what the queue means, one   *)
(* that is taken is removed from it.                                       *)
(***************************************************************************)
LEMMA Sent ==
    ASSUME TypeOK, NEW m \in FromEditor, Send(m), NEW u
    PROVE  LET n == Len(toServer)
           IN  /\ n \in Nat /\ Len(toServer') = n + 1
               /\ \A i \in 1 .. n : toServer'[i] = toServer[i]
               /\ toServer'[n + 1] = m
               /\ \A i \in 0 .. n : CopyAfter(u, ServerCopy(u)', toServer', i) = After(u, i)
               /\ CopyAfter(u, ServerCopy(u)', toServer', n + 1) =
                     IF Carries(m, u) THEN m.copy ELSE After(u, n)
<1> DEFINE n == Len(toServer)
           c == ServerCopy(u)
           q == toServer'
<1>1. toServer \in Seq(FromEditor) /\ toServer' = Append(toServer, m)
    BY DEF TypeOK, PipeTypes, Send
<1>2. /\ n \in Nat /\ Len(q) = n + 1
      /\ \A i \in 1 .. n : q[i] = toServer[i]
      /\ q[n + 1] = m
    BY <1>1, QueueTypes
<1>3. c' = c
    BY DEF Send, serverVars, ServerCopy
<1> HIDE DEF n, c, q
<1>4. RunsFrom(q, n, toServer, 0)
    BY <1>2 DEF RunsFrom
<1>5. c = CopyAfter(u, c, toServer, 0)
    BY CopyAtStart
<1>6. \A i \in 0 .. n : CopyAfter(u, c, q, i) = CopyAfter(u, c, toServer, i + 0)
    <2>1. n \in Nat /\ 0 \in Nat
        BY <1>2
    <2> QED BY <2>1, <1>4, <1>5, CopiesShift
<1>7. \A i \in 0 .. n : CopyAfter(u, c, q, i) = CopyAfter(u, c, toServer, i)
    BY <1>2, <1>6
<1>8. CopyAfter(u, c, q, n + 1) = IF Carries(q[n + 1], u) THEN q[n + 1].copy ELSE CopyAfter(u, c, q, n)
    BY <1>2, CopyStep
<1>9. n \in 0 .. n
    BY <1>2
<1>10. CopyAfter(u, c, q, n + 1) = IF Carries(m, u) THEN m.copy ELSE CopyAfter(u, c, toServer, n)
    BY <1>2, <1>7, <1>8, <1>9
<1> QED BY <1>2, <1>3, <1>7, <1>10 DEF n, c, q, After

LEMMA Taken ==
    ASSUME TypeOK, toServer # << >>, toServer' = Tail(toServer), NEW u, ServerCopy(u)' = After(u, 1)
    PROVE  LET n == Len(toServer)
           IN  /\ n \in Nat \ {0} /\ Len(toServer') = n - 1
               /\ \A i \in 1 .. n - 1 : toServer'[i] = toServer[i + 1]
               /\ \A i \in 0 .. n - 1 : CopyAfter(u, ServerCopy(u)', toServer', i) = After(u, i + 1)
<1>1. toServer \in Seq(FromEditor)
    BY DEF TypeOK, PipeTypes
<1>2. LET n == Len(toServer)
      IN  /\ n \in Nat \ {0} /\ Len(toServer') = n - 1
          /\ \A i \in 1 .. n - 1 : toServer'[i] = toServer[i + 1]
    BY <1>1, QueueTypes
<1>3. TailOf(toServer', toServer, Len(toServer))
    BY <1>2 DEF TailOf, RunsFrom
<1>4. ServerCopy(u)' = CopyAfter(u, ServerCopy(u), toServer, 1)
    BY DEF After
<1>5. \A i \in 0 .. Len(toServer) - 1 :
          CopyAfter(u, ServerCopy(u)', toServer', i) = CopyAfter(u, ServerCopy(u), toServer, i + 1)
    BY <1>3, <1>4, CopiesOfTail
<1> QED BY <1>2, <1>5 DEF After

(***************************************************************************)
(* What the editor says of its documents is what becomes of them.          *)
(***************************************************************************)
Means(m) ==
    \A u \in Uris :
        IF Carries(m, u) THEN Follows(EditorCopy(u), m) /\ EditorCopy(u)' = m.copy
                         ELSE EditorCopy(u)' = EditorCopy(u)

LEMMA EditorCopyType ==
    ASSUME TypeOK, NEW u \in Uris
    PROVE  /\ u \in DOMAIN cText => /\ EditorCopy(u) = Copy(cText[u], cVersion[u])
                                    /\ EditorCopy(u) \in Copies /\ EditorCopy(u) # Nothing
           /\ u \notin DOMAIN cText => EditorCopy(u) = Nothing
<1>1. ASSUME u \in DOMAIN cText
      PROVE  Copy(cText[u], cVersion[u]) \in Copies
    <2>1. cText[u] \in Seq(Chars)
        BY <1>1, TextTypes DEF TypeOK, EditorTypes
    <2>2. cVersion[u] \in 0 .. MaxVersion /\ MaxVersion \in Nat
        BY <1>1, SessionAssumption DEF TypeOK, EditorTypes
    <2>3. cVersion[u] \in Nat
        BY <2>2
    <2> QED BY <2>1, <2>3 DEF Copy, Copies
<1>2. Nothing \notin Copies
    BY SessionAssumption DEF Copies, Chars
<1> QED BY <1>1, <1>2 DEF EditorCopy

LEMMA OpenMeans ==
    ASSUME TypeOK, NEW u \in Uris, Open(u)
    PROVE  \E m \in FromEditor : m.kind = "didOpen" /\ Send(m) /\ Means(m)
<1> DEFINE m == [kind |-> "didOpen", uri |-> u, text |-> disk[u], copy |-> Copy(disk[u], 0)]
<1>1. Copy(disk[u], 0) \in Copies /\ disk[u] \in Seq(Chars)
    BY TextTypes DEF TypeOK, EditorTypes, Copy, Copies
<1>2. m \in FromEditor
    BY <1>1 DEF FromEditor
<1>3. Send(m)
    BY DEF Open
<1>4. ASSUME NEW v \in Uris
      PROVE  IF Carries(m, v) THEN Follows(EditorCopy(v), m) /\ EditorCopy(v)' = m.copy
                              ELSE EditorCopy(v)' = EditorCopy(v)
    <2>1. Carries(m, v) <=> v = u
        BY DEF Carries
    <2>2. /\ u \notin DOMAIN cText /\ DOMAIN cVersion = DOMAIN cText
          /\ cText' = Inserted(cText, u, disk[u]) /\ cVersion' = Inserted(cVersion, u, 0)
        BY DEF Open, TypeOK, EditorTypes
    <2>3. CASE v = u
        <3>1. v \in DOMAIN cText' /\ cText'[v] = disk[u] /\ cVersion'[v] = 0
            BY <2>2, <2>3 DEF Inserted
        <3>2. EditorCopy(v)' = Copy(disk[u], 0) /\ EditorCopy(v) = Nothing
            BY <2>2, <2>3, <3>1 DEF EditorCopy
        <3> QED BY <2>1, <2>3, <3>2 DEF Follows
    <2>4. CASE v # u
        <3>1. v \in DOMAIN cText' <=> v \in DOMAIN cText
            BY <2>2, <2>4 DEF Inserted
        <3>2. v \in DOMAIN cText => cText'[v] = cText[v] /\ cVersion'[v] = cVersion[v]
            BY <2>2, <2>4 DEF Inserted
        <3> QED BY <2>1, <2>4, <3>1, <3>2 DEF EditorCopy
    <2> QED BY <2>3, <2>4
<1>5. Means(m)
    BY <1>4 DEF Means
<1>6. m.kind = "didOpen"
    OBVIOUS
<1> HIDE DEF m
<1> QED BY <1>2, <1>3, <1>5, <1>6

LEMMA ChangeMeans ==
    ASSUME TypeOK, NEW u \in DOMAIN cText, EditorChange(u)
    PROVE  \E m \in FromEditor : m.kind = "didChange" /\ m.uri = u /\ Send(m) /\ Means(m)
<1>1. PICK newText \in Seq(Chars), changes \in Seq(ContentChanges) :
          Change(u, newText, changes) /\ ApplyChanges(cText[u], changes) = newText
    BY ChangesMeant
<1> DEFINE m == [kind |-> "didChange", uri |-> u, changes |-> changes,
                 version |-> cVersion[u], copy |-> Copy(newText, cVersion[u] + 1)]
<1>2. u \in Uris
    BY DEF TypeOK, EditorTypes
<1>3. /\ EditorCopy(u) = Copy(cText[u], cVersion[u])
      /\ EditorCopy(u) \in Copies /\ EditorCopy(u) # Nothing
    BY <1>2, EditorCopyType
<1>4. cVersion[u] \in Nat /\ Copy(newText, cVersion[u] + 1) \in Copies
    BY <1>3 DEF Copy, Copies
<1>5. m \in FromEditor
    BY <1>2, <1>4 DEF FromEditor
<1>6. Send(m)
    BY <1>1 DEF Change
<1>7. ASSUME NEW v \in Uris
      PROVE  IF Carries(m, v) THEN Follows(EditorCopy(v), m) /\ EditorCopy(v)' = m.copy
                              ELSE EditorCopy(v)' = EditorCopy(v)
    <2>1. Carries(m, v) <=> v = u
        BY DEF Carries
    <2>2. /\ DOMAIN cVersion = DOMAIN cText /\ DOMAIN cText' = DOMAIN cText
          /\ \A x \in DOMAIN cText : x # u => cText'[x] = cText[x] /\ cVersion'[x] = cVersion[x]
          /\ cText'[u] = newText /\ cVersion'[u] = cVersion[u] + 1
        BY <1>1 DEF Change, TypeOK, EditorTypes
    <2>3. CASE v = u
        <3>1. EditorCopy(v)' = Copy(newText, cVersion[u] + 1)
            BY <2>2, <2>3 DEF EditorCopy
        <3>2. EditorCopy(u).text = cText[u] /\ EditorCopy(u).version = cVersion[u]
            BY <1>3 DEF Copy
        <3>3. Follows(EditorCopy(u), m)
            BY <1>1, <1>3, <3>2 DEF Follows
        <3> QED BY <2>1, <2>3, <3>1, <3>3
    <2>4. CASE v # u
        BY <2>1, <2>2, <2>4 DEF EditorCopy
    <2> QED BY <2>3, <2>4
<1>8. Means(m)
    BY <1>7 DEF Means
<1>9. m.kind = "didChange" /\ m.uri = u
    OBVIOUS
<1> HIDE DEF m
<1> QED BY <1>5, <1>6, <1>8, <1>9

LEMMA CloseMeans ==
    ASSUME TypeOK, NEW u \in DOMAIN cText, Close(u)
    PROVE  \E m \in FromEditor : m.kind = "didClose" /\ m.uri = u /\ Send(m) /\ Means(m)
<1> DEFINE m == [kind |-> "didClose", uri |-> u, copy |-> Nothing]
<1>1. u \in Uris
    BY DEF TypeOK, EditorTypes
<1>2. m \in FromEditor
    BY <1>1 DEF FromEditor
<1>3. Send(m)
    BY DEF Close
<1>4. ASSUME NEW v \in Uris
      PROVE  IF Carries(m, v) THEN Follows(EditorCopy(v), m) /\ EditorCopy(v)' = m.copy
                              ELSE EditorCopy(v)' = EditorCopy(v)
    <2>1. Carries(m, v) <=> v = u
        BY DEF Carries
    <2>2. /\ DOMAIN cVersion = DOMAIN cText
          /\ cText' = Removed(cText, u) /\ cVersion' = Removed(cVersion, u)
        BY DEF Close, TypeOK, EditorTypes
    <2>3. DOMAIN cText' = DOMAIN cText \ {u}
        BY <2>2, MapDomains
    <2>4. \A x \in DOMAIN cText : x # u => cText'[x] = cText[x] /\ cVersion'[x] = cVersion[x]
        BY <2>2 DEF Removed
    <2>5. CASE v = u
        BY <2>1, <2>3, <2>5 DEF EditorCopy, Follows
    <2>6. CASE v # u
        BY <2>1, <2>3, <2>4, <2>6 DEF EditorCopy
    <2> QED BY <2>5, <2>6
<1>5. Means(m)
    BY <1>4 DEF Means
<1>6. m.kind = "didClose" /\ m.uri = u
    OBVIOUS
<1> HIDE DEF m
<1> QED BY <1>2, <1>3, <1>5, <1>6

\* A message that is about no document's content, and a step that sends none.
LEMMA MeansNothing ==
    ASSUME NEW m, m.kind \notin {"didOpen", "didChange", "didClose"}, UNCHANGED <<cText, cVersion>>
    PROVE  Means(m)
BY DEF Means, Carries, EditorCopy

LEMMA SendCopies ==
    ASSUME TypeOK, CopiesInv, NEW m \in FromEditor, Send(m), Means(m)
    PROVE  CopiesInv'
<1> DEFINE n == Len(toServer)
<1>1. n \in Nat /\ DOMAIN toServer = 1 .. n
    BY QueueTypes DEF TypeOK, PipeTypes
<1>2. DOMAIN toServer' = 1 .. n + 1 /\ Len(toServer') = n + 1
    BY QueueTypes, AppendProperties DEF Send, TypeOK, PipeTypes
<1>3. \A i : i \in 1 .. n + 1 => i - 1 \in 0 .. n /\ (i \in 1 .. n \/ i = n + 1)
    BY <1>1
<1>4. /\ \A u \in Uris : After(u, n) = EditorCopy(u)
      /\ \A u \in Uris : \A i \in 1 .. n :
            Carries(toServer[i], u) => Follows(After(u, i - 1), toServer[i])
    BY <1>1 DEF CopiesInv, EndsAtEditor, CopiesFollow
<1>5. ASSUME NEW u \in Uris
      PROVE  After(u, Len(toServer))' = EditorCopy(u)'
    <2>1. CopyAfter(u, ServerCopy(u)', toServer', n + 1) =
              IF Carries(m, u) THEN m.copy ELSE After(u, n)
        BY Sent
    <2> QED BY <1>2, <1>4, <2>1 DEF Means, After
<1>6. ASSUME NEW u \in Uris, NEW i \in DOMAIN toServer', Carries(toServer'[i], u)
      PROVE  Follows(After(u, i - 1)', toServer'[i])
    <2>1. /\ \A k \in 1 .. n : toServer'[k] = toServer[k]
          /\ toServer'[n + 1] = m
          /\ \A k \in 0 .. n : CopyAfter(u, ServerCopy(u)', toServer', k) = After(u, k)
        BY Sent
    <2>2. i - 1 \in 0 .. n /\ (i \in 1 .. n \/ i = n + 1)
        BY <1>2, <1>3
    <2>3. After(u, i - 1)' = After(u, i - 1)
        BY <2>1, <2>2 DEF After
    <2>4. CASE i \in 1 .. n
        BY <1>4, <1>6, <2>1, <2>3, <2>4
    <2>5. CASE i = n + 1
        <3>1. After(u, i - 1) = EditorCopy(u)
            BY <1>1, <1>4, <2>5
        <3> QED BY <1>6, <2>1, <2>3, <2>5, <3>1 DEF Means
    <2> QED BY <2>2, <2>4, <2>5
<1>7. VersionsOfOpen'
    BY DEF CopiesInv, VersionsOfOpen, Send, serverVars
<1>8. CopiesFollow'
    BY <1>6 DEF CopiesFollow
<1>9. EndsAtEditor'
    BY <1>5 DEF EndsAtEditor
<1> QED BY <1>7, <1>8, <1>9 DEF CopiesInv

\* The server has made its copies what the first message means.
CopiesTaken == VersionsOfOpen' /\ \A u \in Uris : ServerCopy(u)' = After(u, 1)

LEMMA TakeCopies ==
    ASSUME TypeOK, CopiesInv, toServer # << >>, toServer' = Tail(toServer), CopiesTaken,
           UNCHANGED <<cText, cVersion>>
    PROVE  CopiesInv'
<1> DEFINE n == Len(toServer)
<1>1. n \in Nat \ {0} /\ DOMAIN toServer = 1 .. n
    BY QueueTypes DEF TypeOK, PipeTypes
<1>2. DOMAIN toServer' = 1 .. n - 1 /\ Len(toServer') = n - 1
    BY QueueTypes DEF TypeOK, PipeTypes
<1>3. /\ \A i : i \in 1 .. n - 1 => i + 1 \in 1 .. n /\ i - 1 \in 0 .. n - 1 /\ (i - 1) + 1 = (i + 1) - 1
      /\ n - 1 \in 0 .. n - 1 /\ (n - 1) + 1 = n
    BY <1>1
<1>4. /\ \A u \in Uris : After(u, n) = EditorCopy(u)
      /\ \A u \in Uris : \A i \in 1 .. n :
            Carries(toServer[i], u) => Follows(After(u, i - 1), toServer[i])
    BY <1>1 DEF CopiesInv, EndsAtEditor, CopiesFollow
<1>5. ASSUME NEW u \in Uris
      PROVE  /\ \A i \in 1 .. n - 1 : toServer'[i] = toServer[i + 1]
             /\ \A i \in 0 .. n - 1 : CopyAfter(u, ServerCopy(u)', toServer', i) = After(u, i + 1)
    <2>1. ServerCopy(u)' = After(u, 1)
        BY DEF CopiesTaken
    <2> QED BY <2>1, Taken
<1>6. ASSUME NEW u \in Uris
      PROVE  After(u, Len(toServer))' = EditorCopy(u)'
    <2>1. After(u, Len(toServer))' = After(u, n)
        BY <1>2, <1>3, <1>5 DEF After
    <2> QED BY <1>4, <2>1 DEF EditorCopy
<1>7. ASSUME NEW u \in Uris, NEW i \in DOMAIN toServer', Carries(toServer'[i], u)
      PROVE  Follows(After(u, i - 1)', toServer'[i])
    <2>1. i \in 1 .. n - 1 /\ i + 1 \in 1 .. n /\ i - 1 \in 0 .. n - 1 /\ (i - 1) + 1 = (i + 1) - 1
        BY <1>2, <1>3
    <2>2. After(u, i - 1)' = After(u, (i + 1) - 1) /\ toServer'[i] = toServer[i + 1]
        BY <1>5, <2>1 DEF After
    <2> QED BY <1>4, <1>7, <2>1, <2>2
<1>8. CopiesFollow'
    BY <1>7 DEF CopiesFollow
<1>9. EndsAtEditor'
    BY <1>6 DEF EndsAtEditor
<1> QED BY <1>8, <1>9 DEF CopiesInv, CopiesTaken

\* What the message at the head finds and means.
LEMMA HeadMeans ==
    ASSUME TypeOK, CopiesInv, toServer # << >>, NEW u \in Uris
    PROVE  /\ After(u, 0) = ServerCopy(u)
           /\ ~Carries(Head(toServer), u) => After(u, 1) = ServerCopy(u)
           /\ Carries(Head(toServer), u) =>
                 After(u, 1) = Head(toServer).copy /\ Follows(ServerCopy(u), Head(toServer))
<1>1. Head(toServer) = toServer[1] /\ 1 \in DOMAIN toServer
    <2>1. /\ Head(toServer) = toServer[1] /\ Len(toServer) \in Nat \ {0}
          /\ DOMAIN toServer = 1 .. Len(toServer)
        BY QueueTypes DEF TypeOK, PipeTypes
    <2> QED BY <2>1
<1>2. After(u, 0) = ServerCopy(u)
    BY CopyAtStart DEF After
<1>3. After(u, 1) = IF Carries(toServer[1], u) THEN toServer[1].copy ELSE After(u, 0)
    <2>1. 0 \in Nat /\ 0 + 1 = 1
        OBVIOUS
    <2>2. CopyAfter(u, ServerCopy(u), toServer, 0 + 1) =
              IF Carries(toServer[0 + 1], u) THEN toServer[0 + 1].copy
              ELSE CopyAfter(u, ServerCopy(u), toServer, 0)
        BY <2>1, CopyStep
    <2> QED BY <2>1, <2>2 DEF After
<1>4. Carries(toServer[1], u) => Follows(After(u, 1 - 1), toServer[1])
    BY <1>1 DEF CopiesInv, CopiesFollow
<1>5. 1 - 1 = 0
    OBVIOUS
<1> QED BY <1>1, <1>2, <1>3, <1>4, <1>5

LEMMA OpenTaken == ASSUME TypeOK, CopiesInv, DidOpen PROVE CopiesTaken
<1> DEFINE m == Head(toServer)
<1>1. m \in FromEditor /\ m.kind = "didOpen" /\ toServer # << >>
    BY TakeTypes DEF DidOpen, Handle
<1>2. /\ openDocs' = Inserted(openDocs, m.uri, m.text)
      /\ docVersions' = Inserted(docVersions, m.uri, 0)
      /\ DOMAIN docVersions = DOMAIN openDocs
    BY DEF DidOpen, CopiesInv, VersionsOfOpen
<1>3. \A u \in Uris : /\ ~Carries(m, u) => After(u, 1) = ServerCopy(u)
                      /\ Carries(m, u) => After(u, 1) = m.copy /\ Follows(ServerCopy(u), m)
    BY <1>1, HeadMeans
<1> HIDE DEF m
<1>4. VersionsOfOpen'
    BY <1>2 DEF VersionsOfOpen, Inserted
<1>5. ASSUME NEW u \in Uris
      PROVE  ServerCopy(u)' = After(u, 1)
    <2>1. CASE u = m.uri
        <3>1. u \in DOMAIN openDocs' /\ openDocs'[u] = m.text /\ docVersions'[u] = 0
            BY <1>2, <2>1 DEF Inserted
        <3>2. Carries(m, u)
            BY <1>1, <2>1 DEF Carries
        <3>3. After(u, 1) = Copy(m.text, 0)
            BY <1>1, <1>3, <3>2 DEF Follows
        <3> QED BY <3>1, <3>3 DEF ServerCopy
    <2>2. CASE u # m.uri
        <3>1. ~Carries(m, u)
            BY <2>2 DEF Carries
        <3>2. /\ u \in DOMAIN openDocs' <=> u \in DOMAIN openDocs
              /\ u \in DOMAIN openDocs => openDocs'[u] = openDocs[u] /\ docVersions'[u] = docVersions[u]
            BY <1>2, <2>2 DEF Inserted
        <3> QED BY <1>3, <3>1, <3>2 DEF ServerCopy
    <2> QED BY <2>1, <2>2
<1> QED BY <1>4, <1>5 DEF CopiesTaken

LEMMA ChangeTaken == ASSUME TypeOK, CopiesInv, DidChange PROVE CopiesTaken
<1> DEFINE m == Head(toServer)
<1>1. m \in FromEditor /\ m.kind = "didChange" /\ toServer # << >> /\ m.uri \in Uris
    BY TakeTypes, EditorMessage DEF DidChange, Handle
<1>2. /\ openDocs' = IF m.uri \in DOMAIN openDocs
                     THEN [openDocs EXCEPT ![m.uri] = ApplyChanges(openDocs[m.uri], m.changes)]
                     ELSE openDocs
      /\ docVersions' = Inserted(docVersions, m.uri, m.version + 1)
      /\ DOMAIN docVersions = DOMAIN openDocs
    BY DEF DidChange, CopiesInv, VersionsOfOpen
<1>3. \A u \in Uris : /\ ~Carries(m, u) => After(u, 1) = ServerCopy(u)
                      /\ Carries(m, u) => After(u, 1) = m.copy /\ Follows(ServerCopy(u), m)
    BY <1>1, HeadMeans
<1> HIDE DEF m
<1>4. Carries(m, m.uri) /\ Follows(ServerCopy(m.uri), m)
    BY <1>1, <1>3 DEF Carries
<1>5. /\ m.uri \in DOMAIN openDocs
      /\ m.version = docVersions[m.uri]
      /\ m.copy = Copy(ApplyChanges(openDocs[m.uri], m.changes), docVersions[m.uri] + 1)
    <2>1. m.uri \in DOMAIN openDocs
        BY <1>1, <1>4 DEF Follows, ServerCopy
    <2>2. ServerCopy(m.uri) = Copy(openDocs[m.uri], docVersions[m.uri])
        BY <2>1 DEF ServerCopy
    <2>3. ServerCopy(m.uri).text = openDocs[m.uri] /\ ServerCopy(m.uri).version = docVersions[m.uri]
        BY <2>2 DEF Copy
    <2> QED BY <1>1, <1>4, <2>1, <2>3 DEF Follows
<1>6. /\ DOMAIN openDocs' = DOMAIN openDocs
      /\ openDocs'[m.uri] = ApplyChanges(openDocs[m.uri], m.changes)
      /\ \A x \in DOMAIN openDocs : x # m.uri => openDocs'[x] = openDocs[x]
    BY <1>2, <1>5
<1>7. /\ DOMAIN docVersions' = DOMAIN docVersions
      /\ docVersions'[m.uri] = docVersions[m.uri] + 1
      /\ \A x \in DOMAIN openDocs : x # m.uri => docVersions'[x] = docVersions[x]
    BY <1>2, <1>5 DEF Inserted
<1>8. VersionsOfOpen'
    BY <1>2, <1>6, <1>7 DEF VersionsOfOpen
<1>9. ASSUME NEW u \in Uris
      PROVE  ServerCopy(u)' = After(u, 1)
    <2>1. CASE u = m.uri
        BY <1>3, <1>4, <1>5, <1>6, <1>7, <2>1 DEF ServerCopy
    <2>2. CASE u # m.uri
        <3>1. ~Carries(m, u)
            BY <2>2 DEF Carries
        <3> QED BY <1>3, <1>6, <1>7, <2>2, <3>1 DEF ServerCopy
    <2> QED BY <2>1, <2>2
<1> QED BY <1>8, <1>9 DEF CopiesTaken

LEMMA CloseTaken == ASSUME TypeOK, CopiesInv, DidClose PROVE CopiesTaken
<1> DEFINE m == Head(toServer)
<1>1. m \in FromEditor /\ m.kind = "didClose" /\ toServer # << >>
    BY TakeTypes DEF DidClose, Handle
<1>2. /\ openDocs' = Removed(openDocs, m.uri) /\ docVersions' = Removed(docVersions, m.uri)
      /\ DOMAIN docVersions = DOMAIN openDocs
    BY DEF DidClose, CopiesInv, VersionsOfOpen
<1>3. \A u \in Uris : /\ ~Carries(m, u) => After(u, 1) = ServerCopy(u)
                      /\ Carries(m, u) => After(u, 1) = m.copy /\ Follows(ServerCopy(u), m)
    BY <1>1, HeadMeans
<1> HIDE DEF m
<1>4. /\ DOMAIN openDocs' = DOMAIN openDocs \ {m.uri}
      /\ DOMAIN docVersions' = DOMAIN docVersions \ {m.uri}
      /\ \A x \in DOMAIN openDocs : x # m.uri =>
            openDocs'[x] = openDocs[x] /\ docVersions'[x] = docVersions[x]
    BY <1>2 DEF Removed
<1>5. VersionsOfOpen'
    BY <1>2, <1>4 DEF VersionsOfOpen
<1>6. ASSUME NEW u \in Uris
      PROVE  ServerCopy(u)' = After(u, 1)
    <2>1. CASE u = m.uri
        <3>1. Carries(m, u)
            BY <1>1, <2>1 DEF Carries
        <3>2. After(u, 1) = Nothing
            BY <1>1, <1>3, <3>1 DEF Follows
        <3> QED BY <1>4, <2>1, <3>2 DEF ServerCopy
    <2>2. CASE u # m.uri
        <3>1. ~Carries(m, u)
            BY <2>2 DEF Carries
        <3> QED BY <1>3, <1>4, <2>2, <3>1 DEF ServerCopy
    <2> QED BY <2>1, <2>2
<1> QED BY <1>5, <1>6 DEF CopiesTaken

LEMMA OthersTaken ==
    ASSUME TypeOK, CopiesInv, OtherNotification \/ Rename \/ Shutdown \/ Exit
    PROVE  CopiesTaken
<1>1. /\ toServer # << >>
      /\ Head(toServer).kind \in {"didSave", "rename", "shutdown", "exit"}
      /\ UNCHANGED <<openDocs, docVersions>>
    BY DEF OtherNotification, Rename, Shutdown, Exit, Handle, serverVars
<1>2. VersionsOfOpen'
    BY <1>1 DEF VersionsOfOpen, CopiesInv
<1>3. ASSUME NEW u \in Uris
      PROVE  ServerCopy(u)' = After(u, 1)
    <2>1. ~Carries(Head(toServer), u)
        BY <1>1 DEF Carries
    <2>2. After(u, 1) = ServerCopy(u)
        BY <1>1, <2>1, HeadMeans
    <2> QED BY <1>1, <2>2 DEF ServerCopy
<1> QED BY <1>2, <1>3 DEF CopiesTaken

\* A turn of the server's loop that handles a message.
Turn == \/ DidOpen \/ DidChange \/ DidClose
        \/ OtherNotification \/ Rename \/ Shutdown \/ Exit

SameCopies == UNCHANGED <<openDocs, docVersions, toServer, cText, cVersion>>

LEMMA TurnTakes ==
    ASSUME TypeOK, CopiesInv, Turn
    PROVE  toServer # << >> /\ toServer' = Tail(toServer) /\ CopiesTaken
<1>1. toServer # << >> /\ toServer' = Tail(toServer)
    BY DEF Turn, DidOpen, DidChange, DidClose, OtherNotification, Rename, Shutdown, Exit, Handle
<1>2. CopiesTaken
    BY OpenTaken, ChangeTaken, CloseTaken, OthersTaken DEF Turn
<1> QED BY <1>1, <1>2

(***************************************************************************)
(* What the editor does besides when it sends a message: a request has an  *)
(* id of its own; closing a document gives up the requests made in it; a   *)
(* rename is asked in an open document; exit is the editor's last word.    *)
(***************************************************************************)
Said(m) ==
    /\ IF m.kind \in {"rename", "shutdown"}
       THEN m.id \notin DOMAIN awaiting /\ DOMAIN awaiting' = DOMAIN awaiting \cup {m.id}
       ELSE DOMAIN awaiting' = DOMAIN awaiting
    /\ \A k \in DOMAIN awaiting : \A v \in Uris :
          awaiting'[k] = v => awaiting[k] = v /\ ~(m.kind = "didClose" /\ m.uri = v)
    /\ m.kind = "rename" => EditorCopy(m.uri)' # Nothing
    /\ ending' = "no" => ending = "no" /\ m.kind # "exit"
    /\ ending' = "shutdown" => ending = "shutdown" \/ (ending = "no" /\ m.kind = "shutdown")

LEMMA SaidNothing ==
    ASSUME NEW m, m.kind \in {"didOpen", "didChange", "didSave"}, UNCHANGED <<awaiting, ending>>
    PROVE  Said(m)
BY DEF Said

LEMMA EditorSends ==
    ASSUME TypeOK, ClientNext
    PROVE  \/ \E m \in FromEditor : Send(m) /\ Means(m) /\ Said(m)
           \/ CloseInput
           \/ Receive
<1>0. DOMAIN cText \subseteq Uris
    BY DEF TypeOK, EditorTypes
<1>1. CASE \E u \in Uris : Open(u)
    <2>1. PICK u \in Uris : Open(u)
        BY <1>1
    <2>2. PICK m \in FromEditor : m.kind = "didOpen" /\ Send(m) /\ Means(m)
        BY <2>1, OpenMeans
    <2>3. Said(m)
        BY <2>1, <2>2, SaidNothing DEF Open
    <2> QED BY <2>2, <2>3
<1>2. CASE \E u \in DOMAIN cText : EditorChange(u)
    <2>1. PICK u \in DOMAIN cText : EditorChange(u)
        BY <1>2
    <2>2. PICK m \in FromEditor : m.kind = "didChange" /\ Send(m) /\ Means(m)
        BY <2>1, ChangeMeans
    <2>3. UNCHANGED <<awaiting, ending>>
        BY <2>1, ChangesMeant DEF Change
    <2>4. Said(m)
        BY <2>2, <2>3, SaidNothing
    <2> QED BY <2>2, <2>4
<1>3. CASE \E u \in DOMAIN cText : Close(u)
    <2>1. PICK u \in DOMAIN cText : Close(u)
        BY <1>3
    <2>2. PICK m \in FromEditor : m.kind = "didClose" /\ m.uri = u /\ Send(m) /\ Means(m)
        BY <2>1, CloseMeans
    <2>3. /\ DOMAIN awaiting' = DOMAIN awaiting
          /\ \A k \in DOMAIN awaiting :
                awaiting'[k] = IF awaiting[k] = u THEN Abandoned ELSE awaiting[k]
          /\ ending' = ending
        BY <2>1 DEF Close
    <2>4. Abandoned \notin Uris
        BY SessionAssumption
    <2>5. Said(m)
        BY <2>2, <2>3, <2>4 DEF Said
    <2> QED BY <2>2, <2>5
<1>4. CASE \E u \in DOMAIN cText : Save(u)
    <2>1. PICK u \in DOMAIN cText : Save(u)
        BY <1>4
    <2> DEFINE m == [kind |-> "didSave", uri |-> u]
    <2>2. m \in FromEditor /\ m.kind = "didSave"
        BY <1>0 DEF FromEditor
    <2>3. Send(m) /\ UNCHANGED <<cText, cVersion, awaiting, ending>>
        BY <2>1 DEF Save, clientVars
    <2> HIDE DEF m
    <2>4. Means(m) /\ Said(m)
        BY <2>2, <2>3, MeansNothing, SaidNothing
    <2> QED BY <2>2, <2>3, <2>4
<1>5. CASE \E u \in DOMAIN cText : \E id \in Ids \ DOMAIN awaiting : AskRename(u, id)
    <2>1. PICK u \in DOMAIN cText, id \in Ids \ DOMAIN awaiting : AskRename(u, id)
        BY <1>5
    <2> DEFINE m == [kind |-> "rename", uri |-> u, id |-> id]
    <2>2. m \in FromEditor /\ m.kind = "rename" /\ m.uri = u /\ m.id = id
        BY <1>0 DEF FromEditor
    <2>3. /\ Send(m) /\ UNCHANGED <<cText, cVersion, ending>>
          /\ awaiting' = Inserted(awaiting, id, u)
        BY <2>1 DEF AskRename
    <2> HIDE DEF m
    <2>4. Means(m)
        BY <2>2, <2>3, MeansNothing
    <2>5. EditorCopy(u)' # Nothing
        <3>1. EditorCopy(u) # Nothing
            BY <1>0, EditorCopyType
        <3> QED BY <2>3, <3>1 DEF EditorCopy
    <2>6. /\ DOMAIN awaiting' = DOMAIN awaiting \cup {id}
          /\ \A k \in DOMAIN awaiting : awaiting'[k] = awaiting[k]
        BY <2>3 DEF Inserted
    <2>7. Said(m)
        BY <2>2, <2>3, <2>5, <2>6 DEF Said
    <2> QED BY <2>2, <2>3, <2>4, <2>7
<1>6. CASE \E id \in Ids \ DOMAIN awaiting : AskShutdown(id)
    <2>1. PICK id \in Ids \ DOMAIN awaiting : AskShutdown(id)
        BY <1>6
    <2> DEFINE m == [kind |-> "shutdown", uri |-> Nothing, id |-> id]
    <2>2. m \in FromEditor /\ m.kind = "shutdown" /\ m.id = id
        BY DEF FromEditor
    <2>3. /\ Send(m) /\ UNCHANGED <<cText, cVersion>> /\ ending = "no" /\ ending' = "shutdown"
          /\ awaiting' = Inserted(awaiting, id, Nothing)
        BY <2>1 DEF AskShutdown
    <2> HIDE DEF m
    <2>4. Means(m)
        BY <2>2, <2>3, MeansNothing
    <2>5. /\ DOMAIN awaiting' = DOMAIN awaiting \cup {id}
          /\ \A k \in DOMAIN awaiting : awaiting'[k] = awaiting[k]
        BY <2>3 DEF Inserted
    <2>6. Said(m)
        BY <2>2, <2>3, <2>5 DEF Said
    <2> QED BY <2>2, <2>3, <2>4, <2>6
<1>7. CASE SendExit
    <2> DEFINE m == [kind |-> "exit"]
    <2>1. m \in FromEditor /\ m.kind = "exit"
        BY DEF FromEditor
    <2>2. /\ Send(m) /\ UNCHANGED <<cText, cVersion, awaiting>>
          /\ ending' = IF ending = "no" THEN "abrupt" ELSE ending
        BY <1>7 DEF SendExit
    <2> HIDE DEF m
    <2>3. Means(m)
        BY <2>1, <2>2, MeansNothing
    <2>4. Said(m)
        BY <2>1, <2>2 DEF Said
    <2> QED BY <2>1, <2>2, <2>3, <2>4
<1> QED BY <1>1, <1>2, <1>3, <1>4, <1>5, <1>6, <1>7 DEF ClientNext, EditorChange

(***************************************************************************)
(* The steps of a session: a turn of the server's loop, a message of the   *)
(* editor, the reading of one, and what moves no message and no document.  *)
(***************************************************************************)
Rest ==
    /\ UNCHANGED <<openDocs, docVersions, shutdownReceived, toServer, toClient,
                   cText, cVersion, awaiting>>
    /\ exitCode' = exitCode \/ exitCode' = 0
    /\ ending' = ending \/ (ending = "no" /\ ending' = "abrupt")

LEMMA Steps ==
    ASSUME TypeOK, [Next]_vars
    PROVE  \/ Turn /\ UNCHANGED clientVars
           \/ \E m \in FromEditor : Send(m) /\ Means(m) /\ Said(m)
           \/ Receive
           \/ Rest
<1>1. CASE ServerStep
    <2>1. EndOfInput => Rest
        BY <1>1 DEF EndOfInput, pipes, ServerStep, clientVars, Rest
    <2> QED BY <1>1, <2>1 DEF ServerStep, ServerNext, Turn
<1>2. CASE ClientNext
    <2>1. CloseInput => Rest
        BY DEF CloseInput, serverVars, Rest
    <2> QED BY <1>2, <2>1, EditorSends
<1>3. CASE UNCHANGED vars
    <2>1. UNCHANGED <<serverVars, disk, pipes, clientVars>>
        BY <1>3 DEF vars
    <2> QED BY <2>1 DEF serverVars, pipes, clientVars, Rest
<1> QED BY <1>1, <1>2, <1>3 DEF Next, Ended

LEMMA QuietSteps == Receive \/ Rest => SameCopies
BY DEF Receive, Rest, serverVars, SameCopies

LEMMA SameCopiesKept ==
    ASSUME SameCopies
    PROVE  /\ CopiesInv => CopiesInv'
           /\ \A u : ServerCopy(u)' = ServerCopy(u) /\ EditorCopy(u)' = EditorCopy(u)
           /\ \A u, i : After(u, i)' = After(u, i)
<1>1. \A u : ServerCopy(u)' = ServerCopy(u) /\ EditorCopy(u)' = EditorCopy(u)
    BY DEF SameCopies, ServerCopy, EditorCopy
<1>2. toServer' = toServer
    BY DEF SameCopies
<1>3. \A u, i : After(u, i)' = After(u, i)
    BY <1>1, <1>2 DEF After
<1>4. VersionsOfOpen => VersionsOfOpen'
    BY DEF SameCopies, VersionsOfOpen
<1> QED BY <1>1, <1>2, <1>3, <1>4 DEF CopiesInv, CopiesFollow, EndsAtEditor

LEMMA InitCopies == Init => CopiesInv
<1> SUFFICES ASSUME Init
             PROVE  CopiesInv
    OBVIOUS
<1>1. toServer = << >> /\ openDocs = << >> /\ docVersions = << >> /\ cText = << >>
    BY DEF Init, ServerInit
<1>2. DOMAIN toServer = {} /\ Len(toServer) = 0
    BY <1>1
<1>3. \A u : ServerCopy(u) = Nothing /\ EditorCopy(u) = Nothing
    BY <1>1 DEF ServerCopy, EditorCopy
<1>4. \A u : After(u, 0) = Nothing
    BY <1>3, CopyAtStart DEF After
<1>5. VersionsOfOpen
    BY <1>1 DEF VersionsOfOpen
<1> QED BY <1>2, <1>3, <1>4, <1>5 DEF CopiesInv, CopiesFollow, EndsAtEditor

LEMMA StepCopies == TypeOK /\ CopiesInv /\ [Next]_vars => CopiesInv'
<1> SUFFICES ASSUME TypeOK, CopiesInv, [Next]_vars
             PROVE  CopiesInv'
    OBVIOUS
<1>1. CASE Turn /\ UNCHANGED clientVars
    <2>1. UNCHANGED <<cText, cVersion>>
        BY <1>1 DEF clientVars
    <2> QED BY <1>1, <2>1, TurnTakes, TakeCopies
<1>2. CASE \E m \in FromEditor : Send(m) /\ Means(m)
    BY <1>2, SendCopies
<1>3. CASE SameCopies
    BY <1>3, SameCopiesKept
<1> QED BY <1>1, <1>2, <1>3, Steps, QuietSteps

-----------------------------------------------------------------------------
(***************************************************************************)
(* The refinement: the stages are what the messages under way mean.        *)
(***************************************************************************)
LEMMA AppendIs ==
    ASSUME NEW n \in Nat, NEW f, NEW g, NEW e,
           f = [i \in 1 .. n |-> f[i]],
           g = [i \in 1 .. n + 1 |-> g[i]],
           \A i \in 1 .. n : g[i] = f[i],
           g[n + 1] = e
    PROVE  g = Append(f, e)
<1> DEFINE S == {f[i] : i \in 1 .. n} \cup {e}
<1>1. f \in [1 .. n -> S] /\ e \in S
    OBVIOUS
<1> HIDE DEF S
<1>2. f \in Seq(S) /\ Len(f) = n
    BY <1>1
<1>3. /\ Append(f, e) \in Seq(S) /\ Len(Append(f, e)) = n + 1
      /\ \A i \in 1 .. n : Append(f, e)[i] = f[i]
      /\ Append(f, e)[n + 1] = e
    BY <1>1, <1>2, QueueTypes
<1>4. Append(f, e) = [i \in 1 .. n + 1 |-> Append(f, e)[i]]
    <2> DEFINE h == Append(f, e)
    <2>1. h \in Seq(S) /\ Len(h) = n + 1
        BY <1>3
    <2> HIDE DEF h
    <2>2. h \in [1 .. n + 1 -> S]
        BY <2>1
    <2>3. h = [i \in 1 .. n + 1 |-> h[i]]
        BY <2>2
    <2> QED BY <2>3 DEF h
<1>5. \A i \in 1 .. n + 1 : i \in 1 .. n \/ i = n + 1
    OBVIOUS
<1>6. \A i \in 1 .. n + 1 : g[i] = Append(f, e)[i]
    BY <1>3, <1>5
<1> DEFINE h == Append(f, e)
<1>7. h = [i \in 1 .. n + 1 |-> h[i]] /\ \A i \in 1 .. n + 1 : g[i] = h[i]
    BY <1>4, <1>6
<1> HIDE DEF h
<1>8. g = h
    BY <1>7
<1> QED BY <1>8 DEF h

LEMMA TailIs ==
    ASSUME NEW n \in Nat \ {0}, NEW f, NEW g,
           f = [i \in 1 .. n |-> f[i]],
           g = [i \in 1 .. n - 1 |-> g[i]],
           \A i \in 1 .. n - 1 : g[i] = f[i + 1]
    PROVE  Len(f) = n /\ g = Tail(f)
<1> DEFINE S == {f[i] : i \in 1 .. n}
<1>1. f \in [1 .. n -> S]
    OBVIOUS
<1> HIDE DEF S
<1>2. f \in Seq(S) /\ Len(f) = n
    BY <1>1
<1>3. f # << >>
    BY <1>2
<1>4. /\ Tail(f) \in Seq(S) /\ Len(Tail(f)) = n - 1
      /\ \A i \in 1 .. n - 1 : Tail(f)[i] = f[i + 1]
    BY <1>2, <1>3, QueueTypes
<1> DEFINE h == Tail(f)
<1>5. h \in Seq(S) /\ Len(h) = n - 1 /\ \A i \in 1 .. n - 1 : g[i] = h[i]
    BY <1>4
<1> HIDE DEF h
<1>6. h = [i \in 1 .. n - 1 |-> h[i]]
    <2>1. h \in [1 .. n - 1 -> S]
        BY <1>5
    <2> QED BY <2>1
<1>7. g = h
    BY <1>5, <1>6
<1> QED BY <1>2, <1>7 DEF h

\* The refinement mapping.
Edited == [u \in Uris |-> EditorCopy(u)]
Stages ==
    [i \in 1 .. Len(toServer) + 1 |->
        [u \in Uris |-> CopyAfter(u, ServerCopy(u), toServer, i - 1)]]

LEMMA SendStages ==
    ASSUME TypeOK, CopiesInv, NEW m \in FromEditor, Send(m), Means(m)
    PROVE  Stages' = Append(Stages, Edited')
<1> DEFINE n == Len(toServer)
<1>1. n \in Nat /\ Len(toServer') = n + 1
    BY QueueTypes, AppendProperties DEF Send, TypeOK, PipeTypes
<1>2. CopiesInv'
    BY SendCopies
<1>3. \A u \in Uris : CopyAfter(u, ServerCopy(u)', toServer', n + 1) = EditorCopy(u)'
    BY <1>1, <1>2 DEF CopiesInv, EndsAtEditor, After
<1>4. \A u \in Uris : \A i \in 0 .. n :
          CopyAfter(u, ServerCopy(u)', toServer', i) = CopyAfter(u, ServerCopy(u), toServer, i)
    BY Sent DEF After
<1> DEFINE l == n + 1
           was(i) == [u \in Uris |-> CopyAfter(u, ServerCopy(u), toServer, i - 1)]
           is(i) == [u \in Uris |-> CopyAfter(u, ServerCopy(u)', toServer', i - 1)]
<1>5. Stages = [i \in 1 .. l |-> was(i)]
    BY DEF Stages
<1>6. Stages' = [i \in 1 .. l + 1 |-> is(i)]
    BY <1>1 DEF Stages
<1>7. l \in Nat /\ l + 1 \in 1 .. l + 1 /\ (l + 1) - 1 = n + 1
      /\ \A i \in 1 .. l : i \in 1 .. l + 1 /\ i - 1 \in 0 .. n
    BY <1>1
<1>8. is(l + 1) = Edited'
    BY <1>3, <1>7 DEF Edited
<1>9. \A i \in 1 .. l : is(i) = was(i)
    BY <1>4, <1>7
<1> HIDE DEF l, was, is
<1>10. /\ Stages = [i \in 1 .. l |-> Stages[i]]
       /\ Stages' = [i \in 1 .. l + 1 |-> Stages'[i]]
       /\ \A i \in 1 .. l : Stages'[i] = Stages[i]
       /\ Stages'[l + 1] = Edited'
    BY <1>5, <1>6, <1>7, <1>8, <1>9
<1> QED BY <1>7, <1>10, AppendIs

LEMMA TakeStages ==
    ASSUME TypeOK, CopiesInv, Turn, UNCHANGED clientVars
    PROVE  Len(Stages) > 1 /\ Stages' = Tail(Stages) /\ Edited' = Edited
<1> DEFINE n == Len(toServer)
<1>0. toServer # << >> /\ toServer' = Tail(toServer) /\ CopiesTaken
    BY TurnTakes
<1>1. n \in Nat \ {0} /\ Len(toServer') = n - 1
    BY <1>0, QueueTypes DEF TypeOK, PipeTypes
<1>2. ASSUME NEW u \in Uris
      PROVE  \A i \in 0 .. n - 1 :
                CopyAfter(u, ServerCopy(u)', toServer', i) =
                    CopyAfter(u, ServerCopy(u), toServer, i + 1)
    <2>1. ServerCopy(u)' = After(u, 1)
        BY <1>0 DEF CopiesTaken
    <2> QED BY <1>0, <2>1, Taken DEF After
<1> DEFINE l == n + 1
           was(i) == [u \in Uris |-> CopyAfter(u, ServerCopy(u), toServer, i - 1)]
           is(i) == [u \in Uris |-> CopyAfter(u, ServerCopy(u)', toServer', i - 1)]
<1>3. Stages = [i \in 1 .. l |-> was(i)]
    BY DEF Stages
<1>4. Stages' = [i \in 1 .. l - 1 |-> is(i)]
    <2>1. Len(toServer') + 1 = l - 1
        BY <1>1
    <2> QED BY <2>1 DEF Stages
<1>5. l \in Nat \ {0} /\ l > 1
      /\ \A i \in 1 .. l - 1 : i + 1 \in 1 .. l /\ i - 1 \in 0 .. n - 1 /\ (i + 1) - 1 = (i - 1) + 1
    BY <1>1
<1>6. \A i \in 1 .. l - 1 : is(i) = was(i + 1)
    BY <1>2, <1>5
<1> HIDE DEF l, was, is
<1>7. /\ Stages = [i \in 1 .. l |-> Stages[i]]
      /\ Stages' = [i \in 1 .. l - 1 |-> Stages'[i]]
      /\ \A i \in 1 .. l - 1 : Stages'[i] = Stages[i + 1]
    BY <1>3, <1>4, <1>5, <1>6
<1>8. Len(Stages) = l /\ Stages' = Tail(Stages)
    BY <1>5, <1>7, TailIs
<1>9. Edited' = Edited
    BY DEF Edited, EditorCopy, clientVars
<1> QED BY <1>5, <1>8, <1>9

LEMMA EditedStep ==
    ASSUME TypeOK, NEW m \in FromEditor, Means(m)
    PROVE  \/ Edited' = Edited
           \/ \E u \in Uris :
                 /\ Edited' = [Edited EXCEPT ![u] = Edited'[u]]
                 /\ Edited'[u] # Nothing =>
                       Edited'[u].version = IF Edited[u] = Nothing THEN 0 ELSE Edited[u].version + 1
<1>1. \A u \in Uris : Edited[u] = EditorCopy(u) /\ Edited'[u] = EditorCopy(u)'
    BY DEF Edited
<1>2. CASE \A u \in Uris : ~Carries(m, u)
    <2>1. \A u \in Uris : EditorCopy(u)' = EditorCopy(u)
        BY <1>2 DEF Means
    <2> QED BY <2>1 DEF Edited
<1>3. CASE \E u \in Uris : Carries(m, u)
    <2>1. PICK u \in Uris : Carries(m, u)
        BY <1>3
    <2>2. Follows(EditorCopy(u), m) /\ EditorCopy(u)' = m.copy
        BY <2>1 DEF Means
    <2>3. \A v \in Uris : v # u => EditorCopy(v)' = EditorCopy(v)
        BY <2>1 DEF Means, Carries
    <2>4. Edited' = [Edited EXCEPT ![u] = Edited'[u]]
        BY <1>1, <2>3 DEF Edited
    <2>5. EditorCopy(u)' # Nothing =>
              EditorCopy(u)'.version =
                  IF EditorCopy(u) = Nothing THEN 0 ELSE EditorCopy(u).version + 1
        BY <2>2 DEF Follows, Copy
    <2> QED BY <1>1, <2>4, <2>5
<1> QED BY <1>2, <1>3

LEMMA InitStages == Init => Mirror!Init
<1> SUFFICES ASSUME Init
             PROVE  Mirror!Init
    OBVIOUS
<1>1. toServer = << >> /\ cText = << >> /\ openDocs = << >>
    BY DEF Init, ServerInit
<1>2. Edited = [u \in Uris |-> Nothing]
    BY <1>1 DEF Edited, EditorCopy
<1>3. \A u \in Uris : CopyAfter(u, ServerCopy(u), toServer, 0) = Nothing
    BY <1>1, CopyAtStart DEF ServerCopy
<1>4. Len(toServer) + 1 = 1 /\ \A i \in 1 .. 1 : i = 1 /\ i - 1 = 0
    BY <1>1
<1>5. Stages = [i \in 1 .. 1 |-> Edited]
    BY <1>2, <1>3, <1>4 DEF Stages
<1>6. [i \in 1 .. 1 |-> Edited] = <<Edited>>
    OBVIOUS
<1> QED BY <1>2, <1>5, <1>6 DEF Mirror!Init, Edited, Stages

LEMMA StepStages == TypeOK /\ CopiesInv /\ [Next]_vars => [Mirror!Next]_Mirror!vars
<1> SUFFICES ASSUME TypeOK, CopiesInv, [Next]_vars
             PROVE  Mirror!Next \/ UNCHANGED <<Edited, Stages>>
    BY DEF Mirror!vars, Edited, Stages
<1>1. CASE Turn /\ UNCHANGED clientVars
    <2>1. Mirror!Take
        BY <1>1, TakeStages DEF Mirror!Take, Edited, Stages
    <2> QED BY <2>1 DEF Mirror!Next
<1>2. CASE \E m \in FromEditor : Send(m) /\ Means(m)
    <2>1. PICK m \in FromEditor : Send(m) /\ Means(m)
        BY <1>2
    <2>2. Stages' = Append(Stages, Edited')
        BY <2>1, SendStages
    <2>3. CASE Edited' = Edited
        <3>1. Mirror!Remark
            BY <2>2, <2>3 DEF Mirror!Remark, Edited, Stages
        <3> QED BY <3>1 DEF Mirror!Next
    <2>4. CASE \E u \in Uris :
                 /\ Edited' = [Edited EXCEPT ![u] = Edited'[u]]
                 /\ Edited'[u] # Nothing =>
                       Edited'[u].version = IF Edited[u] = Nothing THEN 0 ELSE Edited[u].version + 1
        <3>1. PICK u \in Uris :
                 /\ Edited' = [Edited EXCEPT ![u] = Edited'[u]]
                 /\ Edited'[u] # Nothing =>
                       Edited'[u].version = IF Edited[u] = Nothing THEN 0 ELSE Edited[u].version + 1
            BY <2>4
        <3>2. Mirror!Edit(u)
            BY <2>2, <3>1 DEF Mirror!Edit, Edited, Stages
        <3> QED BY <3>2 DEF Mirror!Next
    <2> QED BY <2>1, <2>3, <2>4, EditedStep
<1>3. CASE SameCopies
    <2>1. /\ toServer' = toServer
          /\ \A u : ServerCopy(u)' = ServerCopy(u) /\ EditorCopy(u)' = EditorCopy(u)
        BY <1>3, SameCopiesKept DEF SameCopies
    <2>2. Edited' = Edited /\ Stages' = Stages
        BY <2>1 DEF Edited, Stages
    <2> QED BY <2>2
<1> QED BY <1>1, <1>2, <1>3, Steps, QuietSteps

LEMMA CopiesCorrect == Spec => []CopiesInv
BY InitCopies, StepCopies, TypeCorrect, PTL DEF Spec

(***************************************************************************)
(* The server's documents, with versions, go through every stage of the    *)
(* editor's, in order and none left out (did_open, did_change, did_close,  *)
(* apply_incremental_change): for any number of documents, any lists of    *)
(* changes, and any number of messages under way.                          *)
(***************************************************************************)
THEOREM DocumentsMirrored == Spec => MirrorsTheEditor
BY InitStages, StepStages, TypeCorrect, CopiesCorrect, PTL DEF Spec, MirrorsTheEditor, Mirror!Spec

-----------------------------------------------------------------------------
(***************************************************************************)
(* Requests.  Marked messages of a queue that grows or shrinks.            *)
(***************************************************************************)
LEMMA MarkedAppend ==
    ASSUME NEW S, NEW q \in Seq(S), NEW x \in S, NEW M
    PROVE  /\ x \notin M => Marked(Append(q, x), M) = Marked(q, M)
           /\ x \in M => Marked(Append(q, x), M) # {}
           /\ x \in M /\ Marked(q, M) = {} => AtMostOne(Marked(Append(q, x), M))
<1> DEFINE n == Len(q)
           r == Append(q, x)
<1>1. /\ n \in Nat /\ DOMAIN q = 1 .. n /\ r \in Seq(S) /\ Len(r) = n + 1
      /\ \A i \in 1 .. n : r[i] = q[i]
      /\ r[n + 1] = x
    BY QueueTypes
<1>2. DOMAIN r = 1 .. n + 1
    BY <1>1, QueueTypes
<1> HIDE DEF n, r
<1>3. \A i : i \in 1 .. n + 1 <=> i \in 1 .. n \/ i = n + 1
    BY <1>1
<1>4. \A i : i \in Marked(r, M) <=> i \in Marked(q, M) \/ (i = n + 1 /\ x \in M)
    BY <1>1, <1>2, <1>3 DEF Marked
<1> DEFINE P == Marked(q, M)
           R == Marked(r, M)
           new == n + 1
<1>5. \A i : i \in R <=> i \in P \/ (i = new /\ x \in M)
    BY <1>4
<1> HIDE DEF P, R, new
<1>6. x \notin M => R = P
    <2> SUFFICES ASSUME x \notin M
                 PROVE  \A i : i \in R <=> i \in P
        BY Zenon
    <2> QED BY <1>5
<1>7. x \in M => R # {}
    BY <1>5
<1>8. x \in M /\ P = {} => AtMostOne(R)
    BY <1>5 DEF AtMostOne
<1> QED BY <1>6, <1>7, <1>8 DEF P, R, r

LEMMA MarkedTail ==
    ASSUME NEW S, NEW q \in Seq(S), q # << >>, NEW M
    PROVE  /\ Marked(q, M) = {} => Marked(Tail(q), M) = {}
           /\ Head(q) \notin M => (Marked(Tail(q), M) = {} <=> Marked(q, M) = {})
           /\ AtMostOne(Marked(q, M)) => AtMostOne(Marked(Tail(q), M))
           /\ Head(q) \in M => Marked(q, M) # {}
           /\ Head(q) \in M /\ AtMostOne(Marked(q, M)) => Marked(Tail(q), M) = {}
<1> DEFINE n == Len(q)
           r == Tail(q)
<1>1. /\ n \in Nat \ {0} /\ DOMAIN q = 1 .. n /\ r \in Seq(S) /\ Len(r) = n - 1
      /\ Head(q) = q[1]
      /\ \A i \in 1 .. n - 1 : r[i] = q[i + 1]
    BY QueueTypes
<1>2. DOMAIN r = 1 .. n - 1
    BY <1>1, QueueTypes
<1> DEFINE P == Marked(q, M)
           R == Marked(r, M)
           h == Head(q)
<1> HIDE DEF n, r, h
<1>3. /\ \A i : i \in 1 .. n - 1 => i + 1 \in 1 .. n /\ i \in Nat /\ i + 1 # 1
      /\ \A i \in 1 .. n : i = 1 \/ (i - 1 \in 1 .. n - 1 /\ (i - 1) + 1 = i)
      /\ 1 \in 1 .. n
    BY <1>1
<1>4. \A i \in R : i \in Nat /\ i + 1 \in P /\ i + 1 # 1
    BY <1>1, <1>2, <1>3 DEF Marked
<1>5. \A i \in P : (i = 1 /\ h \in M) \/ i - 1 \in R
    BY <1>1, <1>2, <1>3 DEF Marked, h
<1>6. h \in M <=> 1 \in P
    BY <1>1, <1>3 DEF Marked, h
<1> HIDE DEF P, R
<1>7. AtMostOne(P) => AtMostOne(R)
    <2> SUFFICES ASSUME AtMostOne(P), NEW i \in R, NEW j \in R
                 PROVE  i = j
        BY DEF AtMostOne
    <2>1. i + 1 = j + 1 /\ i \in Nat /\ j \in Nat
        BY <1>4 DEF AtMostOne
    <2> QED BY <2>1
<1>8. P = {} => R = {}
    BY <1>4
<1>9. h \notin M /\ R = {} => P = {}
    BY <1>5
<1>10. h \in M /\ AtMostOne(P) => R = {}
    BY <1>4, <1>6 DEF AtMostOne
<1> QED BY <1>6, <1>7, <1>8, <1>9, <1>10 DEF P, R, r, h

LEMMA MessagesOf ==
    ASSUME TypeOK
    PROVE  /\ toServer \in Seq(FromEditor) /\ toClient \in Seq(FromServer)
           /\ \A x : toServer \in Seq(FromEditor \cup {x}) /\ toClient \in Seq(FromServer \cup {x})
           /\ toServer # << >> => Head(toServer) \in FromEditor
           /\ toClient # << >> => Head(toClient) \in FromServer
<1>1. toServer \in Seq(FromEditor) /\ toClient \in Seq(FromServer)
    BY DEF TypeOK, PipeTypes
<1>2. ASSUME NEW S, NEW q \in Seq(S), NEW x
      PROVE  q \in Seq(S \cup {x})
    OBVIOUS
<1> QED BY <1>1, <1>2, QueueTypes

LEMMA SendRequests ==
    ASSUME TypeOK, RequestsInv, NEW m \in FromEditor, Send(m),
           m.kind \notin {"rename", "shutdown"}, DOMAIN awaiting' = DOMAIN awaiting
    PROVE  RequestsInv'
<1>1. /\ toServer \in Seq(FromEditor) /\ toServer' = Append(toServer, m)
      /\ UNCHANGED <<exitCode, toClient>>
    BY MessagesOf DEF Send, serverVars
<1>2. ASSUME NEW id \in Ids
      PROVE  OnePlace(id)' /\ OnlyAwaited(id)' /\ NotLost(id)'
    <2>1. m \notin Requests(id)
        BY DEF Requests
    <2>2. Asked(id)' = Asked(id) /\ Answered(id)' = Answered(id)
        BY <1>1, <2>1, MarkedAppend DEF Asked, Answered
    <2>3. OnePlace(id) /\ OnlyAwaited(id) /\ NotLost(id)
        BY DEF RequestsInv
    <2> QED BY <1>1, <2>2, <2>3 DEF OnePlace, OnlyAwaited, NotLost
<1> QED BY <1>2 DEF RequestsInv

\* A new request has an id that nobody waits for.
LEMMA AskRequests ==
    ASSUME TypeOK, RequestsInv, NEW m \in FromEditor, Send(m),
           m.kind \in {"rename", "shutdown"}, m.id \notin DOMAIN awaiting,
           DOMAIN awaiting' = DOMAIN awaiting \cup {m.id}
    PROVE  RequestsInv'
<1>1. /\ toServer \in Seq(FromEditor) /\ toServer' = Append(toServer, m)
      /\ UNCHANGED <<exitCode, toClient>>
    BY MessagesOf DEF Send, serverVars
<1>2. ASSUME NEW id \in Ids
      PROVE  OnePlace(id)' /\ OnlyAwaited(id)' /\ NotLost(id)'
    <2>1. OnePlace(id) /\ OnlyAwaited(id) /\ NotLost(id)
        BY DEF RequestsInv
    <2>2. Answered(id)' = Answered(id)
        BY <1>1 DEF Answered
    <2>3. CASE m.id = id
        <3>1. Asked(id) = {} /\ Answered(id) = {}
            BY <2>1, <2>3 DEF OnlyAwaited
        <3>2. m \in Requests(id)
            BY <2>3 DEF Requests
        <3>3. Asked(id)' # {} /\ AtMostOne(Asked(id)')
            BY <1>1, <3>1, <3>2, MarkedAppend DEF Asked
        <3>4. id \in DOMAIN awaiting'
            BY <2>3
        <3> QED BY <2>2, <3>1, <3>3, <3>4 DEF OnePlace, OnlyAwaited, NotLost, AtMostOne
    <2>4. CASE m.id # id
        <3>1. m \notin Requests(id)
            BY <2>4 DEF Requests
        <3>2. Asked(id)' = Asked(id)
            BY <1>1, <3>1, MarkedAppend DEF Asked
        <3>3. id \in DOMAIN awaiting' <=> id \in DOMAIN awaiting
            BY <2>4
        <3> QED BY <1>1, <2>1, <2>2, <3>2, <3>3 DEF OnePlace, OnlyAwaited, NotLost
    <2> QED BY <2>3, <2>4
<1> QED BY <1>2 DEF RequestsInv

\* What a turn of the loop writes, for a request and for another message.
LEMMA TurnWrites ==
    ASSUME Turn
    PROVE  LET m == Head(toServer)
           IN  /\ exitCode = Running /\ toServer # << >> /\ toServer' = Tail(toServer)
               /\ \/ /\ m.kind \notin {"rename", "shutdown"}
                     /\ \/ toClient' = toClient
                        \/ \E d : d.kind = "diagnostics" /\ toClient' = Append(toClient, d)
                  \/ /\ m.kind \in {"rename", "shutdown"}
                     /\ exitCode' = exitCode
                     /\ \E d : /\ d.kind = "answer" /\ d.id = m.id
                               /\ toClient' = Append(toClient, d)
<1> DEFINE m == Head(toServer)
<1>1. \A kind : Handle(kind) => /\ exitCode = Running /\ toServer # << >>
                                /\ toServer' = Tail(toServer) /\ m.kind = kind
    BY DEF Handle
<1>2. \A uri, docs : PublishDiagnostics(uri, docs) =>
          \/ toClient' = toClient
          \/ \E d : d.kind = "diagnostics" /\ toClient' = Append(toClient, d)
    BY DEF PublishDiagnostics, Write
<1>3. \A result : Answer(m, result) =>
          \E d : d.kind = "answer" /\ d.id = m.id /\ toClient' = Append(toClient, d)
    BY DEF Answer, Write
<1>4. CASE DidOpen
    <2>1. Handle("didOpen") /\ PublishDiagnostics(m.uri, Inserted(openDocs, m.uri, m.text))
        BY <1>4 DEF DidOpen
    <2> HIDE DEF m
    <2> QED BY <1>1, <1>2, <2>1 DEF m
<1>5. CASE DidChange
    <2>1. Handle("didChange") /\ \E docs : PublishDiagnostics(m.uri, docs)
        BY <1>5 DEF DidChange
    <2> HIDE DEF m
    <2> QED BY <1>1, <1>2, <2>1 DEF m
<1>6. CASE DidClose \/ OtherNotification \/ Exit
    <2>1. (\E kind \in {"didClose", "didSave", "exit"} : Handle(kind)) /\ toClient' = toClient
        BY <1>6 DEF DidClose, OtherNotification, Exit
    <2> HIDE DEF m
    <2> QED BY <1>1, <2>1 DEF m
<1>7. CASE Rename
    <2>1. Handle("rename") /\ exitCode' = exitCode /\ \E result : Answer(m, result)
        BY <1>7 DEF Rename, serverVars
    <2> HIDE DEF m
    <2> QED BY <1>1, <1>3, <2>1 DEF m
<1>8. CASE Shutdown
    <2>1. Handle("shutdown") /\ exitCode' = exitCode /\ Answer(m, NoAnswer)
        BY <1>8 DEF Shutdown
    <2> HIDE DEF m
    <2> QED BY <1>1, <1>3, <2>1 DEF m
<1> QED BY <1>4, <1>5, <1>6, <1>7, <1>8 DEF Turn

LEMMA TurnRequests ==
    ASSUME TypeOK, TypeOK', RequestsInv, Turn, UNCHANGED clientVars
    PROVE  RequestsInv'
<1> DEFINE m == Head(toServer)
<1>1. /\ toServer \in Seq(FromEditor) /\ toServer # << >> /\ m \in FromEditor
      /\ toServer' = Tail(toServer) /\ exitCode = Running
      /\ toClient \in Seq(FromServer)
      /\ \A x : toClient \in Seq(FromServer \cup {x})
      /\ awaiting' = awaiting
    BY TurnWrites, MessagesOf DEF clientVars
<1>2. ASSUME NEW id \in Ids
      PROVE  /\ OnePlace(id) /\ OnlyAwaited(id) /\ NotLost(id)
             /\ Asked(id) = {} => Asked(id)' = {}
             /\ m \notin Requests(id) => (Asked(id)' = {} <=> Asked(id) = {})
             /\ AtMostOne(Asked(id)')
             /\ m \in Requests(id) => Asked(id) # {} /\ Asked(id)' = {}
    <2>1. OnePlace(id) /\ OnlyAwaited(id) /\ NotLost(id)
        BY DEF RequestsInv
    <2> QED BY <1>1, <2>1, MarkedTail DEF Asked, OnePlace
<1>3. CASE /\ m.kind \notin {"rename", "shutdown"}
           /\ \/ toClient' = toClient
              \/ \E d : d.kind = "diagnostics" /\ toClient' = Append(toClient, d)
    <2> SUFFICES ASSUME NEW id \in Ids
                 PROVE  OnePlace(id)' /\ OnlyAwaited(id)' /\ NotLost(id)'
        BY DEF RequestsInv
    <2>1. m \notin Requests(id)
        BY <1>3 DEF Requests
    <2>2. Answered(id)' = Answered(id)
        <3>1. CASE toClient' = toClient
            BY <3>1 DEF Answered
        <3>2. CASE \E d : d.kind = "diagnostics" /\ toClient' = Append(toClient, d)
            <4>1. PICK d : d.kind = "diagnostics" /\ toClient' = Append(toClient, d)
                BY <3>2
            <4>2. d \notin Answers(id)
                BY <4>1 DEF Answers
            <4> DEFINE S == FromServer \cup {d}
            <4>3. toClient \in Seq(S) /\ d \in S
                BY <1>1
            <4> HIDE DEF S
            <4>4. Marked(Append(toClient, d), Answers(id)) = Marked(toClient, Answers(id))
                BY <4>2, <4>3, MarkedAppend
            <4> QED BY <4>1, <4>4 DEF Answered
        <3> QED BY <1>3, <3>1, <3>2
    <2> HIDE DEF m
    <2> QED BY <1>1, <1>2, <2>1, <2>2 DEF OnePlace, OnlyAwaited, NotLost
<1>4. CASE /\ m.kind \in {"rename", "shutdown"}
           /\ exitCode' = exitCode
           /\ \E d : d.kind = "answer" /\ d.id = m.id /\ toClient' = Append(toClient, d)
    <2>1. PICK d : d.kind = "answer" /\ d.id = m.id /\ toClient' = Append(toClient, d)
        BY <1>4
    <2>2. d \in FromServer
        <3> DEFINE S == FromServer \cup {d}
        <3>1. toClient \in Seq(S) /\ d \in S
            BY <1>1
        <3> HIDE DEF S
        <3>2. toClient'[Len(toClient) + 1] = d /\ Len(toClient') = Len(toClient) + 1 /\ Len(toClient) \in Nat
            BY <2>1, <3>1, QueueTypes
        <3>3. toClient' \in Seq(FromServer)
            BY DEF TypeOK, PipeTypes
        <3>4. Len(toClient) + 1 \in DOMAIN toClient'
            BY <3>2, <3>3, QueueTypes
        <3> QED BY <3>2, <3>3, <3>4, QueueTypes
    <2> SUFFICES ASSUME NEW id \in Ids
                 PROVE  OnePlace(id)' /\ OnlyAwaited(id)' /\ NotLost(id)'
        BY DEF RequestsInv
    <2>3. d \in Answers(id) <=> m.id = id
        BY <2>1, <2>2 DEF Answers
    <2>4. m \in Requests(id) <=> m.id = id
        BY <1>1, <1>4 DEF Requests
    <2>5. /\ d \notin Answers(id) => Answered(id)' = Answered(id)
          /\ d \in Answers(id) => Answered(id)' # {}
          /\ d \in Answers(id) /\ Answered(id) = {} => AtMostOne(Answered(id)')
        BY <1>1, <2>1, <2>2, MarkedAppend DEF Answered
    <2> HIDE DEF m
    <2> QED BY <1>1, <1>2, <1>4, <2>3, <2>4, <2>5 DEF OnePlace, OnlyAwaited, NotLost
<1>5. \/ /\ m.kind \notin {"rename", "shutdown"}
         /\ \/ toClient' = toClient
            \/ \E d : d.kind = "diagnostics" /\ toClient' = Append(toClient, d)
      \/ /\ m.kind \in {"rename", "shutdown"}
         /\ exitCode' = exitCode
         /\ \E d : d.kind = "answer" /\ d.id = m.id /\ toClient' = Append(toClient, d)
    BY TurnWrites
<1> QED BY <1>3, <1>4, <1>5

LEMMA ReceiveRequests == ASSUME TypeOK, RequestsInv, Receive PROVE RequestsInv'
<1> DEFINE m == Head(toClient)
<1>1. /\ toClient \in Seq(FromServer) /\ toClient # << >> /\ m \in FromServer
      /\ toClient' = Tail(toClient)
      /\ UNCHANGED <<toServer, exitCode>>
    BY MessagesOf DEF Receive, serverVars
<1>2. \/ m.kind = "diagnostics" /\ awaiting' = awaiting
      \/ m.kind = "answer" /\ awaiting' = Removed(awaiting, m.id)
    BY DEF Receive
<1> HIDE DEF m
<1> SUFFICES ASSUME NEW id \in Ids
             PROVE  OnePlace(id)' /\ OnlyAwaited(id)' /\ NotLost(id)'
    BY DEF RequestsInv
<1>3. OnePlace(id) /\ OnlyAwaited(id) /\ NotLost(id)
    BY DEF RequestsInv
<1>4. /\ Answered(id) = {} => Answered(id)' = {}
      /\ m \notin Answers(id) => (Answered(id)' = {} <=> Answered(id) = {})
      /\ AtMostOne(Answered(id)')
      /\ m \in Answers(id) => Answered(id) # {} /\ Answered(id)' = {}
    BY <1>1, <1>3, MarkedTail DEF Answered, OnePlace, m
<1>5. Asked(id)' = Asked(id)
    BY <1>1 DEF Asked
<1>6. CASE m \in Answers(id)
    <2>1. DOMAIN awaiting' = DOMAIN awaiting \ {id}
        BY <1>2, <1>6 DEF Answers, Removed
    <2> QED BY <1>1, <1>3, <1>4, <1>5, <1>6, <2>1 DEF OnePlace, OnlyAwaited, NotLost, AtMostOne
<1>7. CASE m \notin Answers(id)
    <2>1. id \in DOMAIN awaiting' <=> id \in DOMAIN awaiting
        BY <1>1, <1>2, <1>7 DEF Answers, Removed
    <2> QED BY <1>1, <1>3, <1>4, <1>5, <1>7, <2>1 DEF OnePlace, OnlyAwaited, NotLost, AtMostOne
<1> QED BY <1>6, <1>7

LEMMA InitRequests == Init => RequestsInv
<1> SUFFICES ASSUME Init, NEW id \in Ids
             PROVE  OnePlace(id) /\ OnlyAwaited(id) /\ NotLost(id)
    BY DEF RequestsInv
<1>1. toServer = << >> /\ toClient = << >> /\ awaiting = << >>
    BY DEF Init, ServerInit
<1>2. Asked(id) = {} /\ Answered(id) = {} /\ DOMAIN awaiting = {}
    BY <1>1 DEF Asked, Answered, Marked
<1> QED BY <1>2 DEF OnePlace, OnlyAwaited, NotLost, AtMostOne

LEMMA StepRequests == TypeOK /\ TypeOK' /\ RequestsInv /\ [Next]_vars => RequestsInv'
<1> SUFFICES ASSUME TypeOK, TypeOK', RequestsInv, [Next]_vars
             PROVE  RequestsInv'
    OBVIOUS
<1>1. CASE \E m \in FromEditor : Send(m) /\ Means(m) /\ Said(m)
    <2>1. PICK m \in FromEditor : Send(m) /\ Said(m)
        BY <1>1
    <2>2. CASE m.kind \in {"rename", "shutdown"}
        BY <2>1, <2>2, AskRequests DEF Said
    <2>3. CASE m.kind \notin {"rename", "shutdown"}
        BY <2>1, <2>3, SendRequests DEF Said
    <2> QED BY <2>2, <2>3
<1>2. CASE Rest
    <2>1. /\ UNCHANGED <<toServer, toClient, awaiting>>
          /\ exitCode' = Running => exitCode = Running
        BY <1>2, SessionAssumption DEF Rest
    <2> QED BY <2>1 DEF RequestsInv, OnePlace, OnlyAwaited, NotLost, Asked, Answered
<1> QED BY <1>1, <1>2, TurnRequests, ReceiveRequests, Steps

LEMMA RequestsCorrect == Spec => []RequestsInv
BY InitRequests, StepRequests, TypeCorrect, PTL DEF Spec

LEMMA OneRequest ==
    ASSUME TypeOK, NEW id \in Ids, OnePlace(id)
    PROVE  /\ Cardinality(Places(id)) <= 1
           /\ Places(id) = {} <=> Asked(id) = {} /\ Answered(id) = {}
<1> DEFINE in == {<<"in", i>> : i \in Asked(id)}
           out == {<<"out", i>> : i \in Answered(id)}
<1>1. /\ \A i \in DOMAIN toServer : toServer[i] \in FromEditor
      /\ \A i \in DOMAIN toClient : toClient[i] \in FromServer
    BY MessagesOf, QueueTypes
<1>2. Places(id) = in \cup out
    <2>1. Asked(id) = {j \in DOMAIN toServer :
                          toServer[j].kind \in {"rename", "shutdown"} /\ toServer[j].id = id}
        BY <1>1 DEF Asked, Marked, Requests
    <2>2. Answered(id) = {j \in DOMAIN toClient :
                             toClient[j].kind = "answer" /\ toClient[j].id = id}
        BY <1>1 DEF Answered, Marked, Answers
    <2> QED BY <2>1, <2>2 DEF Places
<1>3. Cardinality({}) <= 1 /\ \A x : Cardinality({x}) <= 1 /\ {x} # {}
    BY FS_EmptySet, FS_Singleton
<1>4. CASE Asked(id) = {} /\ Answered(id) = {}
    <2>1. Places(id) = {}
        BY <1>2, <1>4
    <2> QED BY <1>3, <1>4, <2>1
<1>5. CASE Asked(id) # {}
    <2>1. PICK i : i \in Asked(id)
        BY <1>5
    <2>2. Asked(id) = {i} /\ Answered(id) = {}
        BY <2>1 DEF OnePlace, AtMostOne
    <2>3. Places(id) = {<<"in", i>>}
        BY <1>2, <2>2
    <2>4. Cardinality(Places(id)) <= 1 /\ Places(id) # {}
        BY <1>3, <2>3
    <2> QED BY <1>5, <2>4
<1>6. CASE Answered(id) # {}
    <2>1. PICK i : i \in Answered(id)
        BY <1>6
    <2>2. Answered(id) = {i} /\ Asked(id) = {}
        BY <2>1 DEF OnePlace, AtMostOne
    <2>3. Places(id) = {<<"out", i>>}
        BY <1>2, <2>2
    <2>4. Cardinality(Places(id)) <= 1 /\ Places(id) # {}
        BY <1>3, <2>3
    <2> QED BY <1>6, <2>4
<1> QED BY <1>4, <1>5, <1>6

(***************************************************************************)
(* Every message with an id is answered once, and while the server runs    *)
(* its question or its answer is under way (main.rs, handle_rename,        *)
(* handle_shutdown), however many requests are asked at a time.            *)
(***************************************************************************)
THEOREM RequestsAnsweredOnce == Spec => []AnsweredOnce
<1>1. TypeOK /\ RequestsInv => AnsweredOnce
    <2> SUFFICES ASSUME TypeOK, RequestsInv, NEW id \in Ids
                 PROVE  IF id \in DOMAIN awaiting
                        THEN Cardinality(Places(id)) <= 1 /\ (exitCode = Running => Places(id) # {})
                        ELSE Places(id) = {}
        BY DEF AnsweredOnce
    <2>1. OnePlace(id) /\ OnlyAwaited(id) /\ NotLost(id)
        BY DEF RequestsInv
    <2> QED BY <2>1, OneRequest DEF OnlyAwaited, NotLost
<1> QED BY <1>1, TypeCorrect, RequestsCorrect, PTL

-----------------------------------------------------------------------------
(***************************************************************************)
(* The end of the process.                                                 *)
(***************************************************************************)
LEMMA TurnStops ==
    ASSUME Turn
    PROVE  LET m == Head(toServer)
           IN  /\ toServer # << >> /\ toServer' = Tail(toServer) /\ exitCode = Running
               /\ \/ /\ m.kind = "exit"
                     /\ exitCode' = IF shutdownReceived THEN 0 ELSE 1
                  \/ m.kind = "shutdown" /\ shutdownReceived' = TRUE /\ exitCode' = exitCode
                  \/ /\ m.kind \notin {"exit", "shutdown"}
                     /\ UNCHANGED <<exitCode, shutdownReceived>>
BY DEF Turn, DidOpen, DidChange, DidClose, OtherNotification, Rename, Shutdown, Exit, Handle, serverVars

LEMMA InitAhead == Init => ShutdownAhead
BY SessionAssumption DEF Init, ServerInit, ShutdownAhead

LEMMA SendAhead ==
    ASSUME TypeOK, ShutdownAhead, NEW m \in FromEditor, Send(m), Said(m)
    PROVE  ShutdownAhead'
<1> DEFINE n == Len(toServer)
<1>1. /\ n \in Nat /\ DOMAIN toServer = 1 .. n
      /\ DOMAIN toServer' = 1 .. n + 1
      /\ \A i \in 1 .. n : toServer'[i] = toServer[i]
      /\ toServer'[n + 1] = m
    <2>1. toServer \in Seq(FromEditor) /\ toServer' = Append(toServer, m)
        BY MessagesOf DEF Send
    <2>2. /\ toServer' \in Seq(FromEditor) /\ Len(toServer') = n + 1 /\ n \in Nat
          /\ DOMAIN toServer = 1 .. n
          /\ \A i \in 1 .. n : toServer'[i] = toServer[i]
          /\ toServer'[n + 1] = m
        BY <2>1, QueueTypes
    <2>3. DOMAIN toServer' = 1 .. Len(toServer')
        BY <2>2, QueueTypes
    <2> QED BY <2>2, <2>3
<1>2. exitCode = Running /\ UNCHANGED <<exitCode, shutdownReceived>> /\ Running # 1
    BY SessionAssumption DEF Send, CanSend, serverVars
<1> HIDE DEF n
<1>3. /\ \A i \in 1 .. n : i \in 1 .. n + 1 /\ i < n + 1
      /\ n + 1 \in 1 .. n + 1
      /\ \A i \in 1 .. n + 1 : i \in 1 .. n \/ i = n + 1
    BY <1>1
<1>4. ASSUME ending' = "no"
      PROVE  \A i \in DOMAIN toServer' : toServer'[i].kind # "exit"
    <2>1. ending = "no" /\ m.kind # "exit"
        BY <1>4 DEF Said
    <2>2. \A i \in 1 .. n : toServer[i].kind # "exit"
        BY <1>1, <2>1 DEF ShutdownAhead
    <2> QED BY <1>1, <1>3, <2>1, <2>2
<1>5. ASSUME ending' = "shutdown", ~shutdownReceived
      PROVE  \E i \in DOMAIN toServer' :
                 /\ toServer'[i].kind = "shutdown"
                 /\ \A j \in DOMAIN toServer' : toServer'[j].kind = "exit" => i < j
    <2>1. CASE ending = "shutdown"
        <3>1. PICK i \in 1 .. n : /\ toServer[i].kind = "shutdown"
                                  /\ \A j \in 1 .. n : toServer[j].kind = "exit" => i < j
            BY <1>1, <1>2, <1>5, <2>1 DEF ShutdownAhead
        <3>2. i \in 1 .. n + 1 /\ toServer'[i].kind = "shutdown"
            BY <1>1, <1>3, <3>1
        <3>3. \A j \in 1 .. n + 1 : toServer'[j].kind = "exit" => i < j
            BY <1>1, <1>3, <3>1
        <3> QED BY <1>1, <3>2, <3>3
    <2>2. CASE ending = "no" /\ m.kind = "shutdown"
        <3>1. \A i \in 1 .. n : toServer[i].kind # "exit"
            BY <1>1, <2>2 DEF ShutdownAhead
        <3>2. \A j \in 1 .. n + 1 : toServer'[j].kind # "exit"
            BY <1>1, <1>3, <2>2, <3>1
        <3> QED BY <1>1, <1>3, <2>2, <3>2
    <2> QED BY <1>5, <2>1, <2>2 DEF Said
<1> QED BY <1>2, <1>4, <1>5 DEF ShutdownAhead

LEMMA TurnAhead ==
    ASSUME TypeOK, ShutdownAhead, Turn, UNCHANGED clientVars
    PROVE  ShutdownAhead'
<1> DEFINE n == Len(toServer)
           m == Head(toServer)
<1>1. /\ n \in Nat \ {0} /\ DOMAIN toServer = 1 .. n
      /\ DOMAIN toServer' = 1 .. n - 1
      /\ \A i \in 1 .. n - 1 : toServer'[i] = toServer[i + 1]
      /\ m = toServer[1]
    <2>1. toServer \in Seq(FromEditor) /\ toServer # << >> /\ toServer' = Tail(toServer)
        BY MessagesOf, TurnStops
    <2>2. /\ n \in Nat \ {0} /\ DOMAIN toServer = 1 .. n
          /\ toServer' \in Seq(FromEditor) /\ Len(toServer') = n - 1
          /\ \A i \in 1 .. n - 1 : toServer'[i] = toServer[i + 1]
          /\ m = toServer[1]
        BY <2>1, QueueTypes
    <2>3. DOMAIN toServer' = 1 .. Len(toServer')
        BY <2>2, QueueTypes
    <2> QED BY <2>2, <2>3
<1>2. /\ exitCode = Running /\ ending' = ending
      /\ \/ m.kind = "exit" /\ exitCode' = IF shutdownReceived THEN 0 ELSE 1
         \/ m.kind = "shutdown" /\ shutdownReceived' = TRUE /\ exitCode' = exitCode
         \/ m.kind \notin {"exit", "shutdown"} /\ UNCHANGED <<exitCode, shutdownReceived>>
    BY TurnStops DEF clientVars
<1>3. Running # 1 /\ Running # 0
    BY SessionAssumption
<1> HIDE DEF n, m
<1>4. /\ 1 \in 1 .. n
      /\ \A i \in 1 .. n - 1 : i \in Int /\ i + 1 \in 1 .. n
      /\ \A i \in 1 .. n : ~(i < 1) /\ (i = 1 \/ (i - 1 \in 1 .. n - 1 /\ (i - 1) + 1 = i))
      /\ \A i \in 1 .. n : \A j \in 1 .. n - 1 : i < j + 1 => i - 1 < j
    BY <1>1
<1>5. CASE ending = "no"
    <2>1. \A i \in 1 .. n : toServer[i].kind # "exit"
        BY <1>1, <1>5 DEF ShutdownAhead
    <2>2. m.kind # "exit" /\ \A i \in 1 .. n - 1 : toServer'[i].kind # "exit"
        BY <1>1, <1>4, <2>1
    <2>3. exitCode' # 1 /\ ending' = "no"
        BY <1>2, <1>3, <1>5, <2>2
    <2> QED BY <1>1, <2>2, <2>3 DEF ShutdownAhead
<1>6. CASE ending = "shutdown"
    <2>1. \/ shutdownReceived
          \/ \E i \in 1 .. n : /\ toServer[i].kind = "shutdown"
                               /\ \A j \in 1 .. n : toServer[j].kind = "exit" => i < j
        BY <1>1, <1>2, <1>6 DEF ShutdownAhead
    <2>2. m.kind = "exit" => shutdownReceived
        BY <1>1, <1>4, <2>1
    <2>3. exitCode' # 1 /\ ending' = "shutdown"
        BY <1>2, <1>3, <1>6, <2>2
    <2>4. m.kind = "exit" => exitCode' # Running
        BY <1>2, <1>3
    <2>5. ASSUME m.kind \notin {"exit", "shutdown"}, ~shutdownReceived
          PROVE  \E i \in DOMAIN toServer' :
                     /\ toServer'[i].kind = "shutdown"
                     /\ \A j \in DOMAIN toServer' : toServer'[j].kind = "exit" => i < j
        <3>1. PICK i \in 1 .. n : /\ toServer[i].kind = "shutdown"
                                  /\ \A j \in 1 .. n : toServer[j].kind = "exit" => i < j
            BY <2>1, <2>5
        <3>2. i - 1 \in 1 .. n - 1 /\ (i - 1) + 1 = i
            BY <1>1, <1>4, <2>5, <3>1
        <3>3. toServer'[i - 1].kind = "shutdown"
            BY <1>1, <3>1, <3>2
        <3>4. \A j \in 1 .. n - 1 : toServer'[j].kind = "exit" => i - 1 < j
            BY <1>1, <1>4, <3>1
        <3> QED BY <1>1, <3>2, <3>3, <3>4
    <2> QED BY <1>2, <2>3, <2>4, <2>5 DEF ShutdownAhead
<1>7. CASE ending \notin {"no", "shutdown"}
    BY <1>2, <1>7 DEF ShutdownAhead
<1> QED BY <1>5, <1>6, <1>7

LEMMA StepAhead == TypeOK /\ ShutdownAhead /\ [Next]_vars => ShutdownAhead'
<1> SUFFICES ASSUME TypeOK, ShutdownAhead, [Next]_vars
             PROVE  ShutdownAhead'
    OBVIOUS
<1>1. CASE Receive
    <2>1. UNCHANGED <<toServer, exitCode, shutdownReceived, ending>>
        BY <1>1 DEF Receive, serverVars
    <2> QED BY <2>1 DEF ShutdownAhead
<1>2. CASE Rest
    <2>1. /\ UNCHANGED <<toServer, shutdownReceived>>
          /\ exitCode' = exitCode \/ (exitCode' = 0 /\ exitCode' # Running /\ exitCode' # 1)
          /\ ending' = ending \/ ending' = "abrupt"
        BY <1>2, SessionAssumption DEF Rest
    <2> QED BY <2>1 DEF ShutdownAhead
<1> QED BY <1>1, <1>2, SendAhead, TurnAhead, Steps

(***************************************************************************)
(* An editor that asked for shutdown before exit never sees the process    *)
(* fail (handle_shutdown, handle_exit), whatever lies in the pipe between  *)
(* the two and whether or not it waited for the answer.                    *)
(***************************************************************************)
THEOREM StopsOrderly == Spec => []OrderlyStop
<1>1. Spec => []ShutdownAhead
    BY InitAhead, StepAhead, TypeCorrect, PTL DEF Spec
<1>2. ShutdownAhead => OrderlyStop
    BY DEF ShutdownAhead, OrderlyStop
<1> QED BY <1>1, <1>2, PTL

-----------------------------------------------------------------------------
(***************************************************************************)
(* Renames.                                                                *)
(***************************************************************************)
RequestsKnown ==
    /\ \A i \in DOMAIN toServer :
          toServer[i].kind = "rename" =>
              toServer[i].uri \in Uris /\ toServer[i].id \in DOMAIN awaiting
    /\ \A i \in DOMAIN toClient :
          toClient[i].kind = "answer" =>
              /\ toClient[i].id \in DOMAIN awaiting
              /\ toClient[i].result # NoAnswer => toClient[i].uri \in Uris

LEMMA Known == TypeOK /\ RequestsInv => RequestsKnown
<1> SUFFICES ASSUME TypeOK, RequestsInv
             PROVE  RequestsKnown
    OBVIOUS
<1>1. ASSUME NEW i \in DOMAIN toServer, toServer[i].kind = "rename"
      PROVE  toServer[i].uri \in Uris /\ toServer[i].id \in DOMAIN awaiting
    <2> DEFINE m == toServer[i]
    <2>1. m \in FromEditor
        BY MessagesOf, QueueTypes
    <2>2. m.uri \in Uris /\ m.id \in Ids
        BY <1>1, <2>1, EditorMessage
    <2>3. i \in Asked(m.id)
        BY <1>1, <2>1 DEF Asked, Marked, Requests
    <2> QED BY <2>2, <2>3 DEF RequestsInv, OnlyAwaited
<1>2. ASSUME NEW i \in DOMAIN toClient, toClient[i].kind = "answer"
      PROVE  /\ toClient[i].id \in DOMAIN awaiting
             /\ toClient[i].result # NoAnswer => toClient[i].uri \in Uris
    <2> DEFINE m == toClient[i]
    <2>1. m \in FromServer
        BY MessagesOf, QueueTypes
    <2>2. m.id \in Ids /\ (m.result # NoAnswer => m.uri \in Uris)
        BY <1>2, <2>1, ServerMessage
    <2>3. i \in Answered(m.id)
        BY <1>2, <2>1 DEF Answered, Marked, Answers
    <2> QED BY <2>2, <2>3 DEF RequestsInv, OnlyAwaited
<1> QED BY <1>1, <1>2 DEF RequestsKnown

EditorCopiesTyped == \A u \in Uris : EditorCopy(u) # Nothing => EditorCopy(u) \in Copies

LEMMA EditorCopies == TypeOK => EditorCopiesTyped
BY EditorCopyType DEF EditorCopiesTyped

\* A copy that is not newer than the editor's is not newer after what it says.
LEMMA NotNewerAfter ==
    ASSUME NEW m \in FromEditor, Means(m), NEW v \in Uris,
           ~(m.kind = "didClose" /\ m.uri = v),
           NEW c, NotNewer(c, EditorCopy(v))
    PROVE  NotNewer(c, EditorCopy(v)')
<1>1. Nothing \notin Copies
    BY SessionAssumption DEF Copies, Chars
<1>2. CASE ~Carries(m, v)
    BY <1>2 DEF Means
<1>3. CASE Carries(m, v)
    <2>1. Follows(EditorCopy(v), m) /\ EditorCopy(v)' = m.copy
        BY <1>3 DEF Means
    <2>2. EditorCopy(v) # Nothing
        BY <1>1 DEF NotNewer
    <2>3. /\ m.kind = "didChange"
          /\ m.copy.version = EditorCopy(v).version + 1
        BY <1>3, <2>1, <2>2 DEF Follows, Carries, Copy
    <2>4. m.copy \in Copies
        BY <2>3, EditorMessage
    <2> DEFINE b == EditorCopy(v)
               d == m.copy
    <2> HIDE DEF b, d
    <2>5. /\ c \in Copies /\ b \in Copies /\ d \in Copies
          /\ c.version <= b.version /\ d.version = b.version + 1
        BY <2>3, <2>4 DEF NotNewer, b, d
    <2>6. c.version \in Nat /\ b.version \in Nat
        BY <2>5 DEF Copies
    <2>7. c.version <= d.version /\ c.version # d.version
        BY <2>5, <2>6
    <2>8. NotNewer(c, d)
        BY <2>5, <2>7 DEF NotNewer
    <2> QED BY <2>1, <2>8 DEF d
<1> QED BY <1>2, <1>3

LEMMA SendRenames ==
    ASSUME TypeOK, TypeOK', CopiesInv, CopiesInv', RequestsInv, RenamesInv,
           NEW m \in FromEditor, Send(m), Means(m), Said(m)
    PROVE  RenamesInv'
<1>0. PICK n \in Nat : n = Len(toServer)
    BY MessagesOf, QueueTypes
<1>1. /\ DOMAIN toServer = 1 .. n
      /\ DOMAIN toServer' = 1 .. n + 1 /\ Len(toServer') = n + 1
      /\ \A i \in 1 .. n : toServer'[i] = toServer[i]
      /\ toServer'[n + 1] = m
      /\ toClient' = toClient
    <2>1. toServer \in Seq(FromEditor) /\ toServer' = Append(toServer, m) /\ toClient' = toClient
        BY MessagesOf DEF Send
    <2>2. /\ toServer' \in Seq(FromEditor) /\ Len(toServer') = n + 1
          /\ DOMAIN toServer = 1 .. n
          /\ \A i \in 1 .. n : toServer'[i] = toServer[i]
          /\ toServer'[n + 1] = m
        BY <1>0, <2>1, QueueTypes
    <2>3. DOMAIN toServer' = 1 .. Len(toServer')
        BY <2>2, QueueTypes
    <2> QED BY <2>1, <2>2, <2>3
<1>2. ASSUME NEW u \in Uris
      PROVE  /\ \A i \in 0 .. n : After(u, i)' = After(u, i)
             /\ After(u, n) = EditorCopy(u) /\ After(u, n + 1)' = EditorCopy(u)'
    <2>1. \A i \in 0 .. n : CopyAfter(u, ServerCopy(u)', toServer', i) = After(u, i)
        BY <1>0, Sent
    <2>2. After(u, n) = EditorCopy(u)
        BY <1>0 DEF CopiesInv, EndsAtEditor
    <2>3. After(u, Len(toServer))' = EditorCopy(u)'
        BY DEF CopiesInv, EndsAtEditor
    <2>4. After(u, n + 1)' = EditorCopy(u)'
        BY <1>1, <2>3 DEF After
    <2> QED BY <2>1, <2>2, <2>4 DEF After
<1>3. RequestsKnown
    BY Known
<1>4. \A k \in DOMAIN awaiting : \A v \in Uris :
          awaiting'[k] = v => awaiting[k] = v /\ ~(m.kind = "didClose" /\ m.uri = v)
    BY DEF Said
<1>5. /\ \A i \in 1 .. n : i \in 0 .. n /\ n \in i .. n
      /\ \A i \in 1 .. n + 1 : i \in 1 .. n \/ i = n + 1
      /\ \A i \in 1 .. n : \A j \in i .. n + 1 : (j \in i .. n /\ j \in 0 .. n) \/ j = n + 1
      /\ \A j \in n + 1 .. n + 1 : j = n + 1
      /\ n \in 0 .. n /\ \A j \in 0 .. n + 1 : j \in 0 .. n \/ j = n + 1
    OBVIOUS
<1>6. ASSUME NEW u \in Uris, NEW i \in 1 .. n + 1, toServer'[i].kind = "rename",
             toServer'[i].uri = u, awaiting'[toServer'[i].id] = u, NEW j \in i .. n + 1
      PROVE  NotNewer(After(u, i)', After(u, j)')
    <2>1. CASE i \in 1 .. n
        <3> DEFINE r == toServer[i]
        <3>1. r.kind = "rename" /\ r.uri = u /\ awaiting'[r.id] = u
            BY <1>1, <1>6, <2>1
        <3>2. r.id \in DOMAIN awaiting
            BY <1>1, <1>3, <2>1, <3>1 DEF RequestsKnown
        <3>3. awaiting[r.id] = u /\ ~(m.kind = "didClose" /\ m.uri = u)
            BY <1>4, <3>1, <3>2
        <3>4. \A k \in i .. n : NotNewer(After(u, i), After(u, k))
            BY <1>0, <1>1, <2>1, <3>1, <3>3 DEF RenamesInv, AskedWhileOpen
        <3>5. After(u, i)' = After(u, i)
            BY <1>2, <1>5, <2>1
        <3>6. CASE j \in i .. n /\ j \in 0 .. n
            <4>1. After(u, j)' = After(u, j)
                BY <1>2, <3>6
            <4> QED BY <3>4, <3>5, <3>6, <4>1
        <3>7. CASE j = n + 1
            <4>1. NotNewer(After(u, i), EditorCopy(u))
                BY <1>2, <1>5, <2>1, <3>4
            <4>2. NotNewer(After(u, i), EditorCopy(u)')
                BY <3>3, <4>1, NotNewerAfter
            <4> QED BY <1>2, <3>5, <3>7, <4>2
        <3> QED BY <1>5, <2>1, <3>6, <3>7
    <2>2. CASE i = n + 1
        <3>1. m.kind = "rename" /\ m.uri = u /\ j = n + 1
            BY <1>1, <1>5, <1>6, <2>2
        <3>2. EditorCopy(m.uri)' # Nothing
            BY <3>1 DEF Said
        <3>3. EditorCopy(u)' # Nothing
            BY <3>1, <3>2 DEF EditorCopy
        <3>4. EditorCopiesTyped'
            BY EditorCopies, PTL
        <3>5. EditorCopy(u)' \in Copies
            BY <3>3, <3>4 DEF EditorCopiesTyped
        <3>6. \A c \in Copies : NotNewer(c, c)
            BY DEF NotNewer, Copies
        <3> QED BY <1>2, <2>2, <3>1, <3>5, <3>6
    <2> QED BY <1>5, <2>1, <2>2
<1>7. ASSUME NEW u \in Uris, NEW i \in DOMAIN toClient, toClient[i].kind = "answer",
             toClient[i].result # NoAnswer, toClient[i].uri = u, awaiting'[toClient[i].id] = u,
             NEW j \in 0 .. n + 1
      PROVE  NotNewer(Copy(toClient[i].result.on, toClient[i].result.version), After(u, j)')
    <2> DEFINE c == Copy(toClient[i].result.on, toClient[i].result.version)
    <2>1. awaiting[toClient[i].id] = u /\ ~(m.kind = "didClose" /\ m.uri = u)
        BY <1>3, <1>4, <1>7 DEF RequestsKnown
    <2>2. \A k \in 0 .. n : NotNewer(c, After(u, k))
        BY <1>0, <1>7, <2>1 DEF RenamesInv, AnsweredWhileOpen
    <2> HIDE DEF c
    <2>3. CASE j \in 0 .. n
        <3>1. NotNewer(c, After(u, j)')
            BY <1>2, <2>2, <2>3
        <3> QED BY <3>1 DEF c
    <2>4. CASE j = n + 1
        <3>1. NotNewer(c, EditorCopy(u))
            BY <1>2, <1>5, <2>2
        <3>2. NotNewer(c, EditorCopy(u)')
            BY <2>1, <3>1, NotNewerAfter
        <3>3. NotNewer(c, After(u, j)')
            BY <1>2, <2>4, <3>2
        <3> QED BY <3>3 DEF c
    <2> QED BY <1>5, <2>3, <2>4
<1>8. AskedWhileOpen'
    BY <1>1, <1>6 DEF AskedWhileOpen
<1>9. AnsweredWhileOpen'
    BY <1>1, <1>7 DEF AnsweredWhileOpen
<1> QED BY <1>8, <1>9 DEF RenamesInv

\* What a turn of the loop answers a rename with.
LEMMA TurnAnswers ==
    ASSUME CopiesInv, Turn
    PROVE  \/ toClient' = toClient
           \/ \E d : /\ toClient' = Append(toClient, d)
                     /\ \/ d.kind # "answer" \/ d.result = NoAnswer
                        \/ /\ Head(toServer).kind = "rename"
                           /\ d.id = Head(toServer).id /\ d.uri = Head(toServer).uri
                           /\ Copy(d.result.on, d.result.version) = ServerCopy(Head(toServer).uri)
<1> DEFINE m == Head(toServer)
<1>1. \A uri, docs : PublishDiagnostics(uri, docs) =>
          \/ toClient' = toClient
          \/ \E d : d.kind = "diagnostics" /\ toClient' = Append(toClient, d)
    BY DEF PublishDiagnostics, Write
<1>2. CASE DidOpen \/ DidChange
    <2>1. \E uri, docs : PublishDiagnostics(uri, docs)
        BY <1>2 DEF DidOpen, DidChange
    <2> QED BY <1>1, <2>1
<1>3. CASE DidClose \/ OtherNotification \/ Exit
    BY <1>3 DEF DidClose, OtherNotification, Exit
<1>4. CASE Shutdown
    BY <1>4 DEF Shutdown, Answer, Write
<1>5. CASE Rename
    <2> DEFINE version == IF m.uri \in DOMAIN docVersions THEN docVersions[m.uri] ELSE 0
               e == [kind |-> "answer", id |-> m.id, uri |-> m.uri,
                     result |-> [version |-> version, on |-> openDocs[m.uri]]]
               none == [kind |-> "answer", id |-> m.id, uri |-> m.uri, result |-> NoAnswer]
    <2>1. /\ m.kind = "rename"
          /\ \/ toClient' = Append(toClient, none)
             \/ m.uri \in DOMAIN openDocs /\ toClient' = Append(toClient, e)
        BY <1>5 DEF Rename, Handle, Answer, Write
    <2>2. none.result = NoAnswer
        OBVIOUS
    <2>3. e.id = m.id /\ e.uri = m.uri /\ e.result.on = openDocs[m.uri] /\ e.result.version = version
        OBVIOUS
    <2>4. m.uri \in DOMAIN openDocs => ServerCopy(m.uri) = Copy(openDocs[m.uri], version)
        BY DEF CopiesInv, VersionsOfOpen, ServerCopy
    <2> HIDE DEF e, none, version, m
    <2>5. m.uri \in DOMAIN openDocs => Copy(e.result.on, e.result.version) = ServerCopy(m.uri)
        BY <2>3, <2>4
    <2> QED BY <2>1, <2>2, <2>3, <2>5 DEF m
<1> QED BY <1>2, <1>3, <1>4, <1>5 DEF Turn

LEMMA TurnRenames ==
    ASSUME TypeOK, CopiesInv, RequestsInv, RenamesInv, Turn, UNCHANGED clientVars
    PROVE  RenamesInv'
<1>0. PICK n \in Nat : n = Len(toServer)
    BY MessagesOf, QueueTypes
<1>1. /\ toServer # << >> /\ toServer' = Tail(toServer) /\ CopiesTaken
      /\ awaiting' = awaiting
    BY TurnTakes DEF clientVars
<1>2. /\ n \in Nat \ {0} /\ DOMAIN toServer = 1 .. n
      /\ Len(toServer') = n - 1
      /\ \A i \in 1 .. n - 1 : toServer'[i] = toServer[i + 1]
      /\ Head(toServer) = toServer[1]
    BY <1>0, <1>1, MessagesOf, QueueTypes
<1>3. DOMAIN toServer' = 1 .. n - 1
    <2>1. toServer' \in Seq(FromEditor)
        BY <1>1, MessagesOf, QueueTypes
    <2> QED BY <1>2, <2>1, QueueTypes
<1>4. ASSUME NEW u \in Uris, NEW i \in 0 .. n - 1
      PROVE  After(u, i)' = After(u, i + 1)
    <2>1. ServerCopy(u)' = After(u, 1)
        BY <1>1 DEF CopiesTaken
    <2>2. \A k \in 0 .. n - 1 : CopyAfter(u, ServerCopy(u)', toServer', k) = After(u, k + 1)
        BY <1>0, <1>1, <2>1, Taken
    <2> QED BY <2>2 DEF After
<1>5. /\ \A i \in 1 .. n - 1 : i \in 0 .. n - 1 /\ i + 1 \in 1 .. n
      /\ \A i \in 1 .. n - 1 : \A j \in i .. n - 1 : j \in 0 .. n - 1 /\ j + 1 \in i + 1 .. n
      /\ 1 \in 1 .. n
      /\ \A j \in 0 .. n - 1 : j + 1 \in 1 .. n /\ j + 1 \in 0 .. n
    BY <1>2
<1>6. ASSUME NEW u \in Uris, NEW i \in 1 .. n - 1, toServer'[i].kind = "rename",
             toServer'[i].uri = u, awaiting'[toServer'[i].id] = u, NEW j \in i .. n - 1
      PROVE  NotNewer(After(u, i)', After(u, j)')
    <2>1. /\ toServer[i + 1].kind = "rename" /\ toServer[i + 1].uri = u
          /\ awaiting[toServer[i + 1].id] = u /\ i + 1 \in 1 .. n
        BY <1>1, <1>2, <1>5, <1>6
    <2>2. \A k \in i + 1 .. n : NotNewer(After(u, i + 1), After(u, k))
        BY <1>0, <1>2, <2>1 DEF RenamesInv, AskedWhileOpen
    <2>3. NotNewer(After(u, i + 1), After(u, j + 1))
        BY <1>5, <2>2
    <2>4. After(u, i)' = After(u, i + 1) /\ After(u, j)' = After(u, j + 1)
        BY <1>4, <1>5
    <2> QED BY <2>3, <2>4
<1>7. ASSUME NEW u \in Uris, NEW c, \A k \in 1 .. n : NotNewer(c, After(u, k)), NEW j \in 0 .. n - 1
      PROVE  NotNewer(c, After(u, j)')
    BY <1>4, <1>5, <1>7
<1>8. ASSUME NEW u \in Uris, NEW a, \E i \in DOMAIN toClient : a = toClient[i],
             a.kind = "answer", a.result # NoAnswer, a.uri = u, awaiting[a.id] = u
      PROVE  \A j \in 0 .. n - 1 : NotNewer(Copy(a.result.on, a.result.version), After(u, j)')
    <2> DEFINE c == Copy(a.result.on, a.result.version)
    <2>1. \A k \in 0 .. n : NotNewer(c, After(u, k))
        BY <1>0, <1>8 DEF RenamesInv, AnsweredWhileOpen
    <2>2. \A k \in 1 .. n : k \in 0 .. n
        OBVIOUS
    <2> HIDE DEF c
    <2>3. \A j \in 0 .. n - 1 : NotNewer(c, After(u, j)')
        BY <1>7, <2>1, <2>2
    <2> QED BY <2>3 DEF c
<1>9. AskedWhileOpen'
    BY <1>2, <1>3, <1>6 DEF AskedWhileOpen
<1>10. CASE toClient' = toClient
    <2>1. AnsweredWhileOpen'
        BY <1>1, <1>2, <1>8, <1>10 DEF AnsweredWhileOpen
    <2> QED BY <1>9, <2>1 DEF RenamesInv
<1>11. CASE \E d : /\ toClient' = Append(toClient, d)
                   /\ \/ d.kind # "answer" \/ d.result = NoAnswer
                      \/ /\ Head(toServer).kind = "rename"
                         /\ d.id = Head(toServer).id /\ d.uri = Head(toServer).uri
                         /\ Copy(d.result.on, d.result.version) = ServerCopy(Head(toServer).uri)
    <2>1. PICK d : /\ toClient' = Append(toClient, d)
                   /\ \/ d.kind # "answer" \/ d.result = NoAnswer
                      \/ /\ Head(toServer).kind = "rename"
                         /\ d.id = Head(toServer).id /\ d.uri = Head(toServer).uri
                         /\ Copy(d.result.on, d.result.version) = ServerCopy(Head(toServer).uri)
        BY <1>11
    <2>2. ASSUME NEW i \in DOMAIN toClient'
          PROVE  (\E k \in DOMAIN toClient : toClient'[i] = toClient[k]) \/ toClient'[i] = d
        <3> DEFINE S == FromServer \cup {d}
        <3>1. toClient \in Seq(S) /\ d \in S
            BY MessagesOf
        <3> HIDE DEF S
        <3>2. /\ toClient' \in Seq(S) /\ Len(toClient') = Len(toClient) + 1 /\ Len(toClient) \in Nat
              /\ \A k \in 1 .. Len(toClient) : toClient'[k] = toClient[k]
              /\ toClient'[Len(toClient) + 1] = d
              /\ DOMAIN toClient = 1 .. Len(toClient)
            BY <2>1, <3>1, QueueTypes
        <3>3. i \in 1 .. Len(toClient) + 1
            BY <3>2, QueueTypes
        <3>4. i \in 1 .. Len(toClient) \/ i = Len(toClient) + 1
            BY <3>2, <3>3
        <3> QED BY <3>2, <3>4
    <2>3. ASSUME NEW u \in Uris, d.kind = "answer", d.result # NoAnswer, d.uri = u, awaiting[d.id] = u
          PROVE  \A j \in 0 .. n - 1 : NotNewer(Copy(d.result.on, d.result.version), After(u, j)')
        <3>1. /\ toServer[1].kind = "rename" /\ toServer[1].uri = u /\ toServer[1].id = d.id
              /\ Copy(d.result.on, d.result.version) = ServerCopy(u)
            BY <1>2, <2>1, <2>3
        <3>2. \A k \in 1 .. n : NotNewer(After(u, 1), After(u, k))
            BY <1>0, <1>2, <1>5, <2>3, <3>1 DEF RenamesInv, AskedWhileOpen
        <3>3. After(u, 1) = ServerCopy(u)
            <4>1. ~Carries(Head(toServer), u)
                BY <1>2, <3>1 DEF Carries
            <4> QED BY <1>1, <4>1, HeadMeans
        <3>4. \A j \in 0 .. n - 1 : NotNewer(After(u, 1), After(u, j)')
            BY <1>7, <3>2
        <3> QED BY <3>1, <3>3, <3>4
    <2>4. ASSUME NEW u \in Uris, NEW i \in DOMAIN toClient', toClient'[i].kind = "answer",
                 toClient'[i].result # NoAnswer, toClient'[i].uri = u, awaiting'[toClient'[i].id] = u,
                 NEW j \in 0 .. n - 1
          PROVE  NotNewer(Copy(toClient'[i].result.on, toClient'[i].result.version), After(u, j)')
        <3>1. CASE toClient'[i] = d
            BY <1>1, <2>3, <2>4, <3>1
        <3>2. CASE \E k \in DOMAIN toClient : toClient'[i] = toClient[k]
            BY <1>1, <1>8, <2>4, <3>2
        <3> QED BY <2>2, <3>1, <3>2
    <2>5. AnsweredWhileOpen'
        BY <1>2, <2>4 DEF AnsweredWhileOpen
    <2> QED BY <1>9, <2>5 DEF RenamesInv
<1> QED BY <1>10, <1>11, TurnAnswers

LEMMA ReceiveRenames ==
    ASSUME TypeOK, TypeOK', RequestsInv', RenamesInv, Receive
    PROVE  RenamesInv'
<1>1. /\ toServer' = toServer /\ toClient # << >> /\ toClient' = Tail(toClient)
      /\ awaiting' = awaiting \/ awaiting' = Removed(awaiting, Head(toClient).id)
    BY DEF Receive
<1>2. \A k \in DOMAIN awaiting' : awaiting'[k] = awaiting[k]
    BY <1>1 DEF Removed
<1>3. RequestsKnown'
    BY Known, PTL
<1>4. \A u, i : After(u, i)' = After(u, i)
    BY SameCopiesKept, QuietSteps
<1>5. \A i \in DOMAIN toClient' : \E k \in DOMAIN toClient : toClient'[i] = toClient[k]
    <2>1. /\ toClient' \in Seq(FromServer) /\ Len(toClient') = Len(toClient) - 1
          /\ Len(toClient) \in Nat \ {0} /\ DOMAIN toClient = 1 .. Len(toClient)
          /\ \A i \in 1 .. Len(toClient) - 1 : toClient'[i] = toClient[i + 1]
        BY <1>1, MessagesOf, QueueTypes
    <2>2. DOMAIN toClient' = 1 .. Len(toClient) - 1
        BY <2>1, QueueTypes
    <2>3. \A i \in 1 .. Len(toClient) - 1 : i + 1 \in 1 .. Len(toClient)
        BY <2>1
    <2> QED BY <2>1, <2>2, <2>3
<1>6. AskedWhileOpen'
    <2>1. ASSUME NEW u \in Uris, NEW i \in DOMAIN toServer, toServer[i].kind = "rename",
                 toServer[i].uri = u, awaiting'[toServer[i].id] = u, NEW j \in i .. Len(toServer)
          PROVE  NotNewer(After(u, i)', After(u, j)')
        <3>1. toServer[i].id \in DOMAIN awaiting'
            BY <1>1, <1>3, <2>1 DEF RequestsKnown
        <3>2. NotNewer(After(u, i), After(u, j))
            BY <1>2, <2>1, <3>1 DEF RenamesInv, AskedWhileOpen
        <3> QED BY <1>4, <3>2
    <2> QED BY <1>1, <2>1 DEF AskedWhileOpen
<1>7. AnsweredWhileOpen'
    <2>1. ASSUME NEW u \in Uris, NEW i \in DOMAIN toClient', toClient'[i].kind = "answer",
                 toClient'[i].result # NoAnswer, toClient'[i].uri = u, awaiting'[toClient'[i].id] = u,
                 NEW j \in 0 .. Len(toServer)
          PROVE  NotNewer(Copy(toClient'[i].result.on, toClient'[i].result.version), After(u, j)')
        <3>1. toClient'[i].id \in DOMAIN awaiting'
            BY <1>3, <2>1 DEF RequestsKnown
        <3>2. awaiting[toClient'[i].id] = u
            BY <1>2, <2>1, <3>1
        <3>3. PICK k \in DOMAIN toClient : toClient'[i] = toClient[k]
            BY <1>5
        <3>4. NotNewer(Copy(toClient[k].result.on, toClient[k].result.version), After(u, j))
            BY <2>1, <3>2, <3>3 DEF RenamesInv, AnsweredWhileOpen
        <3> QED BY <1>4, <3>3, <3>4
    <2> QED BY <1>1, <2>1 DEF AnsweredWhileOpen
<1> QED BY <1>6, <1>7 DEF RenamesInv

LEMMA InitRenames == Init => RenamesInv
BY DEF Init, ServerInit, RenamesInv, AskedWhileOpen, AnsweredWhileOpen

LEMMA StepRenames ==
    /\ TypeOK /\ CopiesInv /\ RequestsInv /\ RenamesInv
    /\ TypeOK' /\ CopiesInv' /\ RequestsInv'
    /\ [Next]_vars
    => RenamesInv'
<1> SUFFICES ASSUME TypeOK, CopiesInv, RequestsInv, RenamesInv,
                    TypeOK', CopiesInv', RequestsInv', [Next]_vars
             PROVE  RenamesInv'
    OBVIOUS
<1>1. CASE Rest
    <2>1. UNCHANGED <<toServer, toClient, awaiting>>
        BY <1>1 DEF Rest
    <2>2. \A u, i : After(u, i)' = After(u, i)
        BY <1>1, SameCopiesKept, QuietSteps
    <2> QED BY <2>1, <2>2 DEF RenamesInv, AskedWhileOpen, AnsweredWhileOpen
<1> QED BY <1>1, TurnRenames, SendRenames, ReceiveRenames, Steps

LEMMA EditorsCopyOnly ==
    ASSUME TypeOK, CopiesInv, RequestsInv, RenamesInv, NEW i \in DOMAIN toClient,
           toClient[i].kind = "answer", toClient[i].result # NoAnswer,
           awaiting[toClient[i].id] = toClient[i].uri,
           toClient[i].result.version = cVersion[toClient[i].uri]
    PROVE  toClient[i].result.on = cText[toClient[i].uri]
<1> DEFINE m == toClient[i]
           c == Copy(m.result.on, m.result.version)
<1>1. m.uri \in Uris
    BY Known DEF RequestsKnown
<1>2. Len(toServer) \in 0 .. Len(toServer)
    <2>1. Len(toServer) \in Nat
        BY MessagesOf, QueueTypes
    <2> QED BY <2>1
<1>3. NotNewer(c, After(m.uri, Len(toServer)))
    BY <1>1, <1>2 DEF RenamesInv, AnsweredWhileOpen
<1>4. NotNewer(c, EditorCopy(m.uri))
    BY <1>1, <1>3 DEF CopiesInv, EndsAtEditor
<1>5. EditorCopy(m.uri) # Nothing
    BY <1>4, SessionAssumption DEF NotNewer, Copies, Chars
<1>6. EditorCopy(m.uri) = Copy(cText[m.uri], cVersion[m.uri])
    BY <1>5 DEF EditorCopy
<1>7. c.version = m.result.version /\ c.text = m.result.on
    BY DEF Copy
<1>8. EditorCopy(m.uri).version = cVersion[m.uri] /\ EditorCopy(m.uri).text = cText[m.uri]
    BY <1>6 DEF Copy
<1> QED BY <1>4, <1>7, <1>8 DEF NotNewer

(***************************************************************************)
(* A rename the editor still waits for and finds to be of its own version  *)
(* was computed on its own text (handle_rename, did_change, doc_versions): *)
(* however many edits, closings, reopenings and other requests crossed it  *)
(* on the way.                                                             *)
(***************************************************************************)
THEOREM RenamesNotStale == Spec => []NoStaleRename
<1>1. Spec => []RenamesInv
    BY InitRenames, StepRenames, TypeCorrect, CopiesCorrect, RequestsCorrect, PTL DEF Spec
<1>2. TypeOK /\ CopiesInv /\ RequestsInv /\ RenamesInv => NoStaleRename
    BY EditorsCopyOnly DEF NoStaleRename
<1> QED BY <1>1, <1>2, TypeCorrect, CopiesCorrect, RequestsCorrect, PTL
=============================================================================
