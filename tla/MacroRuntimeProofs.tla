------------------------- MODULE MacroRuntimeProofs -------------------------
(***************************************************************************)
(* For every number of threads, keys, calls and tasks, and every capacity: *)
(* the memo of expand_cached holds the results of the keys asked for last, *)
(* a task's context outlives it, and the steps of threads, runtime and     *)
(* tasks are those of MacroCalls.                                          *)
(***************************************************************************)
EXTENDS MacroRuntime, FiniteSetTheorems, SequenceTheorems, TLAPS

-----------------------------------------------------------------------------
(* The inductive invariant. *)

\* What is asked for from position j of a history on.
Since(history, j) == {history[l] : l \in j .. Len(history)}
\* What a list of keys holds from position i on.
From(seq, i) == {seq[m] : m \in i .. Len(seq)}
\* Position j is the last one of its key.
IsLast(history, j) == \A l \in j + 1 .. Len(history) : history[l] # history[j]

\* No key is listed twice.
Distinct(seq) == \A i, j \in DOMAIN seq : seq[i] = seq[j] => i = j

\* A list is in the order of last use: what was asked for since the last use
\* of a listed key is what is listed from that key on.
InOrder(history, seq) ==
    \A i \in DOMAIN seq : \E j \in DOMAIN history :
        history[j] = seq[i] /\ IsLast(history, j) /\ Since(history, j) = From(seq, i)

\* A key that was asked for and is not listed has been pushed out: the list is
\* full of keys asked for after it.
PushedOut(history, seq) ==
    \A j \in DOMAIN history :
        history[j] \notin RangeOf(seq) =>
            Len(seq) = Cap /\ RangeOf(seq) \subseteq Since(history, j)

Recent(history, seq) ==
    /\ Distinct(seq) /\ Len(seq) <= Cap
    /\ InOrder(history, seq) /\ PushedOut(history, seq)

\* The keys whose calls have come to the memo: a thread that is at a call has
\* asked for its key, which is not in the memo yet.
Answered(t) ==
    IF phase[t] = "idle" THEN used[t] ELSE SubSeq(used[t], 1, Len(used[t]) - 1)

AtACall ==
    \A t \in Threads : phase[t] # "idle" =>
        /\ key[t] \in Keys /\ key[t] \notin DOMAIN expanded[t]
        /\ used[t] # << >> /\ used[t][Len(used[t])] = key[t]

MemoInOrder ==
    \A t \in Threads : DOMAIN expanded[t] = RangeOf(lru[t]) /\ Recent(Answered(t), lru[t])

\* A task has a result only when it is done, and a thread polls a task of the
\* key it is at.
TasksAndResults ==
    \A i \in DOMAIN tasks : tasks[i].out # NoResult => tasks[i].state = "done"
PollsItsOwn ==
    \A t \in Threads : phase[t] = "poll" =>
        mine[t] \in DOMAIN tasks /\ tasks[mine[t]].key = key[t]

RuntimeInv ==
    /\ TypeOK /\ AtACall /\ MemoInOrder
    /\ TasksAndResults /\ ContextOutlivesTask /\ PollsItsOwn

-----------------------------------------------------------------------------
(* Lists of keys. *)

LEMMA ListFacts ==
    ASSUME NEW S, NEW s \in Seq(S)
    PROVE  /\ Len(s) \in Nat /\ DOMAIN s = 1 .. Len(s)
           /\ \A i \in DOMAIN s : s[i] \in S
           /\ RangeOf(s) \subseteq S
<1>1. Len(s) \in Nat /\ DOMAIN s = 1 .. Len(s)
  BY LenProperties
<1>2. \A i \in DOMAIN s : s[i] \in S
  BY <1>1, ElementOfSeq
<1> QED
  BY <1>1, <1>2 DEF RangeOf

\* A list holds at most as many keys as it is long, and as many when no key
\* is listed twice.
LEMMA RangeCardinality ==
    ASSUME NEW S, NEW s \in Seq(S)
    PROVE  /\ IsFiniteSet(RangeOf(s)) /\ Cardinality(RangeOf(s)) <= Len(s)
           /\ Cardinality(RangeOf(s)) \in Nat
           /\ Distinct(s) => Cardinality(RangeOf(s)) = Len(s)
<1>1. Len(s) \in Nat /\ DOMAIN s = 1 .. Len(s)
  BY ListFacts
<1>2. IsFiniteSet(DOMAIN s) /\ Cardinality(DOMAIN s) = Len(s)
  BY <1>1, FS_Interval
<1>3. s \in Surjection(DOMAIN s, RangeOf(s))
  BY LenProperties DEF Surjection, RangeOf
<1>4. Distinct(s) => s \in Injection(DOMAIN s, RangeOf(s))
  BY <1>3 DEF Injection, IsInjective, Surjection, Distinct
<1> QED
  BY <1>1, <1>2, <1>3, <1>4, FS_Surjection, FS_CardinalityType

LEMMA SinceFinite ==
    ASSUME NEW S, NEW h \in Seq(S), NEW j \in DOMAIN h
    PROVE  IsFiniteSet(Since(h, j)) /\ Cardinality(Since(h, j)) \in Nat
<1>1. Len(h) \in Nat /\ j \in Nat
  BY ListFacts
<1>2. IsFiniteSet(j .. Len(h))
  BY <1>1, FS_Interval
<1>3. [l \in j .. Len(h) |-> h[l]] \in Surjection(j .. Len(h), Since(h, j))
  BY DEF Surjection, Since
<1> QED
  BY <1>2, <1>3, FS_Surjection, FS_CardinalityType

\* What is listed from a position on is listed.
LEMMA FromWithin ==
    ASSUME NEW S, NEW s \in Seq(S), NEW i \in DOMAIN s
    PROVE  From(s, i) \subseteq RangeOf(s)
<1> QED
  BY ListFacts DEF From, RangeOf

\* A list in the order of last use, of at most Cap keys, holds the last Cap
\* different keys of the history.
LEMMA RecentIsLastKeys ==
    ASSUME NEW h \in Seq(Keys), NEW s \in Seq(Keys), Recent(h, s)
    PROVE  RangeOf(s) = LastKeys(h, Cap)
<1>0. /\ Len(s) \in Nat /\ DOMAIN s = 1 .. Len(s)
      /\ Len(h) \in Nat /\ DOMAIN h = 1 .. Len(h) /\ Cap \in Nat
  BY ListFacts, RuntimeAssumption
<1>1. ASSUME NEW i \in DOMAIN s
      PROVE  s[i] \in LastKeys(h, Cap)
  <2>1. PICK j \in DOMAIN h : h[j] = s[i] /\ IsLast(h, j) /\ Since(h, j) = From(s, i)
    BY DEF Recent, InOrder
  <2>2. Cardinality(Since(h, j)) <= Len(s)
    <3>1. /\ IsFiniteSet(RangeOf(s)) /\ Cardinality(RangeOf(s)) <= Len(s)
          /\ Cardinality(RangeOf(s)) \in Nat
      BY RangeCardinality
    <3>2. Since(h, j) \in SUBSET RangeOf(s)
      BY <2>1, FromWithin
    <3>3. /\ Cardinality(Since(h, j)) <= Cardinality(RangeOf(s))
          /\ Cardinality(Since(h, j)) \in Nat
      BY <3>1, <3>2, FS_Subset, FS_CardinalityType
    <3> QED
      BY <3>1, <3>3, <1>0
  <2>3. Cardinality(Since(h, j)) <= Cap
    BY <1>0, <2>2, SinceFinite DEF Recent
  <2> QED
    BY <2>1, <2>3 DEF LastKeys, IsLast, Since
<1>2. ASSUME NEW j \in DOMAIN h, Cardinality(Since(h, j)) <= Cap, h[j] \notin RangeOf(s)
      PROVE  FALSE
  <2>1. Len(s) = Cap /\ RangeOf(s) \subseteq Since(h, j)
    BY <1>2 DEF Recent, PushedOut
  <2>2. h[j] \in Since(h, j)
    BY <1>0 DEF Since
  <2>3. IsFiniteSet(Since(h, j))
    BY SinceFinite
  <2>4. IsFiniteSet(RangeOf(s)) /\ Cardinality(RangeOf(s)) = Cap
    BY <2>1, RangeCardinality DEF Recent
  <2>5. Cardinality(RangeOf(s) \cup {h[j]}) = Cap + 1
    BY <1>2, <2>4, FS_AddElement
  <2>6. Cardinality(RangeOf(s) \cup {h[j]}) <= Cardinality(Since(h, j))
    BY <2>1, <2>2, <2>3, FS_Subset
  <2>7. Cardinality(Since(h, j)) \in Nat
    BY <2>3, FS_CardinalityType
  <2> QED
    BY <1>0, <1>2, <2>5, <2>6, <2>7
<1>3. RangeOf(s) \subseteq LastKeys(h, Cap)
  BY <1>1 DEF RangeOf
<1>4. LastKeys(h, Cap) \subseteq RangeOf(s)
  BY <1>2 DEF LastKeys, Since
<1> QED
  BY <1>3, <1>4

-----------------------------------------------------------------------------
(* A call more: what hits and misses do to the list. *)

LEMMA CallAdded ==
    ASSUME NEW S, NEW h \in Seq(S), NEW k \in S
    PROVE  /\ Append(h, k) \in Seq(S)
           /\ Len(h) \in Nat /\ DOMAIN h = 1 .. Len(h)
           /\ DOMAIN Append(h, k) = 1 .. Len(h) + 1
           /\ Append(h, k)[Len(h) + 1] = k
           /\ Since(Append(h, k), Len(h) + 1) = {k}
           /\ IsLast(Append(h, k), Len(h) + 1)
           /\ \A j \in DOMAIN h :
                 /\ Append(h, k)[j] = h[j]
                 /\ Since(Append(h, k), j) = Since(h, j) \cup {k}
                 /\ IsLast(h, j) /\ h[j] # k => IsLast(Append(h, k), j)
<1>1. /\ Append(h, k) \in Seq(S) /\ Len(Append(h, k)) = Len(h) + 1
      /\ \A i \in 1 .. Len(h) : Append(h, k)[i] = h[i]
      /\ Append(h, k)[Len(h) + 1] = k
  BY AppendProperties
<1>2. /\ Len(h) \in Nat /\ DOMAIN h = 1 .. Len(h)
      /\ DOMAIN Append(h, k) = 1 .. Len(h) + 1
  BY <1>1, ListFacts
<1>3. Since(Append(h, k), Len(h) + 1) = {k} /\ IsLast(Append(h, k), Len(h) + 1)
  BY <1>1, <1>2 DEF Since, IsLast
<1>4. ASSUME NEW j \in DOMAIN h
      PROVE  /\ Since(Append(h, k), j) = Since(h, j) \cup {k}
             /\ IsLast(h, j) /\ h[j] # k => IsLast(Append(h, k), j)
  <2>1. j .. Len(h) + 1 = (j .. Len(h)) \cup {Len(h) + 1}
    BY <1>2
  <2>2. \A l \in j .. Len(h) : Append(h, k)[l] = h[l]
    BY <1>1, <1>2
  <2>3. Since(Append(h, k), j) = Since(h, j) \cup {k}
    BY <1>1, <2>1, <2>2 DEF Since
  <2>4. IsLast(h, j) /\ h[j] # k => IsLast(Append(h, k), j)
    BY <1>1, <1>2 DEF IsLast
  <2> QED
    BY <2>3, <2>4
<1> QED
  BY <1>1, <1>2, <1>3, <1>4

\* A hit moves its key to the back.
LEMMA Moved ==
    ASSUME NEW s \in Seq(Keys), NEW k \in RangeOf(s), Distinct(s)
    PROVE  LET w == Append(WithoutKey(s, k), k)
               p == Place(s, k)
           IN  /\ w \in Seq(Keys) /\ Len(w) = Len(s)
               /\ p \in DOMAIN s /\ s[p] = k
               /\ w[Len(s)] = k
               /\ \A i \in 1 .. Len(s) - 1 :
                     (i < p => w[i] = s[i]) /\ (i >= p => w[i] = s[i + 1])
<1> DEFINE p == Place(s, k)
           v == WithoutKey(s, k)
           w == Append(v, k)
<1>1. Len(s) \in Nat /\ DOMAIN s = 1 .. Len(s) /\ \A i \in DOMAIN s : s[i] \in Keys
  BY ListFacts
<1>2. k \in Keys
  BY ListFacts
<1>3. \E i \in DOMAIN s : s[i] = k /\ \A j \in 1 .. i - 1 : s[j] # k
  BY <1>1 DEF RangeOf, Distinct
<1>4. p \in DOMAIN s /\ s[p] = k
  BY <1>3 DEF Place
<1>5. Len(s) - 1 \in Nat
  BY <1>1, <1>4
<1>6. v = [i \in 1 .. Len(s) - 1 |-> IF i < p THEN s[i] ELSE s[i + 1]]
  BY DEF WithoutKey
<1>7. \A i \in 1 .. Len(s) - 1 : (IF i < p THEN s[i] ELSE s[i + 1]) \in Keys
  BY <1>1
<1> HIDE DEF p, v, w
<1>8. v \in [1 .. Len(s) - 1 -> Keys]
  BY <1>6, <1>7
<1>9. v \in Seq(Keys)
  BY <1>5, <1>8, SeqDef
<1>10. Len(v) = Len(s) - 1
  BY <1>5, <1>8, <1>9, LenProperties
<1>12. /\ w \in Seq(Keys) /\ Len(w) = Len(v) + 1
       /\ \A i \in 1 .. Len(v) : w[i] = v[i]
       /\ w[Len(v) + 1] = k
  BY <1>2, <1>9, AppendProperties DEF w
<1>13. \A i \in 1 .. Len(s) - 1 : (i < p => w[i] = s[i]) /\ (i >= p => w[i] = s[i + 1])
  <2>1. \A i \in 1 .. Len(s) - 1 : w[i] = v[i]
    BY <1>10, <1>12
  <2>2. \A i \in 1 .. Len(s) - 1 : (i < p => v[i] = s[i]) /\ (i >= p => v[i] = s[i + 1])
    BY <1>1, <1>4, <1>6
  <2> QED
    BY <2>1, <2>2
<1>14. Len(w) = Len(s) /\ w[Len(s)] = k
  BY <1>1, <1>10, <1>12
<1> QED
  BY <1>4, <1>12, <1>13, <1>14 DEF p, v, w

LEMMA HitKeepsRecent ==
    ASSUME NEW h \in Seq(Keys), NEW s \in Seq(Keys), NEW k \in RangeOf(s), Recent(h, s)
    PROVE  LET w == Append(WithoutKey(s, k), k)
           IN  w \in Seq(Keys) /\ RangeOf(w) = RangeOf(s) /\ Recent(Append(h, k), w)
<1> DEFINE w == Append(WithoutKey(s, k), k)
           p == Place(s, k)
           g == Append(h, k)
<1>4. Distinct(s) /\ Len(s) <= Cap /\ InOrder(h, s) /\ PushedOut(h, s)
  BY DEF Recent
<1>k. k \in Keys
  BY ListFacts
<1>3. /\ g[Len(h) + 1] = k /\ Since(g, Len(h) + 1) = {k} /\ IsLast(g, Len(h) + 1)
      /\ \A j \in DOMAIN h :
            /\ g[j] = h[j] /\ Since(g, j) = Since(h, j) \cup {k}
            /\ IsLast(h, j) /\ h[j] # k => IsLast(g, j)
  BY <1>k, CallAdded
<1>2. /\ Len(s) \in Nat /\ DOMAIN s = 1 .. Len(s)
      /\ Len(h) \in Nat /\ DOMAIN h = 1 .. Len(h) /\ DOMAIN g = 1 .. Len(h) + 1
  BY <1>k, ListFacts, CallAdded
<1>1. /\ w \in Seq(Keys) /\ Len(w) = Len(s)
      /\ p \in DOMAIN s /\ s[p] = k
      /\ w[Len(s)] = k
      /\ \A i \in 1 .. Len(s) - 1 : (i < p => w[i] = s[i]) /\ (i >= p => w[i] = s[i + 1])
  BY <1>4, Moved
<1>w. DOMAIN w = 1 .. Len(s)
  BY <1>1, ListFacts
<1> HIDE DEF w, p, g
\* Where what w lists at i was listed in s, and the other way round.
<1>q. ASSUME NEW i \in 1 .. Len(s)
      PROVE  \E m \in 1 .. Len(s) :
                /\ w[i] = s[m]
                /\ \/ i = Len(s) /\ m = p
                   \/ i < Len(s) /\ i < p /\ m = i
                   \/ i < Len(s) /\ i >= p /\ m = i + 1
  <2>1. CASE i = Len(s)
    BY <1>1, <1>2, <2>1
  <2>2. CASE i < Len(s) /\ i < p
    BY <1>1, <1>2, <2>2
  <2>3. CASE i < Len(s) /\ i >= p
    <3>1. i \in 1 .. Len(s) - 1 /\ i + 1 \in 1 .. Len(s)
      BY <1>2, <2>3
    <3>2. w[i] = s[i + 1]
      BY <1>1, <2>3, <3>1
    <3> QED
      BY <2>3, <3>1, <3>2
  <2> QED
    BY <1>1, <1>2, <2>1, <2>2, <2>3
<1>r. ASSUME NEW n \in 1 .. Len(s), n > p
      PROVE  n - 1 \in 1 .. Len(s) /\ w[n - 1] = s[n]
  <2>1. n - 1 \in 1 .. Len(s) - 1 /\ n - 1 >= p /\ (n - 1) + 1 = n
    BY <1>1, <1>2, <1>r
  <2>2. w[n - 1] = s[(n - 1) + 1]
    BY <1>1, <2>1
  <2> QED
    BY <1>2, <2>1, <2>2
<1>5. Distinct(w)
  <2> SUFFICES ASSUME NEW i \in 1 .. Len(s), NEW j \in 1 .. Len(s), w[i] = w[j]
               PROVE  i = j
    BY <1>w DEF Distinct
  <2>1. PICK m \in 1 .. Len(s) :
           /\ w[i] = s[m]
           /\ \/ i = Len(s) /\ m = p
              \/ i < Len(s) /\ i < p /\ m = i
              \/ i < Len(s) /\ i >= p /\ m = i + 1
    BY <1>q
  <2>2. PICK n \in 1 .. Len(s) :
           /\ w[j] = s[n]
           /\ \/ j = Len(s) /\ n = p
              \/ j < Len(s) /\ j < p /\ n = j
              \/ j < Len(s) /\ j >= p /\ n = j + 1
    BY <1>q
  <2>3. m = n
    BY <1>2, <1>4, <2>1, <2>2 DEF Distinct
  <2> QED
    BY <1>1, <1>2, <2>1, <2>2, <2>3
<1>6. \A i \in 1 .. Len(s) : w[i] \in RangeOf(s)
  BY <1>q, <1>2 DEF RangeOf
<1>7. ASSUME NEW i \in 1 .. Len(s)
      PROVE  \E n \in 1 .. Len(s) : w[n] = s[i]
  <2>1. CASE i < p
    BY <1>1, <1>2, <1>w, <2>1
  <2>2. CASE i = p
    BY <1>1, <1>2, <1>w, <2>2
  <2>3. CASE i > p
    BY <1>r, <2>3
  <2> QED
    BY <1>1, <1>2, <1>w, <2>1, <2>2, <2>3
<1>8. RangeOf(w) = RangeOf(s)
  BY <1>2, <1>w, <1>6, <1>7 DEF RangeOf
<1>9. ASSUME NEW i \in 1 .. Len(s), i < Len(s),
             NEW m \in 1 .. Len(s), m = IF i < p THEN i ELSE i + 1
      PROVE  From(w, i) = From(s, m) \cup {k}
  <2>1. ASSUME NEW n \in i .. Len(s)
        PROVE  w[n] \in From(s, m) \cup {k}
    BY <1>1, <1>2, <1>w, <1>9 DEF From
  <2>2. ASSUME NEW n \in m .. Len(s)
        PROVE  \E l \in i .. Len(s) : w[l] = s[n]
    <3>1. CASE n < p
      BY <1>1, <1>2, <1>w, <1>9, <3>1
    <3>2. CASE n = p
      BY <1>1, <1>2, <1>w, <1>9, <3>2
    <3>3. CASE n > p
      <4>1. n \in 1 .. Len(s) /\ n - 1 \in i .. Len(s)
        BY <1>1, <1>2, <1>9, <3>3
      <4> QED
        BY <1>r, <3>3, <4>1
    <3> QED
      BY <1>1, <1>2, <1>w, <3>1, <3>2, <3>3
  <2>3. \E l \in i .. Len(s) : w[l] = k
    BY <1>1, <1>2
  <2>4. From(w, i) = {w[n] : n \in i .. Len(s)} /\ From(s, m) = {s[n] : n \in m .. Len(s)}
    BY <1>1 DEF From
  <2>5. From(w, i) \subseteq From(s, m) \cup {k}
    BY <2>1, <2>4
  <2>6. From(s, m) \cup {k} \subseteq From(w, i)
    BY <2>2, <2>3, <2>4
  <2> QED
    BY <2>5, <2>6
<1>10. ASSUME NEW i \in 1 .. Len(s)
       PROVE  \E j \in DOMAIN g :
                 g[j] = w[i] /\ IsLast(g, j) /\ Since(g, j) = From(w, i)
  <2>1. CASE i = Len(s)
    <3>1. From(w, i) = {k} /\ w[i] = k
      BY <1>1, <1>2, <1>w, <2>1 DEF From
    <3> QED
      BY <1>2, <1>3, <3>1
  <2>2. CASE i < Len(s)
    <3>1. PICK m \in 1 .. Len(s) : m = IF i < p THEN i ELSE i + 1
      BY <1>2, <2>2
    <3>2. w[i] = s[m] /\ m # p
      BY <1>1, <1>2, <1>w, <2>2, <3>1
    <3>3. PICK j \in DOMAIN h : h[j] = s[m] /\ IsLast(h, j) /\ Since(h, j) = From(s, m)
      BY <1>2, <1>4 DEF InOrder
    <3>4. h[j] # k
      BY <1>1, <1>2, <1>w, <1>4, <3>2, <3>3 DEF Distinct
    <3>5. Since(g, j) = From(w, i)
      BY <1>3, <1>9, <2>2, <3>1, <3>3
    <3>6. j \in DOMAIN g /\ g[j] = w[i] /\ IsLast(g, j)
      BY <1>2, <1>3, <3>2, <3>3, <3>4
    <3> QED
      BY <3>5, <3>6
  <2>3. i = Len(s) \/ i < Len(s)
    <3>1. Len(s) \in Nat
      BY <1>2
    <3> QED
      BY <3>1
  <2> QED
    BY <2>1, <2>2, <2>3
<1>11. ASSUME NEW j \in DOMAIN g, g[j] \notin RangeOf(w)
       PROVE  Len(w) = Cap /\ RangeOf(w) \subseteq Since(g, j)
  <2>1. j \in DOMAIN h
    BY <1>2, <1>3, <1>8, <1>11
  <2> QED
    BY <1>1, <1>3, <1>4, <1>8, <1>11, <2>1 DEF PushedOut
<1>12. Recent(g, w)
  BY <1>1, <1>2, <1>w, <1>4, <1>5, <1>10, <1>11 DEF Recent, InOrder, PushedOut
<1> QED
  BY <1>1, <1>8, <1>12 DEF w, g

\* A miss puts its key at the back and drops the one in front when the list
\* is full.
LEMMA Added ==
    ASSUME NEW s \in Seq(Keys), NEW k \in Keys, Len(s) <= Cap
    PROVE  LET w == Newest(Append(s, k))
           IN  /\ w \in Seq(Keys)
               /\ Len(s) < Cap => w = Append(s, k)
               /\ Len(s) = Cap => /\ Len(w) = Len(s) /\ w[Len(s)] = k
                                  /\ \A i \in 1 .. Len(s) - 1 : w[i] = s[i + 1]
<1> DEFINE a == Append(s, k)
           w == Newest(a)
<1>1. Len(s) \in Nat /\ Cap \in Nat /\ Cap > 0
  BY ListFacts, RuntimeAssumption
<1>2. /\ a \in Seq(Keys) /\ Len(a) = Len(s) + 1
      /\ \A i \in 1 .. Len(s) : a[i] = s[i]
      /\ a[Len(s) + 1] = k
  BY AppendProperties
<1> HIDE DEF a
<1>n. w = SubSeq(a, IF Len(a) > Cap THEN Len(a) - Cap + 1 ELSE 1, Len(a))
  BY DEF Newest
<1>3. CASE Len(s) < Cap
  <2>0. (IF Len(a) > Cap THEN Len(a) - Cap + 1 ELSE 1) = 1
    BY <1>1, <1>2, <1>3
  <2>1. w = SubSeq(a, 1, Len(a))
    BY <1>n, <2>0
  <2> QED
    BY <1>1, <1>2, <1>3, <2>1, SubSeqFull DEF a
<1>4. CASE Len(s) = Cap
  <2>0. (IF Len(a) > Cap THEN Len(a) - Cap + 1 ELSE 1) = 2
    BY <1>1, <1>2, <1>4
  <2>1. w = SubSeq(a, 2, Len(s) + 1)
    BY <1>n, <1>2, <2>0
  <2>2. \A i \in 2 .. Len(s) + 1 : a[i] \in Keys
    BY <1>1, <1>2, ListFacts
  <2>3. /\ w \in Seq(Keys) /\ Len(w) = Len(s)
        /\ \A i \in 1 .. Len(s) : w[i] = a[2 + i - 1]
    <3>1. SubSeq(a, 2, Len(s) + 1) \in Seq(Keys)
      BY <1>1, <2>2, SubSeqProperties
    <3>2. Len(SubSeq(a, 2, Len(s) + 1)) = Len(s)
      BY <1>1, <1>4, <2>2, SubSeqProperties
    <3>3. (Len(s) + 1) - 2 + 1 = Len(s)
      BY <1>1
    <3>4. \A i \in 1 .. (Len(s) + 1) - 2 + 1 : SubSeq(a, 2, Len(s) + 1)[i] = a[2 + i - 1]
      BY <1>1, <2>2, SubSeqProperties
    <3> QED
      BY <2>1, <3>1, <3>2, <3>3, <3>4
  <2>4. w[Len(s)] = k
    <3>1. Len(s) \in 1 .. Len(s) /\ 2 + Len(s) - 1 = Len(s) + 1
      BY <1>1, <1>4
    <3> QED
      BY <1>2, <2>3, <3>1
  <2>5. ASSUME NEW i \in 1 .. Len(s) - 1
        PROVE  w[i] = s[i + 1]
    <3>1. i \in 1 .. Len(s) /\ 2 + i - 1 = i + 1 /\ i + 1 \in 1 .. Len(s)
      BY <1>1
    <3> QED
      BY <1>2, <2>3, <3>1
  <2> QED
    BY <1>1, <1>4, <2>3, <2>4, <2>5 DEF a
<1> QED
  BY <1>1, <1>3, <1>4 DEF a

LEMMA MissKeepsRecent ==
    ASSUME NEW h \in Seq(Keys), NEW s \in Seq(Keys), NEW k \in Keys \ RangeOf(s),
           Recent(h, s)
    PROVE  LET w == Newest(Append(s, k))
           IN  /\ w \in Seq(Keys) /\ k \in RangeOf(w) /\ RangeOf(w) \subseteq RangeOf(s) \cup {k}
               /\ Len(w) = Cap \/ RangeOf(w) = RangeOf(s) \cup {k}
               /\ Recent(Append(h, k), w)
<1> DEFINE w == Newest(Append(s, k))
           g == Append(h, k)
<1>1. Distinct(s) /\ Len(s) <= Cap /\ InOrder(h, s) /\ PushedOut(h, s)
  BY DEF Recent
<1>a. Len(s) \in Nat /\ Cap \in Nat /\ Cap > 0
  BY ListFacts, RuntimeAssumption
<1>b. DOMAIN s = 1 .. Len(s) /\ k \in Keys
  BY ListFacts
<1>c. Len(s) < Cap \/ Len(s) = Cap
  <2>1. Len(s) <= Cap
    BY <1>1
  <2> QED
    BY <1>a, <2>1
<1>3. /\ g[Len(h) + 1] = k /\ Since(g, Len(h) + 1) = {k} /\ IsLast(g, Len(h) + 1)
      /\ \A j \in DOMAIN h :
            /\ g[j] = h[j] /\ Since(g, j) = Since(h, j) \cup {k}
            /\ IsLast(h, j) /\ h[j] # k => IsLast(g, j)
  BY <1>a, <1>b, CallAdded
<1>4. Len(h) \in Nat /\ DOMAIN h = 1 .. Len(h) /\ DOMAIN g = 1 .. Len(h) + 1
  BY <1>a, <1>b, CallAdded
<1>5. /\ w \in Seq(Keys)
      /\ Len(s) < Cap => w = Append(s, k)
      /\ Len(s) = Cap => /\ Len(w) = Len(s) /\ w[Len(s)] = k
                         /\ \A i \in 1 .. Len(s) - 1 : w[i] = s[i + 1]
  BY <1>1, <1>a, <1>b, Added
<1> HIDE DEF w, g
\* Every place of the new list is the last one, with the new key, or one of
\* a key of the old list from which on the old keys follow.
<1>6. /\ Len(w) \in Nat /\ DOMAIN w = 1 .. Len(w) /\ Len(w) > 0 /\ Len(w) <= Cap
      /\ w[Len(w)] = k
      /\ \E d \in {0, 1} :
            /\ d = 0 => Len(s) < Cap
            /\ d = 1 => Len(s) = Cap
            /\ Len(w) = Len(s) + 1 - d
            /\ \A i \in 1 .. Len(w) - 1 : i + d \in 1 .. Len(s) /\ w[i] = s[i + d]
  <2>1. CASE Len(s) < Cap
    <3>1. w = Append(s, k)
      BY <1>5, <2>1
    <3>2. /\ Len(w) = Len(s) + 1 /\ w[Len(s) + 1] = k
          /\ \A i \in 1 .. Len(s) : w[i] = s[i]
      BY <1>a, <1>b, <3>1, AppendProperties
    <3>3. /\ Len(w) \in Nat /\ DOMAIN w = 1 .. Len(w) /\ Len(w) > 0 /\ Len(w) <= Cap
          /\ w[Len(w)] = k
      <4>1. Len(w) \in Nat /\ DOMAIN w = 1 .. Len(w)
        BY <1>5, ListFacts
      <4> QED
        BY <1>a, <2>1, <3>2, <4>1
    <3>4. \A i \in 1 .. Len(w) - 1 : i + 0 \in 1 .. Len(s) /\ w[i] = s[i + 0]
      BY <1>a, <1>b, <3>2
    <3>5. Len(w) = Len(s) + 1 - 0
      BY <1>a, <1>b, <3>2
    <3> QED
      BY <2>1, <3>3, <3>4, <3>5
  <2>2. CASE Len(s) = Cap
    <3>1. /\ Len(w) \in Nat /\ DOMAIN w = 1 .. Len(w) /\ Len(w) > 0 /\ Len(w) <= Cap
          /\ w[Len(w)] = k
      BY <1>a, <1>b, <1>5, <2>2, ListFacts
    <3>2. \A i \in 1 .. Len(w) - 1 : i + 1 \in 1 .. Len(s) /\ w[i] = s[i + 1]
      BY <1>a, <1>b, <1>5, <2>2
    <3>3. Len(w) = Len(s) + 1 - 1
      BY <1>a, <1>b, <1>5, <2>2
    <3> QED
      BY <2>2, <3>1, <3>2, <3>3
  <2> QED
    BY <1>c, <2>1, <2>2
<1>7. PICK d \in {0, 1} :
         /\ d = 0 => Len(s) < Cap
         /\ d = 1 => Len(s) = Cap
         /\ Len(w) = Len(s) + 1 - d
         /\ \A i \in 1 .. Len(w) - 1 : i + d \in 1 .. Len(s) /\ w[i] = s[i + d]
  BY <1>6
<1>e. w[Len(w)] = k /\ DOMAIN w = 1 .. Len(w)
  BY <1>6
<1>d. (d = 0 /\ Len(s) < Cap) \/ (d = 1 /\ Len(s) = Cap)
  BY <1>7
<1>l. Len(w) = Len(s) + 1 - d /\ Len(w) \in Nat /\ Len(w) > 0
  BY <1>6, <1>7
<1>8. k \in RangeOf(w) /\ RangeOf(w) \subseteq RangeOf(s) \cup {k}
  <2>1. ASSUME NEW i \in 1 .. Len(w)
        PROVE  w[i] \in RangeOf(s) \cup {k}
    <3>1. i = Len(w) \/ i \in 1 .. Len(w) - 1
      BY <1>6
    <3> QED
      BY <1>a, <1>b, <1>6, <1>7, <3>1 DEF RangeOf
  <2>2. Len(w) \in DOMAIN w
    BY <1>6
  <2> QED
    BY <1>6, <2>1, <2>2 DEF RangeOf
<1>9. Distinct(w)
  <2> SUFFICES ASSUME NEW i \in 1 .. Len(w), NEW j \in 1 .. Len(w), w[i] = w[j], i < j
               PROVE  FALSE
    BY <1>6 DEF Distinct
  <2>1. i \in 1 .. Len(w) - 1 /\ i + d \in 1 .. Len(s) /\ w[i] = s[i + d]
    BY <1>6, <1>7
  <2>2. CASE j = Len(w)
    BY <1>a, <1>b, <1>6, <2>1, <2>2 DEF RangeOf
  <2>3. CASE j < Len(w)
    <3>1. j + d \in 1 .. Len(s) /\ w[j] = s[j + d]
      BY <1>6, <1>7, <2>3
    <3>2. i + d = j + d
      BY <1>1, <1>a, <1>b, <2>1, <3>1 DEF Distinct
    <3> QED
      BY <3>2, <1>6
  <2> QED
    BY <1>6, <2>2, <2>3
<1>10. ASSUME NEW i \in 1 .. Len(w) - 1
       PROVE  From(w, i) = From(s, i + d) \cup {k}
  <2>1. From(w, i) = {w[n] : n \in i .. Len(w)}
        /\ From(s, i + d) = {s[n] : n \in i + d .. Len(s)}
    BY DEF From
  <2>2. ASSUME NEW n \in i .. Len(w)
        PROVE  w[n] \in From(s, i + d) \cup {k}
    <3>1. n = Len(w) \/ (n \in 1 .. Len(w) - 1 /\ n + d \in i + d .. Len(s))
      BY <1>a, <1>d, <1>l
    <3> QED
      BY <1>6, <1>7, <2>1, <3>1
  <2>3. ASSUME NEW n \in i + d .. Len(s)
        PROVE  \E l \in i .. Len(w) : w[l] = s[n]
    <3>1. n - d \in i .. Len(w) /\ n - d \in 1 .. Len(w) - 1 /\ (n - d) + d = n
      BY <1>a, <1>d, <1>l
    <3> QED
      BY <1>7, <3>1
  <2>4. Len(w) \in i .. Len(w)
    BY <1>6
  <2>5. From(w, i) \subseteq From(s, i + d) \cup {k}
    BY <2>1, <2>2
  <2>6. From(s, i + d) \subseteq From(w, i) /\ k \in From(w, i)
    BY <1>e, <2>1, <2>3, <2>4
  <2> QED
    BY <2>5, <2>6
<1>11. InOrder(g, w)
  <2> SUFFICES ASSUME NEW i \in 1 .. Len(w)
               PROVE  \E j \in DOMAIN g :
                         g[j] = w[i] /\ IsLast(g, j) /\ Since(g, j) = From(w, i)
    BY <1>6 DEF InOrder
  <2>1. CASE i = Len(w)
    <3>1. i .. Len(w) = {Len(w)}
      BY <1>6, <2>1
    <3>2. From(w, i) = {k} /\ w[i] = k
      BY <1>6, <2>1, <3>1 DEF From
    <3>3. Len(h) + 1 \in DOMAIN g
      BY <1>4
    <3> QED
      BY <1>3, <3>2, <3>3
  <2>2. CASE i \in 1 .. Len(w) - 1
    <3>1. i + d \in DOMAIN s /\ w[i] = s[i + d]
      BY <1>a, <1>b, <1>7, <2>2
    <3>2. PICK j \in DOMAIN h :
             h[j] = s[i + d] /\ IsLast(h, j) /\ Since(h, j) = From(s, i + d)
      BY <1>1, <3>1 DEF InOrder
    <3>3. h[j] # k
      BY <3>1, <3>2 DEF RangeOf
    <3>4. j \in DOMAIN g /\ g[j] = w[i] /\ IsLast(g, j)
      BY <1>3, <1>4, <3>1, <3>2, <3>3
    <3>5. Since(g, j) = From(w, i)
      BY <1>3, <1>10, <2>2, <3>2
    <3> QED
      BY <3>4, <3>5
  <2>3. i = Len(w) \/ i \in 1 .. Len(w) - 1
    BY <1>6
  <2> QED
    BY <2>1, <2>2, <2>3
<1>12. PushedOut(g, w)
  <2> SUFFICES ASSUME NEW j \in DOMAIN g, g[j] \notin RangeOf(w)
               PROVE  Len(w) = Cap /\ RangeOf(w) \subseteq Since(g, j)
    BY DEF PushedOut
  <2>1. j \in DOMAIN h /\ g[j] = h[j] /\ Since(g, j) = Since(h, j) \cup {k}
    BY <1>3, <1>4, <1>8
  <2>2. CASE Len(s) < Cap
    <3>1. h[j] \in RangeOf(s)
      <4>1. Len(s) # Cap
        BY <1>a, <2>2
      <4> QED
        BY <1>1, <2>1, <4>1 DEF PushedOut
    <3>2. RangeOf(s) \subseteq RangeOf(w)
      <4>1. d = 0
        BY <1>a, <1>d, <2>2
      <4>2. ASSUME NEW i \in 1 .. Len(s)
            PROVE  i \in 1 .. Len(w) /\ w[i] = s[i]
        <5>1. i \in 1 .. Len(w) - 1 /\ i + d = i
          BY <1>a, <1>b, <1>7, <4>1
        <5> QED
          BY <1>6, <1>7, <5>1
      <4> QED
        BY <1>b, <1>e, <4>2 DEF RangeOf
    <3> QED
      BY <2>1, <3>1, <3>2
  <2>3. CASE Len(s) = Cap
    <3>1. Len(w) = Cap
      BY <1>5, <2>3
    <3>2. RangeOf(s) \subseteq Since(h, j)
      <4>1. CASE h[j] \notin RangeOf(s)
        BY <1>1, <2>1, <4>1 DEF PushedOut
      <4>2. CASE h[j] \in RangeOf(s)
        <5>1. PICK i \in 1 .. Len(s) : s[i] = h[j]
          BY <1>a, <1>b, <4>2 DEF RangeOf
        <5>2. i = 1
          <6>1. SUFFICES ASSUME i # 1
                         PROVE  FALSE
            OBVIOUS
          <6>2. i - 1 \in 1 .. Len(w) - 1 /\ (i - 1) + d = i /\ i - 1 \in 1 .. Len(w)
            BY <1>a, <1>b, <1>7, <2>3, <6>1
          <6>3. w[i - 1] = s[i]
            BY <1>7, <6>2
          <6> QED
            BY <1>6, <2>1, <5>1, <6>2, <6>3 DEF RangeOf
        <5>3. PICK l \in DOMAIN h :
                 h[l] = s[1] /\ IsLast(h, l) /\ Since(h, l) = From(s, 1)
          BY <1>1, <1>a, <1>b, <5>2 DEF InOrder
        <5>4. j <= l
          BY <1>4, <2>1, <5>1, <5>2, <5>3 DEF IsLast
        <5>5. Since(h, l) \subseteq Since(h, j)
          <6>1. \A n \in l .. Len(h) : n \in j .. Len(h)
            BY <1>4, <2>1, <5>4
          <6> QED
            BY <6>1 DEF Since
        <5>6. From(s, 1) = RangeOf(s)
          BY <1>a, <1>b DEF From, RangeOf
        <5> QED
          BY <5>3, <5>5, <5>6
      <4> QED
        BY <4>1, <4>2
    <3> QED
      BY <1>8, <2>1, <3>1, <3>2
  <2> QED
    BY <1>c, <2>2, <2>3
<1>13. Len(w) = Cap \/ RangeOf(w) = RangeOf(s) \cup {k}
  <2>1. CASE Len(s) < Cap
    <3>1. \A i \in 1 .. Len(s) : i \in 1 .. Len(w) /\ w[i] = s[i]
      <4>1. w = Append(s, k)
        BY <1>5, <2>1
      <4>2. Len(w) = Len(s) + 1 /\ \A i \in 1 .. Len(s) : w[i] = s[i]
        BY <1>a, <1>b, <4>1, AppendProperties
      <4> QED
        BY <1>a, <1>b, <4>2
    <3>2. RangeOf(s) \subseteq RangeOf(w)
      BY <1>a, <1>b, <1>6, <3>1 DEF RangeOf
    <3> QED
      BY <1>8, <3>2
  <2>2. CASE Len(s) = Cap
    BY <1>5, <2>2
  <2> QED
    BY <1>c, <2>1, <2>2
<1>14. Recent(g, w)
  BY <1>6, <1>9, <1>11, <1>12 DEF Recent
<1> QED
  BY <1>5, <1>8, <1>13, <1>14 DEF w, g

-----------------------------------------------------------------------------
(* The steps of the threads. *)

\* A history with a call is the one without it and the call.
LEMMA CallsBefore ==
    ASSUME NEW u \in Seq(Keys), u # << >>
    PROVE  /\ SubSeq(u, 1, Len(u) - 1) \in Seq(Keys)
           /\ u = Append(SubSeq(u, 1, Len(u) - 1), u[Len(u)])
           /\ u[Len(u)] \in Keys
<1>1. PICK h \in Seq(Keys), k \in Keys : u = Append(h, k)
  BY SequenceEmptyOrAppend
<1>2. Len(u) = Len(h) + 1 /\ u[Len(u)] = k /\ Len(h) \in Nat
  BY <1>1, AppendProperties, ListFacts
<1>3. SubSeq(u, 1, Len(u) - 1) \in Seq(Keys)
  <2>1. \A i \in 1 .. Len(u) - 1 : u[i] \in Keys
    BY <1>2, ListFacts
  <2> QED
    BY <1>2, <2>1, SubSeqProperties
<1>4. SubSeq(u, 1, Len(u) - 1) = h
  <2>1. \A i \in 1 .. Len(u) - 1 : u[i] \in Keys
    BY <1>2, ListFacts
  <2>2. Len(u) - 1 = Len(h) /\ (Len(u) - 1) - 1 + 1 = Len(h)
    BY <1>2
  <2>3. Len(SubSeq(u, 1, Len(u) - 1)) = Len(h)
    <3>1. Len(SubSeq(u, 1, Len(u) - 1)) = IF 1 <= Len(u) - 1 THEN (Len(u) - 1) - 1 + 1 ELSE 0
      BY <1>2, <2>1, SubSeqProperties
    <3> QED
      BY <1>2, <3>1
  <2>4. \A i \in 1 .. (Len(u) - 1) - 1 + 1 : SubSeq(u, 1, Len(u) - 1)[i] = u[1 + i - 1]
    BY <1>2, <2>1, SubSeqProperties
  <2>5. \A i \in 1 .. Len(h) : SubSeq(u, 1, Len(u) - 1)[i] = h[i]
    <3>1. \A i \in 1 .. Len(h) : u[i] = h[i]
      BY <1>1, AppendProperties
    <3> QED
      BY <1>2, <2>2, <2>4, <3>1
  <2> QED
    BY <1>3, <2>3, <2>5, SeqEqual
<1> QED
  BY <1>1, <1>2, <1>3, <1>4

\* A list just begun.
LEMMA NothingAsked == Recent(<< >>, << >>)
<1>1. Len(<< >>) = 0 /\ DOMAIN << >> = {}
  BY EmptySeq, LenProperties
<1> QED
  BY <1>1, RuntimeAssumption DEF Recent, Distinct, InOrder, PushedOut

\* A thread that goes from one place of its call to another.
LEMMA StaysAtCall ==
    ASSUME AtACall, MemoInOrder, phase \in [Threads -> Phases],
           NEW t \in Threads, phase[t] # "idle",
           NEW next \in Phases, next # "idle", GoTo(t, next),
           UNCHANGED <<key, expanded, lru, used>>
    PROVE  phase' \in [Threads -> Phases] /\ AtACall' /\ MemoInOrder'
<1>1. phase' = [phase EXCEPT ![t] = next]
  BY DEF GoTo
<1>2. \A s \in Threads : (phase'[s] = "idle") <=> (phase[s] = "idle")
  BY <1>1
<1>3. phase' \in [Threads -> Phases] /\ AtACall'
  BY <1>1, <1>2 DEF AtACall
<1>4. \A s \in Threads : Answered(s)' = Answered(s)
  BY <1>2 DEF Answered
<1> QED
  BY <1>3, <1>4 DEF MemoInOrder

\* A call that comes back: its key is the last one used.
LEMMA StoreKeeps ==
    ASSUME TypeOK, AtACall, MemoInOrder,
           NEW t \in Threads, phase[t] # "idle", NEW text \in Texts, Store(t, text)
    PROVE  /\ phase' \in [Threads -> Phases] /\ lru' \in [Threads -> Seq(Keys)]
           /\ expanded' \in [Threads -> UNION {[S -> Texts] : S \in SUBSET Keys}]
           /\ AtACall' /\ MemoInOrder'
<1> DEFINE w == Newest(Append(lru[t], key[t]))
           h == SubSeq(used[t], 1, Len(used[t]) - 1)
           memo == [k \in RangeOf(w) |-> IF k = key[t] THEN text ELSE expanded[t][k]]
<1>1. /\ phase' = [phase EXCEPT ![t] = "idle"] /\ key' = key /\ used' = used
      /\ lru' = [lru EXCEPT ![t] = w] /\ expanded' = [expanded EXCEPT ![t] = memo]
  BY DEF Store, GoTo
<1>2. /\ key[t] \in Keys /\ key[t] \notin DOMAIN expanded[t]
      /\ used[t] # << >> /\ used[t][Len(used[t])] = key[t]
  BY DEF AtACall
<1>3. DOMAIN expanded[t] = RangeOf(lru[t]) /\ Recent(h, lru[t])
  BY DEF MemoInOrder, Answered
<1>4. lru[t] \in Seq(Keys) /\ used[t] \in Seq(Keys)
  BY DEF TypeOK
<1>5. h \in Seq(Keys) /\ used[t] = Append(h, key[t])
  BY <1>2, <1>4, CallsBefore
<1>6. key[t] \in Keys \ RangeOf(lru[t])
  BY <1>2, <1>3
<1> HIDE DEF h
<1>7. /\ w \in Seq(Keys) /\ key[t] \in RangeOf(w)
      /\ RangeOf(w) \subseteq RangeOf(lru[t]) \cup {key[t]}
      /\ Recent(used[t], w)
  BY <1>3, <1>4, <1>5, <1>6, MissKeepsRecent
<1> HIDE DEF w
<1>8. phase' \in [Threads -> Phases] /\ lru' \in [Threads -> Seq(Keys)]
  BY <1>1, <1>7 DEF TypeOK, Phases
<1>9. memo \in [RangeOf(w) -> Texts] /\ RangeOf(w) \in SUBSET Keys
  <2>1. PICK S \in SUBSET Keys : expanded[t] \in [S -> Texts]
    BY DEF TypeOK
  <2>2. \A k \in RangeOf(lru[t]) : expanded[t][k] \in Texts
    BY <1>3, <2>1
  <2>3. \A k \in RangeOf(w) : (IF k = key[t] THEN text ELSE expanded[t][k]) \in Texts
    BY <1>7, <2>2
  <2>4. RangeOf(w) \in SUBSET Keys
    BY <1>7, ListFacts
  <2> QED
    BY <2>3, <2>4
<1> HIDE DEF memo
<1>10. expanded' \in [Threads -> UNION {[S -> Texts] : S \in SUBSET Keys}]
  BY <1>1, <1>9 DEF TypeOK
<1>11. \A s \in Threads \ {t} :
          phase'[s] = phase[s] /\ lru'[s] = lru[s] /\ expanded'[s] = expanded[s]
  BY <1>1 DEF TypeOK
<1>12. phase'[t] = "idle" /\ lru'[t] = w /\ expanded'[t] = memo
  BY <1>1 DEF TypeOK
<1>13. AtACall'
  BY <1>1, <1>11, <1>12 DEF AtACall
<1>14. ASSUME NEW s \in Threads
       PROVE  (DOMAIN expanded[s] = RangeOf(lru[s]) /\ Recent(Answered(s), lru[s]))'
  <2>1. CASE s = t
    BY <1>1, <1>7, <1>9, <1>12, <2>1 DEF Answered
  <2>2. CASE s # t
    <3>1. Answered(s)' = Answered(s)
      BY <1>1, <1>11, <2>2 DEF Answered
    <3> QED
      BY <1>11, <2>2, <3>1 DEF MemoInOrder
  <2> QED
    BY <2>1, <2>2
<1> QED
  BY <1>8, <1>10, <1>13, <1>14 DEF MemoInOrder

\* A call answered from the memo.
LEMMA HitKeeps ==
    ASSUME TypeOK, AtACall, MemoInOrder, NEW t \in Threads, NEW k \in Keys, Hit(t, k)
    PROVE  /\ lru' \in [Threads -> Seq(Keys)] /\ used' \in [Threads -> Seq(Keys)]
           /\ AtACall' /\ MemoInOrder'
<1> DEFINE w == Append(WithoutKey(lru[t], k), k)
<1>1. /\ phase[t] = "idle" /\ k \in DOMAIN expanded[t]
      /\ UNCHANGED <<phase, key, expanded>>
      /\ used' = [used EXCEPT ![t] = Append(used[t], k)] /\ lru' = [lru EXCEPT ![t] = w]
  BY DEF Hit, Ask
<1>2. lru[t] \in Seq(Keys) /\ used[t] \in Seq(Keys)
  BY DEF TypeOK
<1>3. k \in RangeOf(lru[t]) /\ Recent(used[t], lru[t])
  BY <1>1 DEF MemoInOrder, Answered
<1>4. /\ w \in Seq(Keys) /\ RangeOf(w) = RangeOf(lru[t])
      /\ Recent(Append(used[t], k), w)
  BY <1>2, <1>3, HitKeepsRecent
<1> HIDE DEF w
<1>5. lru' \in [Threads -> Seq(Keys)] /\ used' \in [Threads -> Seq(Keys)]
  BY <1>1, <1>2, <1>4, AppendProperties DEF TypeOK
<1>6. /\ \A s \in Threads \ {t} : lru'[s] = lru[s] /\ used'[s] = used[s]
      /\ lru'[t] = w /\ used'[t] = Append(used[t], k)
  BY <1>1 DEF TypeOK
<1>7. AtACall'
  BY <1>1, <1>6 DEF AtACall
<1>8. ASSUME NEW s \in Threads
      PROVE  (DOMAIN expanded[s] = RangeOf(lru[s]) /\ Recent(Answered(s), lru[s]))'
  <2>1. CASE s = t
    BY <1>1, <1>4, <1>6, <2>1 DEF Answered, MemoInOrder
  <2>2. CASE s # t
    BY <1>1, <1>6, <2>2 DEF Answered, MemoInOrder
  <2> QED
    BY <2>1, <2>2
<1> QED
  BY <1>5, <1>7, <1>8 DEF MemoInOrder

\* A call that is not.
LEMMA MissKeeps ==
    ASSUME TypeOK, AtACall, MemoInOrder, NEW t \in Threads, NEW k \in Keys, Miss(t, k)
    PROVE  /\ phase' \in [Threads -> Phases] /\ key' \in [Threads -> Keys \cup {NoKey}]
           /\ used' \in [Threads -> Seq(Keys)]
           /\ AtACall' /\ MemoInOrder'
<1>1. /\ phase[t] = "idle" /\ k \notin DOMAIN expanded[t] /\ UNCHANGED <<expanded, lru>>
      /\ used' = [used EXCEPT ![t] = Append(used[t], k)]
      /\ phase' = [phase EXCEPT ![t] = "runtime"] /\ key' = [key EXCEPT ![t] = k]
  BY DEF Miss, Ask, GoTo
<1>2. used[t] \in Seq(Keys)
  BY DEF TypeOK
<1> DEFINE u == Append(used[t], k)
<1>3. u \in Seq(Keys) /\ u # << >> /\ Len(u) = Len(used[t]) + 1 /\ u[Len(u)] = k
  BY <1>2, AppendProperties
<1>4. SubSeq(u, 1, Len(u) - 1) = used[t]
  <2>1. SubSeq(u, 1, Len(u) - 1) \in Seq(Keys) /\ u = Append(SubSeq(u, 1, Len(u) - 1), u[Len(u)])
    BY <1>3, CallsBefore
  <2> QED
    BY <1>2, <1>3, <2>1, AppendInjective
<1> HIDE DEF u
<1>5. /\ phase' \in [Threads -> Phases] /\ key' \in [Threads -> Keys \cup {NoKey}]
      /\ used' \in [Threads -> Seq(Keys)]
  BY <1>1, <1>3 DEF TypeOK, Phases, u
<1>6. /\ \A s \in Threads \ {t} :
            phase'[s] = phase[s] /\ key'[s] = key[s] /\ used'[s] = used[s]
      /\ phase'[t] = "runtime" /\ key'[t] = k /\ used'[t] = u
  BY <1>1 DEF TypeOK, u
<1>7. AtACall'
  BY <1>1, <1>3, <1>6 DEF AtACall
<1>8. ASSUME NEW s \in Threads
      PROVE  Answered(s)' = Answered(s)
  <2>1. CASE s = t
    BY <1>1, <1>4, <1>6, <2>1 DEF Answered
  <2>2. CASE s # t
    BY <1>6, <2>2 DEF Answered
  <2> QED
    BY <2>1, <2>2
<1> QED
  BY <1>1, <1>5, <1>7, <1>8 DEF MemoInOrder

LEMMA NewAnalysisKeeps ==
    ASSUME TypeOK, AtACall, MemoInOrder, NEW t \in Threads, NewAnalysis(t)
    PROVE  /\ lru' \in [Threads -> Seq(Keys)] /\ used' \in [Threads -> Seq(Keys)]
           /\ expanded' \in [Threads -> UNION {[S -> Texts] : S \in SUBSET Keys}]
           /\ AtACall' /\ MemoInOrder'
<1>1. /\ phase[t] = "idle" /\ UNCHANGED <<phase, key>>
      /\ expanded' = [expanded EXCEPT ![t] = << >>]
      /\ lru' = [lru EXCEPT ![t] = << >>] /\ used' = [used EXCEPT ![t] = << >>]
  BY DEF NewAnalysis
<1>2. << >> \in Seq(Keys) /\ DOMAIN << >> = {} /\ RangeOf(<< >>) = {}
  BY EmptySeq, LenProperties DEF RangeOf
<1>3. << >> \in [{} -> Texts]
  BY <1>2
<1>4. /\ lru' \in [Threads -> Seq(Keys)] /\ used' \in [Threads -> Seq(Keys)]
      /\ expanded' \in [Threads -> UNION {[S -> Texts] : S \in SUBSET Keys}]
  BY <1>1, <1>2, <1>3 DEF TypeOK
<1>5. /\ \A s \in Threads \ {t} :
            lru'[s] = lru[s] /\ expanded'[s] = expanded[s] /\ used'[s] = used[s]
      /\ lru'[t] = << >> /\ expanded'[t] = << >> /\ used'[t] = << >>
  BY <1>1 DEF TypeOK
<1>6. AtACall'
  BY <1>1, <1>5 DEF AtACall
<1>7. ASSUME NEW s \in Threads
      PROVE  (DOMAIN expanded[s] = RangeOf(lru[s]) /\ Recent(Answered(s), lru[s]))'
  <2>1. CASE s = t
    BY <1>1, <1>2, <1>5, <2>1, NothingAsked DEF Answered
  <2>2. CASE s # t
    BY <1>1, <1>5, <2>2 DEF Answered, MemoInOrder
  <2> QED
    BY <2>1, <2>2
<1> QED
  BY <1>4, <1>6, <1>7 DEF MemoInOrder

-----------------------------------------------------------------------------
(* The tasks. *)

TasksInv == TasksAndResults /\ ContextOutlivesTask

\* A task started.
LEMMA TaskStarted ==
    ASSUME TypeOK, TasksInv, AtACall, NEW t \in Threads, StartTask(t)
    PROVE  /\ tasks' \in Seq(Tasks) /\ mine' \in [Threads -> Nat]
           /\ TasksInv' /\ (PollsItsOwn => PollsItsOwn')
<1> DEFINE task == [key |-> key[t], state |-> "queued", out |-> NoResult,
                    context |-> TRUE, node |-> TRUE, library |-> TRUE]
<1>1. /\ phase[t] = "call" /\ tasks' = Append(tasks, task) /\ UNCHANGED key
      /\ mine' = [mine EXCEPT ![t] = Len(tasks')] /\ phase' = [phase EXCEPT ![t] = "poll"]
  BY DEF StartTask, GoTo
<1>2. task \in Tasks
  BY <1>1 DEF Tasks, AtACall
<1>3. tasks \in Seq(Tasks)
  BY DEF TypeOK
<1>4. /\ task.state = "queued" /\ task.out = NoResult /\ task.context = TRUE
      /\ task.key = key[t]
  OBVIOUS
<1> HIDE DEF task
<1>5. /\ tasks' \in Seq(Tasks) /\ Len(tasks') = Len(tasks) + 1
      /\ \A i \in 1 .. Len(tasks) : tasks'[i] = tasks[i]
      /\ tasks'[Len(tasks) + 1] = task
  BY <1>1, <1>2, <1>3, AppendProperties
<1>6. /\ Len(tasks) \in Nat /\ DOMAIN tasks = 1 .. Len(tasks)
      /\ DOMAIN tasks' = 1 .. Len(tasks) + 1
  BY <1>3, <1>5, ListFacts
<1>7. mine' \in [Threads -> Nat]
  BY <1>1, <1>5, <1>6 DEF TypeOK
<1>8. TasksInv'
  <2> SUFFICES ASSUME NEW i \in 1 .. Len(tasks) + 1
               PROVE  /\ tasks'[i].out # NoResult => tasks'[i].state = "done"
                      /\ tasks'[i].state # "done" => tasks'[i].context
    BY <1>6 DEF TasksInv, TasksAndResults, ContextOutlivesTask
  <2>1. i \in 1 .. Len(tasks) \/ i = Len(tasks) + 1
    BY <1>6
  <2> QED
    BY <1>4, <1>5, <1>6, <2>1 DEF TasksInv, TasksAndResults, ContextOutlivesTask
<1>9. ASSUME PollsItsOwn
      PROVE  PollsItsOwn'
  <2> SUFFICES ASSUME NEW s \in Threads, phase'[s] = "poll"
               PROVE  mine'[s] \in 1 .. Len(tasks) + 1 /\ tasks'[mine'[s]].key = key[s]
    BY <1>1, <1>6 DEF PollsItsOwn
  <2>1. CASE s = t
    <3>1. mine'[s] = Len(tasks) + 1
      BY <1>1, <1>5, <2>1 DEF TypeOK
    <3> QED
      BY <1>4, <1>5, <1>6, <2>1, <3>1
  <2>2. CASE s # t
    <3>1. mine'[s] = mine[s] /\ phase[s] = "poll"
      BY <1>1, <2>2 DEF TypeOK
    <3>2. mine[s] \in 1 .. Len(tasks) /\ tasks[mine[s]].key = key[s]
      BY <1>6, <1>9, <3>1 DEF PollsItsOwn
    <3> QED
      BY <1>5, <1>6, <3>1, <3>2
  <2> QED
    BY <2>1, <2>2
<1> QED
  BY <1>5, <1>7, <1>8, <1>9

\* A task of which only fields change: it is the same task, its context is
\* there unless it is done, and it has no result unless it is done.
LEMMA TaskChanged ==
    ASSUME TypeOK, TasksInv, NEW i \in DOMAIN tasks, NEW new \in Tasks,
           new.key = tasks[i].key, tasks' = [tasks EXCEPT ![i] = new],
           new.out # NoResult => new.state = "done",
           new.state # "done" => new.context
    PROVE  /\ tasks' \in Seq(Tasks) /\ TasksInv' /\ DOMAIN tasks' = DOMAIN tasks
           /\ \A j \in DOMAIN tasks : tasks'[j].key = tasks[j].key
           /\ tasks'[i] = new /\ \A j \in DOMAIN tasks \ {i} : tasks'[j] = tasks[j]
<1>1. tasks \in Seq(Tasks) /\ DOMAIN tasks = 1 .. Len(tasks)
  BY ListFacts DEF TypeOK
<1>2. tasks' \in Seq(Tasks)
  BY <1>1, ExceptSeq
<1>3. /\ DOMAIN tasks' = DOMAIN tasks /\ tasks'[i] = new
      /\ \A j \in DOMAIN tasks \ {i} : tasks'[j] = tasks[j]
  OBVIOUS
<1>4. TasksInv'
  BY <1>3 DEF TasksInv, TasksAndResults, ContextOutlivesTask
<1>5. \A j \in DOMAIN tasks : tasks'[j].key = tasks[j].key
  BY <1>3
<1> QED
  BY <1>2, <1>3, <1>4, <1>5

-----------------------------------------------------------------------------
(* The invariant. *)

LEMMA InitRuntime == Init => RuntimeInv
<1> SUFFICES ASSUME Init
             PROVE  RuntimeInv
  OBVIOUS
<1>1. << >> \in Seq(Keys) /\ << >> \in Seq(Tasks) /\ DOMAIN << >> = {} /\ RangeOf(<< >>) = {}
  BY EmptySeq, LenProperties DEF RangeOf
<1>2. << >> \in [{} -> Texts]
  BY <1>1
<1>3. TypeOK
  BY <1>1, <1>2 DEF Init, TypeOK, Phases
<1>4. MemoInOrder
  BY <1>1, NothingAsked DEF Init, MemoInOrder, Answered
<1>5. AtACall /\ TasksAndResults /\ ContextOutlivesTask /\ PollsItsOwn
  BY <1>1 DEF Init, AtACall, TasksAndResults, ContextOutlivesTask, PollsItsOwn
<1> QED
  BY <1>3, <1>4, <1>5 DEF RuntimeInv

\* What a thread that is at its call leaves of a task it has polled: neither
\* node nor library, and the context if the result is not to be used.
LEMMA TaskLeft ==
    ASSUME TypeOK, TasksInv, PollsItsOwn, NEW t \in Threads, phase[t] = "poll",
           NEW context \in BOOLEAN,
           tasks[mine[t]].state # "done" => context,
           tasks' = [tasks EXCEPT ![mine[t]].context = context, ![mine[t]].node = FALSE,
                                  ![mine[t]].library = FALSE],
           mine' = [mine EXCEPT ![t] = 0], UNCHANGED key,
           phase' = [phase EXCEPT ![t] = "idle"]
    PROVE  /\ tasks' \in Seq(Tasks) /\ mine' \in [Threads -> Nat] /\ TasksInv' /\ PollsItsOwn'
           /\ DOMAIN tasks' = DOMAIN tasks
           /\ \A j \in DOMAIN tasks : tasks'[j].key = tasks[j].key /\ tasks'[j].out = tasks[j].out
<1> DEFINE m == mine[t]
           new == [tasks[m] EXCEPT !.context = context, !.node = FALSE, !.library = FALSE]
<1>1. m \in DOMAIN tasks
  BY DEF PollsItsOwn
<1>2. tasks[m] \in Tasks
  BY <1>1, ListFacts DEF TypeOK
<1>3. /\ new \in Tasks /\ new.key = tasks[m].key /\ new.out = tasks[m].out
      /\ new.state = tasks[m].state /\ new.context = context
  BY <1>2 DEF Tasks
<1>4. tasks' = [tasks EXCEPT ![m] = new]
  BY <1>1
<1>5. /\ new.out # NoResult => new.state = "done"
      /\ new.state # "done" => new.context
  BY <1>1, <1>3 DEF TasksInv, TasksAndResults
<1> HIDE DEF new, m
<1>6. /\ tasks' \in Seq(Tasks) /\ TasksInv' /\ DOMAIN tasks' = DOMAIN tasks
      /\ \A j \in DOMAIN tasks : tasks'[j].key = tasks[j].key
      /\ tasks'[m] = new /\ \A j \in DOMAIN tasks \ {m} : tasks'[j] = tasks[j]
  BY <1>1, <1>3, <1>4, <1>5, TaskChanged
<1>7. mine' \in [Threads -> Nat]
  BY DEF TypeOK
<1>8. PollsItsOwn'
  <2> SUFFICES ASSUME NEW s \in Threads, phase'[s] = "poll"
               PROVE  mine'[s] \in DOMAIN tasks' /\ tasks'[mine'[s]].key = key[s]
    BY DEF PollsItsOwn
  <2>1. phase[s] = "poll" /\ mine'[s] = mine[s]
    BY DEF TypeOK
  <2> QED
    BY <1>6, <2>1 DEF PollsItsOwn
<1>9. \A j \in DOMAIN tasks : tasks'[j].out = tasks[j].out
  BY <1>3, <1>6
<1> QED
  BY <1>6, <1>7, <1>8, <1>9

\* Steps that change neither the tasks nor what is polled.
LEMMA NoTaskChanges ==
    ASSUME TypeOK, TasksInv, PollsItsOwn, UNCHANGED <<tasks, mine>>,
           \A s \in Threads : phase'[s] = "poll" => phase[s] = "poll" /\ key'[s] = key[s]
    PROVE  TasksInv' /\ PollsItsOwn'
<1> QED
  BY DEF TasksInv, TasksAndResults, ContextOutlivesTask, PollsItsOwn

LEMMA ExpandKeeps ==
    ASSUME RuntimeInv, NEW t \in Threads, Expand(t)
    PROVE  RuntimeInv'
<1>1. TypeOK /\ AtACall /\ MemoInOrder /\ TasksInv /\ PollsItsOwn
  BY DEF RuntimeInv, TasksInv
<1> SUFFICES TypeOK' /\ AtACall' /\ MemoInOrder' /\ TasksInv' /\ PollsItsOwn'
  BY DEF RuntimeInv, TasksInv
<1>2. ASSUME phase[t] # "idle", NEW text \in Texts, Store(t, text),
             UNCHANGED <<statics, tasks, mine>>
      PROVE  TypeOK' /\ AtACall' /\ MemoInOrder' /\ TasksInv' /\ PollsItsOwn'
  <2>1. phase' = [phase EXCEPT ![t] = "idle"] /\ UNCHANGED <<key, calls, used>>
    BY <1>2 DEF Store, GoTo
  <2>2. /\ phase' \in [Threads -> Phases] /\ lru' \in [Threads -> Seq(Keys)]
        /\ expanded' \in [Threads -> UNION {[S -> Texts] : S \in SUBSET Keys}]
        /\ AtACall' /\ MemoInOrder'
    BY <1>1, <1>2, StoreKeeps
  <2>3. TasksInv' /\ PollsItsOwn'
    BY <1>1, <1>2, <2>1, NoTaskChanges DEF TypeOK
  <2>4. TypeOK'
    BY <1>1, <1>2, <2>1, <2>2 DEF TypeOK, statics
  <2> QED
    BY <2>2, <2>3, <2>4
<1>3. ASSUME phase[t] # "idle", NEW next \in Phases \ {"idle", "poll"}, GoTo(t, next),
             UNCHANGED <<tasks, key, expanded, lru, mine, calls, used>>
      PROVE  /\ phase' \in [Threads -> Phases] /\ AtACall' /\ MemoInOrder'
             /\ TasksInv' /\ PollsItsOwn'
  <2>1. phase' \in [Threads -> Phases] /\ AtACall' /\ MemoInOrder'
    BY <1>1, <1>3, StaysAtCall DEF TypeOK
  <2>2. TasksInv' /\ PollsItsOwn'
    BY <1>1, <1>3, NoTaskChanges DEF TypeOK, GoTo
  <2> QED
    BY <2>1, <2>2
<1>4. \A k \in Keys, real \in BOOLEAN : Text(k, real) \in Texts
  BY DEF Text, Texts
<1>5. CASE InitFailedBefore(t)
  BY <1>1, <1>2, <1>4, <1>5 DEF InitFailedBefore, AtACall
<1>6. CASE NotFailed(t)
  <2>1. /\ phase' \in [Threads -> Phases] /\ AtACall' /\ MemoInOrder'
        /\ TasksInv' /\ PollsItsOwn'
    BY <1>3, <1>6 DEF NotFailed, Phases
  <2> QED
    BY <1>1, <1>6, <2>1 DEF NotFailed, TypeOK, statics
<1>7. CASE GetRuntime(t)
  <2>1. /\ phase' \in [Threads -> Phases] /\ AtACall' /\ MemoInOrder'
        /\ TasksInv' /\ PollsItsOwn'
    BY <1>3, <1>7 DEF GetRuntime, Phases
  <2> QED
    BY <1>1, <1>7, <2>1 DEF GetRuntime, TypeOK, statics
<1>8. CASE Lock(t)
  <2>1. /\ phase' \in [Threads -> Phases] /\ AtACall' /\ MemoInOrder'
        /\ TasksInv' /\ PollsItsOwn'
    BY <1>3, <1>8 DEF Lock, Phases
  <2>2. initLock' \in Threads \cup {Nobody}
    BY <1>1, <1>8 DEF Lock, TypeOK
  <2> QED
    BY <1>1, <1>8, <2>1, <2>2 DEF Lock, TypeOK
<1>9. CASE InitSucceeds(t)
  <2>1. /\ phase' \in [Threads -> Phases] /\ AtACall' /\ MemoInOrder'
        /\ TasksInv' /\ PollsItsOwn'
    BY <1>3, <1>9 DEF InitSucceeds, Phases
  <2> QED
    BY <1>1, <1>9, <2>1 DEF InitSucceeds, TypeOK
<1>10. CASE InitFails(t)
  <2>1. phase' = [phase EXCEPT ![t] = "idle"] /\ UNCHANGED <<key, calls, used>>
    BY <1>10 DEF InitFails, Store, GoTo
  <2>2. /\ phase' \in [Threads -> Phases] /\ lru' \in [Threads -> Seq(Keys)]
        /\ expanded' \in [Threads -> UNION {[S -> Texts] : S \in SUBSET Keys}]
        /\ AtACall' /\ MemoInOrder'
    BY <1>1, <1>4, <1>10, StoreKeeps DEF InitFails, AtACall
  <2>3. TasksInv' /\ PollsItsOwn'
    BY <1>1, <1>10, <2>1, NoTaskChanges DEF TypeOK, InitFails
  <2> QED
    BY <1>1, <1>10, <2>1, <2>2, <2>3 DEF TypeOK, InitFails
<1>11. CASE NoSymbol(t)
  BY <1>1, <1>2, <1>4, <1>11 DEF NoSymbol, AtACall
<1>12. CASE StartTask(t)
  <2>1. phase' \in [Threads -> Phases] /\ AtACall' /\ MemoInOrder'
    BY <1>1, <1>12, StaysAtCall DEF StartTask, TypeOK, Phases
  <2>2. tasks' \in Seq(Tasks) /\ mine' \in [Threads -> Nat] /\ TasksInv' /\ PollsItsOwn'
    BY <1>1, <1>12, TaskStarted
  <2> QED
    BY <1>1, <1>12, <2>1, <2>2 DEF StartTask, TypeOK, statics
<1>13. ASSUME phase[t] = "poll", NEW text \in Texts, Store(t, text), NEW context \in BOOLEAN,
              tasks[mine[t]].state # "done" => context,
              tasks' = [tasks EXCEPT ![mine[t]].context = context, ![mine[t]].node = FALSE,
                                     ![mine[t]].library = FALSE],
              mine' = [mine EXCEPT ![t] = 0], UNCHANGED statics
       PROVE  TypeOK' /\ AtACall' /\ MemoInOrder' /\ TasksInv' /\ PollsItsOwn'
  <2>1. phase' = [phase EXCEPT ![t] = "idle"] /\ UNCHANGED <<key, calls, used>>
    BY <1>13 DEF Store, GoTo
  <2>2. /\ phase' \in [Threads -> Phases] /\ lru' \in [Threads -> Seq(Keys)]
        /\ expanded' \in [Threads -> UNION {[S -> Texts] : S \in SUBSET Keys}]
        /\ AtACall' /\ MemoInOrder'
    BY <1>1, <1>13, StoreKeeps
  <2>3. tasks' \in Seq(Tasks) /\ mine' \in [Threads -> Nat] /\ TasksInv' /\ PollsItsOwn'
    BY <1>1, <1>13, <2>1, TaskLeft
  <2> QED
    BY <1>1, <1>13, <2>1, <2>2, <2>3 DEF TypeOK, statics
<1>14. CASE Collect(t)
  <2> DEFINE sound == tasks[mine[t]].out = "tokens"
  <2>1. /\ phase[t] = "poll" /\ tasks[mine[t]].out # NoResult
        /\ Store(t, Text(tasks[mine[t]].key, sound))
        /\ tasks' = [tasks EXCEPT ![mine[t]].context = ~sound, ![mine[t]].node = FALSE,
                                  ![mine[t]].library = FALSE]
        /\ mine' = [mine EXCEPT ![t] = 0] /\ UNCHANGED statics
    BY <1>14 DEF Collect
  <2>2. mine[t] \in DOMAIN tasks /\ tasks[mine[t]].key = key[t] /\ key[t] \in Keys
    BY <1>1, <2>1 DEF PollsItsOwn, AtACall
  <2>3. tasks[mine[t]].state = "done"
    BY <1>1, <2>1, <2>2 DEF TasksInv, TasksAndResults
  <2>4. Text(tasks[mine[t]].key, sound) \in Texts
    BY <1>4, <2>2
  <2> HIDE DEF sound
  <2>5. (~sound) \in BOOLEAN
    OBVIOUS
  <2> QED
    BY <1>13, <2>1, <2>3, <2>4, <2>5
<1>15. CASE TimeOut(t)
  <2>1. /\ phase[t] = "poll" /\ Store(t, Text(key[t], FALSE))
        /\ tasks' = [tasks EXCEPT ![mine[t]].node = FALSE, ![mine[t]].library = FALSE]
        /\ mine' = [mine EXCEPT ![t] = 0] /\ UNCHANGED statics
    BY <1>15 DEF TimeOut
  <2>2. mine[t] \in DOMAIN tasks /\ key[t] \in Keys
    BY <1>1, <2>1 DEF PollsItsOwn, AtACall
  <2>3. tasks \in Seq(Tasks)
    BY <1>1 DEF TypeOK
  <2>4. tasks[mine[t]] \in Tasks
    BY <2>2, <2>3, ListFacts
  <2>5. tasks' = [tasks EXCEPT ![mine[t]].context = tasks[mine[t]].context,
                               ![mine[t]].node = FALSE, ![mine[t]].library = FALSE]
    BY <2>1, <2>2, <2>4 DEF Tasks
  <2>6. /\ tasks[mine[t]].context \in BOOLEAN
        /\ tasks[mine[t]].state # "done" => tasks[mine[t]].context
    BY <1>1, <2>2, <2>4 DEF TasksInv, ContextOutlivesTask, Tasks
  <2> QED
    BY <1>4, <1>13, <2>1, <2>2, <2>5, <2>6
<1> QED
  BY <1>5, <1>6, <1>7, <1>8, <1>9, <1>10, <1>11, <1>12, <1>14, <1>15 DEF Expand

\* The runtime's own threads: a task runs, a task ends.
LEMMA RuntimeKeeps ==
    ASSUME RuntimeInv, Runtime
    PROVE  RuntimeInv'
<1>1. TypeOK /\ AtACall /\ MemoInOrder /\ TasksInv /\ PollsItsOwn
  BY DEF RuntimeInv, TasksInv
<1>2. PICK i \in DOMAIN tasks : RunTask(i) \/ \E r \in Results \cup {NoResult} : EndTask(i, r)
  BY DEF Runtime
<1>3. tasks[i] \in Tasks
  BY <1>1, ListFacts DEF TypeOK
<1>4. UNCHANGED <<statics, threads>>
  BY <1>2 DEF RunTask, EndTask
<1>5. \E new \in Tasks : /\ new.key = tasks[i].key /\ tasks' = [tasks EXCEPT ![i] = new]
                         /\ new.out # NoResult => new.state = "done"
                         /\ new.state # "done" => new.context
  <2>1. CASE RunTask(i)
    <3> DEFINE new == [tasks[i] EXCEPT !.state = "running"]
    <3>1. new \in Tasks /\ new.key = tasks[i].key /\ new.state = "running"
          /\ new.out = tasks[i].out /\ new.context = tasks[i].context
      BY <1>3 DEF Tasks
    <3>2. tasks' = [tasks EXCEPT ![i] = new] /\ tasks[i].state = "queued"
      BY <2>1 DEF RunTask
    <3>3. tasks[i].out = NoResult /\ tasks[i].context
      BY <1>1, <3>2 DEF TasksInv, TasksAndResults, ContextOutlivesTask
    <3> HIDE DEF new
    <3> QED
      BY <3>1, <3>2, <3>3
  <2>2. ASSUME NEW r \in Results \cup {NoResult}, EndTask(i, r)
        PROVE  \E new \in Tasks : /\ new.key = tasks[i].key /\ tasks' = [tasks EXCEPT ![i] = new]
                                  /\ new.out # NoResult => new.state = "done"
                                  /\ new.state # "done" => new.context
    <3> DEFINE new == [tasks[i] EXCEPT !.state = "done", !.out = r]
    <3>1. new \in Tasks /\ new.key = tasks[i].key /\ new.state = "done"
      BY <1>3 DEF Tasks
    <3>2. tasks' = [tasks EXCEPT ![i] = new]
      BY <2>2 DEF EndTask
    <3> HIDE DEF new
    <3> QED
      BY <3>1, <3>2
  <2> QED
    BY <1>2, <2>1, <2>2
<1>6. /\ tasks' \in Seq(Tasks) /\ TasksInv' /\ DOMAIN tasks' = DOMAIN tasks
      /\ \A j \in DOMAIN tasks : tasks'[j].key = tasks[j].key
  BY <1>1, <1>5, TaskChanged
<1>7. PollsItsOwn'
  BY <1>1, <1>4, <1>6 DEF PollsItsOwn, threads
<1>8. TypeOK'
  BY <1>1, <1>4, <1>6 DEF TypeOK, threads, statics
<1>9. AtACall'
  BY <1>1, <1>4 DEF AtACall, threads
<1>10. MemoInOrder'
  BY <1>1, <1>4 DEF MemoInOrder, Answered, threads
<1> QED
  BY <1>6, <1>7, <1>8, <1>9, <1>10 DEF RuntimeInv, TasksInv

LEMMA NextRuntime == RuntimeInv /\ [Next]_vars => RuntimeInv'
<1> SUFFICES ASSUME RuntimeInv, [Next]_vars
             PROVE  RuntimeInv'
  OBVIOUS
<1>1. TypeOK /\ AtACall /\ MemoInOrder /\ TasksInv /\ PollsItsOwn
  BY DEF RuntimeInv, TasksInv
<1>2. ASSUME NEW t \in Threads, NewAnalysis(t)
      PROVE  RuntimeInv'
  <2>1. UNCHANGED <<statics, tasks, phase, key, mine, calls>>
    BY <1>2 DEF NewAnalysis
  <2>2. /\ lru' \in [Threads -> Seq(Keys)] /\ used' \in [Threads -> Seq(Keys)]
        /\ expanded' \in [Threads -> UNION {[S -> Texts] : S \in SUBSET Keys}]
        /\ AtACall' /\ MemoInOrder'
    BY <1>1, <1>2, NewAnalysisKeeps
  <2>3. TasksInv' /\ PollsItsOwn'
    BY <1>1, <2>1, NoTaskChanges
  <2> QED
    BY <1>1, <2>1, <2>2, <2>3 DEF RuntimeInv, TypeOK, TasksInv, statics
<1>3. ASSUME NEW t \in Threads, NEW k \in Keys, Hit(t, k)
      PROVE  RuntimeInv'
  <2>1. UNCHANGED <<statics, tasks, phase, key, expanded, mine>> /\ calls' = calls + 1
    BY <1>3 DEF Hit, Ask
  <2>2. /\ lru' \in [Threads -> Seq(Keys)] /\ used' \in [Threads -> Seq(Keys)]
        /\ AtACall' /\ MemoInOrder'
    BY <1>1, <1>3, HitKeeps
  <2>3. TasksInv' /\ PollsItsOwn'
    BY <1>1, <2>1, NoTaskChanges
  <2> QED
    BY <1>1, <2>1, <2>2, <2>3 DEF RuntimeInv, TypeOK, TasksInv, statics
<1>4. ASSUME NEW t \in Threads, NEW k \in Keys, Miss(t, k)
      PROVE  RuntimeInv'
  <2>1. /\ UNCHANGED <<statics, tasks, expanded, lru, mine>> /\ calls' = calls + 1
        /\ phase' = [phase EXCEPT ![t] = "runtime"] /\ key' = [key EXCEPT ![t] = k]
        /\ phase[t] = "idle"
    BY <1>4 DEF Miss, Ask, GoTo
  <2>2. /\ phase' \in [Threads -> Phases] /\ key' \in [Threads -> Keys \cup {NoKey}]
        /\ used' \in [Threads -> Seq(Keys)]
        /\ AtACall' /\ MemoInOrder'
    BY <1>1, <1>4, MissKeeps
  <2>3. \A s \in Threads : phase'[s] = "poll" => phase[s] = "poll" /\ key'[s] = key[s]
    BY <1>1, <2>1 DEF TypeOK
  <2>4. TasksInv' /\ PollsItsOwn'
    BY <1>1, <2>1, <2>3, NoTaskChanges
  <2> QED
    BY <1>1, <2>1, <2>2, <2>4 DEF RuntimeInv, TypeOK, TasksInv, statics
<1>5. CASE UNCHANGED vars
  <2>1. UNCHANGED <<runtime, initFailed, initLock, phase, key, expanded, lru, mine, calls,
                    used, tasks>>
    BY <1>5 DEF vars, statics, threads
  <2>2. TypeOK' /\ AtACall' /\ MemoInOrder'
    BY <1>1, <2>1 DEF TypeOK, AtACall, MemoInOrder, Answered
  <2>3. TasksInv' /\ PollsItsOwn'
    BY <1>1, <2>1, NoTaskChanges
  <2> QED
    BY <2>2, <2>3 DEF RuntimeInv, TasksInv
<1> QED
  BY <1>2, <1>3, <1>4, <1>5, ExpandKeeps, RuntimeKeeps DEF Next

LEMMA InvHolds == Spec => []RuntimeInv
<1> QED
  BY InitRuntime, NextRuntime, PTL DEF Spec

-----------------------------------------------------------------------------
(* What follows of it. *)

(***************************************************************************)
(* The statics, the memos, the runtime's tasks and the places of the       *)
(* threads keep their types (the fields of dylib.rs and MacroCache).       *)
(***************************************************************************)
THEOREM TypeCorrect == Spec => []TypeOK
<1>1. RuntimeInv => TypeOK
  BY DEF RuntimeInv
<1> QED
  BY <1>1, InvHolds, PTL

(***************************************************************************)
(* Whatever the number of keys, calls and threads and the capacity: between*)
(* two calls the memo of expand_cached holds exactly the keys asked for    *)
(* last.                                                                   *)
(***************************************************************************)
THEOREM MemoHoldsTheLastUsed == Spec => []HoldsTheLastUsed
<1>1. ASSUME RuntimeInv
      PROVE  HoldsTheLastUsed
  <2> SUFFICES ASSUME NEW t \in Threads
               PROVE  /\ DOMAIN expanded[t] = RangeOf(lru[t])
                      /\ phase[t] = "idle" => RangeOf(lru[t]) = LastKeys(used[t], Cap)
    BY DEF HoldsTheLastUsed
  <2>1. DOMAIN expanded[t] = RangeOf(lru[t]) /\ Recent(Answered(t), lru[t])
    BY <1>1 DEF RuntimeInv, MemoInOrder
  <2>2. lru[t] \in Seq(Keys) /\ used[t] \in Seq(Keys)
    BY <1>1 DEF RuntimeInv, TypeOK
  <2> QED
    BY <2>1, <2>2, RecentIsLastKeys DEF Answered
<1> QED
  BY <1>1, InvHolds, PTL

(***************************************************************************)
(* However late a task runs, the context expand_macro_call gave it has not *)
(* been freed.                                                             *)
(***************************************************************************)
THEOREM ContextStays == Spec => []ContextOutlivesTask
<1>1. RuntimeInv => ContextOutlivesTask
  BY DEF RuntimeInv
<1> QED
  BY <1>1, InvHolds, PTL

-----------------------------------------------------------------------------
(* The steps are those of MacroCalls. *)

\* Every way a call comes back is a return of it: with what was made of it
\* only if that has been made.
LEMMA Returns ==
    ASSUME RuntimeInv, NEW t \in Threads, phase[t] # "idle", NEW real \in BOOLEAN,
           Store(t, Text(key[t], real)), real => key[t] \in Made, Made' = Made
    PROVE  Calls!Return(t)
<1> DEFINE w == Newest(Append(lru[t], key[t]))
           h == SubSeq(used[t], 1, Len(used[t]) - 1)
           kept == RangeOf(w) \ {key[t]}
<1>0. TypeOK /\ AtACall /\ MemoInOrder
  BY DEF RuntimeInv
<1>1. /\ phase' = [phase EXCEPT ![t] = "idle"] /\ key' = key
      /\ expanded' = [expanded EXCEPT ![t] =
                         [k \in RangeOf(w) |-> IF k = key[t] THEN Text(key[t], real)
                                               ELSE expanded[t][k]]]
  BY DEF Store, GoTo
<1>2. /\ key[t] \in Keys /\ key[t] \notin DOMAIN expanded[t]
      /\ used[t] # << >> /\ used[t][Len(used[t])] = key[t]
  BY <1>0 DEF AtACall
<1>3. DOMAIN expanded[t] = RangeOf(lru[t]) /\ Recent(h, lru[t])
  BY <1>0 DEF MemoInOrder, Answered
<1>4. lru[t] \in Seq(Keys) /\ used[t] \in Seq(Keys)
  BY <1>0 DEF TypeOK
<1>5. h \in Seq(Keys)
  BY <1>2, <1>4, CallsBefore
<1>6. key[t] \in Keys \ RangeOf(lru[t])
  BY <1>2, <1>3
<1> HIDE DEF h
<1>7. /\ w \in Seq(Keys) /\ key[t] \in RangeOf(w)
      /\ RangeOf(w) \subseteq RangeOf(lru[t]) \cup {key[t]}
      /\ Len(w) = Cap \/ RangeOf(w) = RangeOf(lru[t]) \cup {key[t]}
      /\ Recent(Append(h, key[t]), w)
  BY <1>3, <1>4, <1>5, <1>6, MissKeepsRecent
<1> HIDE DEF w
<1>8. Len(w) \in Nat /\ Len(w) <= Cap /\ Distinct(w) /\ Cap \in Nat
  BY <1>7, ListFacts, RuntimeAssumption DEF Recent
<1>9. Cardinality(kept) = Len(w) - 1
  <2>1. IsFiniteSet(RangeOf(w)) /\ Cardinality(RangeOf(w)) = Len(w)
    BY <1>7, <1>8, RangeCardinality
  <2> QED
    BY <1>7, <2>1, FS_RemoveElement
<1>10. Cardinality(kept) < Cap
  BY <1>8, <1>9
<1>11. Cardinality(kept) = Cap - 1 \/ kept = DOMAIN expanded[t]
  <2>1. CASE Len(w) = Cap
    BY <1>9, <2>1
  <2>2. CASE RangeOf(w) = RangeOf(lru[t]) \cup {key[t]}
    BY <1>3, <1>6, <2>2
  <2> QED
    BY <1>7, <2>1, <2>2
<1>12. kept \in SUBSET DOMAIN expanded[t] /\ RangeOf(w) = kept \cup {key[t]}
  BY <1>3, <1>7
<1> HIDE DEF kept
<1>13. expanded' = [expanded EXCEPT ![t] =
                      [k \in kept \cup {key[t]} |->
                         IF k = key[t] THEN [key |-> k, real |-> real] ELSE expanded[t][k]]]
  BY <1>1, <1>12 DEF Text
<1>14. Asked[t] = key[t] /\ key[t] # NoKey
  BY <1>2, RuntimeAssumption DEF Asked
<1>15. Asked' = [Asked EXCEPT ![t] = NoKey]
  BY <1>0, <1>1 DEF Asked, TypeOK
<1>16. real \in {FALSE} \cup {x \in {TRUE} : Asked[t] \in Made}
  BY <1>14
<1>17. \E r \in {FALSE} \cup {x \in {TRUE} : Asked[t] \in Made} :
          expanded' = [expanded EXCEPT ![t] =
                         [k \in kept \cup {Asked[t]} |->
                            IF k = Asked[t] THEN [key |-> k, real |-> r] ELSE expanded[t][k]]]
  BY <1>13, <1>14, <1>16
<1>18. \E kept_ \in SUBSET DOMAIN expanded[t], r \in {FALSE} \cup {x \in {TRUE} : Asked[t] \in Made} :
          /\ Cardinality(kept_) < Cap
          /\ Cardinality(kept_) = Cap - 1 \/ kept_ = DOMAIN expanded[t]
          /\ expanded' = [expanded EXCEPT ![t] =
                            [k \in kept_ \cup {Asked[t]} |->
                               IF k = Asked[t] THEN [key |-> k, real |-> r] ELSE expanded[t][k]]]
  BY <1>10, <1>11, <1>12, <1>17
<1>19. Asked[t] # NoKey
  BY <1>14
<1> QED
  BY <1>15, <1>18, <1>19 DEF Calls!Return, Cardinality, Calls!Cardinality

\* Tasks whose keys and results stay have made what they had.
LEMMA MadeStays ==
    ASSUME DOMAIN tasks' = DOMAIN tasks,
           \A j \in DOMAIN tasks : tasks'[j].key = tasks[j].key /\ tasks'[j].out = tasks[j].out
    PROVE  Made' = Made
<1> QED
  BY DEF Made

\* A thread that goes on with its call is still at it.
LEMMA AskedStays ==
    ASSUME phase \in [Threads -> Phases], NEW t \in Threads, phase[t] # "idle",
           NEW next, next # "idle", GoTo(t, next), UNCHANGED key
    PROVE  Asked' = Asked
<1>1. \A s \in Threads : (phase'[s] = "idle") <=> (phase[s] = "idle")
  BY DEF GoTo
<1> QED
  BY <1>1 DEF Asked

LEMMA StartedHasMadeNothing ==
    ASSUME TypeOK, NEW t \in Threads, StartTask(t)
    PROVE  Made' = Made
<1> DEFINE task == [key |-> key[t], state |-> "queued", out |-> NoResult,
                    context |-> TRUE, node |-> TRUE, library |-> TRUE]
<1>1. tasks' = Append(tasks, task) /\ tasks \in Seq(Tasks) /\ task.out = NoResult
  BY DEF StartTask, TypeOK
<1>2. NoResult # "tokens"
  BY RuntimeAssumption DEF Results
<1> HIDE DEF task
<1>3. /\ Len(tasks) \in Nat /\ DOMAIN tasks = 1 .. Len(tasks)
      /\ \A i \in 1 .. Len(tasks) : tasks'[i] = tasks[i]
      /\ tasks'[Len(tasks) + 1] = task
      /\ tasks' \in Seq(Tasks \cup {task}) /\ Len(tasks') = Len(tasks) + 1
  <2>1. tasks \in Seq(Tasks \cup {task})
    BY <1>1, SeqMonotonic
  <2> QED
    BY <1>1, <2>1, AppendProperties, ListFacts
<1>4. DOMAIN tasks' = 1 .. Len(tasks) + 1
  BY <1>3, ListFacts
<1>5. {j \in DOMAIN tasks' : tasks'[j].out = "tokens"} = {j \in DOMAIN tasks : tasks[j].out = "tokens"}
  <2>1. ASSUME NEW j \in 1 .. Len(tasks) + 1, tasks'[j].out = "tokens"
        PROVE  j \in 1 .. Len(tasks) /\ tasks[j].out = "tokens"
    BY <1>1, <1>2, <1>3, <2>1
  <2>2. ASSUME NEW j \in 1 .. Len(tasks), tasks[j].out = "tokens"
        PROVE  j \in 1 .. Len(tasks) + 1 /\ tasks'[j].out = "tokens"
    BY <1>3, <2>2
  <2> QED
    BY <1>3, <1>4, <2>1, <2>2
<1>6. \A j \in {i \in DOMAIN tasks : tasks[i].out = "tokens"} : tasks'[j].key = tasks[j].key
  BY <1>3
<1> QED
  BY <1>5, <1>6 DEF Made

LEMMA ExpandIsCall ==
    ASSUME RuntimeInv, NEW t \in Threads, Expand(t)
    PROVE  Calls!Return(t) \/ UNCHANGED <<Asked, expanded, Made>>
<1>1. TypeOK /\ AtACall /\ MemoInOrder /\ TasksInv /\ PollsItsOwn
  BY DEF RuntimeInv, TasksInv
<1>2. ASSUME phase[t] # "idle", Store(t, Text(key[t], FALSE)), UNCHANGED tasks
      PROVE  Calls!Return(t)
  BY <1>2, Returns DEF Made
<1>3. ASSUME phase[t] # "idle", NEW next, next # "idle", GoTo(t, next), Made' = Made,
             UNCHANGED <<key, expanded>>
      PROVE  UNCHANGED <<Asked, expanded, Made>>
  BY <1>1, <1>3, AskedStays DEF TypeOK
<1>4. CASE InitFailedBefore(t)
  BY <1>2, <1>4 DEF InitFailedBefore
<1>5. CASE NotFailed(t)
  BY <1>3, <1>5 DEF NotFailed, Made
<1>6. CASE GetRuntime(t)
  BY <1>3, <1>6 DEF GetRuntime, Made
<1>7. CASE Lock(t)
  BY <1>3, <1>7 DEF Lock, Made
<1>8. CASE InitSucceeds(t)
  BY <1>3, <1>8 DEF InitSucceeds, Made
<1>9. CASE InitFails(t)
  BY <1>2, <1>9 DEF InitFails
<1>10. CASE NoSymbol(t)
  BY <1>2, <1>10 DEF NoSymbol
<1>11. CASE StartTask(t)
  <2>1. Made' = Made
    BY <1>1, <1>11, StartedHasMadeNothing
  <2> QED
    BY <1>3, <1>11, <2>1 DEF StartTask
<1>12. CASE Collect(t)
  <2> DEFINE sound == tasks[mine[t]].out = "tokens"
  <2>1. /\ phase[t] = "poll" /\ tasks[mine[t]].out # NoResult
        /\ Store(t, Text(tasks[mine[t]].key, sound))
        /\ tasks' = [tasks EXCEPT ![mine[t]].context = ~sound, ![mine[t]].node = FALSE,
                                  ![mine[t]].library = FALSE]
        /\ mine' = [mine EXCEPT ![t] = 0]
    BY <1>12 DEF Collect
  <2>2. mine[t] \in DOMAIN tasks /\ tasks[mine[t]].key = key[t]
    BY <1>1, <2>1 DEF PollsItsOwn
  <2>3. sound => key[t] \in Made
    BY <2>2 DEF Made
  <2>4. tasks[mine[t]].state = "done"
    BY <1>1, <2>1, <2>2 DEF TasksInv, TasksAndResults
  <2>5. phase' = [phase EXCEPT ![t] = "idle"] /\ UNCHANGED key
    BY <2>1 DEF Store, GoTo
  <2> HIDE DEF sound
  <2>6. sound \in BOOLEAN /\ (~sound) \in BOOLEAN
    BY DEF sound
  <2>7. Made' = Made
    BY <1>1, <2>1, <2>4, <2>5, <2>6, TaskLeft, MadeStays
  <2> QED
    BY <2>1, <2>2, <2>3, <2>6, <2>7, Returns
<1>13. CASE TimeOut(t)
  <2>1. /\ phase[t] = "poll" /\ Store(t, Text(key[t], FALSE))
        /\ tasks' = [tasks EXCEPT ![mine[t]].node = FALSE, ![mine[t]].library = FALSE]
    BY <1>13 DEF TimeOut
  <2>2. mine[t] \in DOMAIN tasks
    BY <1>1, <2>1 DEF PollsItsOwn
  <2>3. tasks[mine[t]] \in Tasks
    BY <1>1, <2>2, ListFacts DEF TypeOK
  <2>4. /\ DOMAIN tasks' = DOMAIN tasks
        /\ \A j \in DOMAIN tasks : tasks'[j].key = tasks[j].key /\ tasks'[j].out = tasks[j].out
    BY <2>1, <2>2, <2>3 DEF Tasks
  <2> QED
    BY <2>1, <2>4, MadeStays, Returns
<1> QED
  BY <1>4, <1>5, <1>6, <1>7, <1>8, <1>9, <1>10, <1>11, <1>12, <1>13 DEF Expand

LEMMA RuntimeMakes ==
    ASSUME RuntimeInv, Runtime
    PROVE  (\E k \in Keys : Calls!Make(k)) \/ UNCHANGED <<Asked, expanded, Made>>
<1>1. TypeOK /\ TasksInv
  BY DEF RuntimeInv, TasksInv
<1>2. PICK i \in DOMAIN tasks : RunTask(i) \/ \E r \in Results \cup {NoResult} : EndTask(i, r)
  BY DEF Runtime
<1>3. tasks[i] \in Tasks
  BY <1>1, ListFacts DEF TypeOK
<1>4. UNCHANGED <<Asked, expanded>>
  BY <1>2 DEF RunTask, EndTask, threads, Asked
<1>5. CASE RunTask(i)
  <2>1. /\ DOMAIN tasks' = DOMAIN tasks
        /\ \A j \in DOMAIN tasks : tasks'[j].key = tasks[j].key /\ tasks'[j].out = tasks[j].out
    BY <1>3, <1>5 DEF RunTask, Tasks
  <2> QED
    BY <1>4, <2>1, MadeStays
<1>6. ASSUME NEW r \in Results \cup {NoResult}, EndTask(i, r)
      PROVE  (\E k \in Keys : Calls!Make(k)) \/ UNCHANGED <<Asked, expanded, Made>>
  <2>1. /\ tasks[i].state = "running" /\ DOMAIN tasks' = DOMAIN tasks
        /\ tasks'[i].out = r /\ tasks'[i].key = tasks[i].key
        /\ \A j \in DOMAIN tasks \ {i} : tasks'[j] = tasks[j]
    BY <1>3, <1>6 DEF EndTask, Tasks
  <2>2. tasks[i].out # "tokens"
    BY <1>1, <2>1, RuntimeAssumption DEF TasksInv, TasksAndResults, Results
  <2>3. CASE r = "tokens"
    <3>1. Made' = Made \cup {tasks[i].key}
      BY <2>1, <2>2, <2>3 DEF Made
    <3>2. tasks[i].key \in Keys
      BY <1>3 DEF Tasks
    <3> QED
      BY <1>4, <3>1, <3>2 DEF Calls!Make
  <2>4. CASE r # "tokens"
    <3>1. {j \in DOMAIN tasks' : tasks'[j].out = "tokens"} = {j \in DOMAIN tasks : tasks[j].out = "tokens"}
      BY <2>1, <2>2, <2>4
    <3>2. Made' = Made
      BY <2>1, <3>1 DEF Made
    <3> QED
      BY <1>4, <3>2
  <2> QED
    BY <2>3, <2>4
<1> QED
  BY <1>2, <1>5, <1>6

(***************************************************************************)
(* Threads, start of the runtime, tasks and deadlines are steps of         *)
(* MacroCalls or steps it does not see: no call comes back with what       *)
(* another call's task has left, and a call is remembered under what it was*)
(* asked with.  (That every call does come back is left to the run.)       *)
(***************************************************************************)
THEOREM StepsAreCalls == Spec => Calls!Safety
<1>1. Init => Calls!Init
  <2> SUFFICES ASSUME Init
               PROVE  Calls!Init
    OBVIOUS
  <2>1. Asked = [t \in Threads |-> NoKey]
    BY DEF Init, Asked
  <2>2. Made = {}
    BY EmptySeq, LenProperties DEF Init, Made
  <2> QED
    BY <2>1, <2>2 DEF Init, Calls!Init
<1>2. RuntimeInv /\ [Next]_vars => [Calls!Next]_Calls!vars
  <2> SUFFICES ASSUME RuntimeInv, [Next]_vars
               PROVE  Calls!Next \/ UNCHANGED <<Asked, expanded, Made>>
    BY DEF Calls!vars
  <2>0. TypeOK
    BY DEF RuntimeInv
  <2>1. ASSUME NEW t \in Threads, NewAnalysis(t)
        PROVE  Calls!Forget(t)
    <3>1. /\ phase[t] = "idle" /\ UNCHANGED <<phase, key, tasks>>
          /\ expanded' = [expanded EXCEPT ![t] = << >>]
      BY <2>1 DEF NewAnalysis
    <3>2. Asked[t] = NoKey /\ UNCHANGED <<Asked, Made>>
      BY <3>1 DEF Asked, Made
    <3> QED
      BY <3>1, <3>2 DEF Calls!Forget
  <2>2. ASSUME NEW t \in Threads, NEW k \in Keys, Hit(t, k)
        PROVE  UNCHANGED <<Asked, expanded, Made>>
    BY <2>2 DEF Hit, Asked, Made
  <2>3. ASSUME NEW t \in Threads, NEW k \in Keys, Miss(t, k)
        PROVE  Calls!Ask(t, k)
    <3>1. /\ phase[t] = "idle" /\ k \notin DOMAIN expanded[t] /\ UNCHANGED <<tasks, expanded>>
          /\ phase' = [phase EXCEPT ![t] = "runtime"] /\ key' = [key EXCEPT ![t] = k]
      BY <2>3 DEF Miss, Ask, GoTo
    <3>2. Asked[t] = NoKey /\ Asked' = [Asked EXCEPT ![t] = k] /\ UNCHANGED Made
      BY <2>0, <3>1 DEF Asked, Made, TypeOK
    <3> QED
      BY <3>1, <3>2 DEF Calls!Ask
  <2>4. ASSUME NEW t \in Threads, Expand(t)
        PROVE  Calls!Return(t) \/ UNCHANGED <<Asked, expanded, Made>>
    BY <2>4, ExpandIsCall
  <2>5. ASSUME Runtime
        PROVE  (\E k \in Keys : Calls!Make(k)) \/ UNCHANGED <<Asked, expanded, Made>>
    BY <2>5, RuntimeMakes
  <2>6. CASE UNCHANGED vars
    BY <2>6 DEF vars, threads, Asked, Made
  <2> QED
    BY <2>1, <2>2, <2>3, <2>4, <2>5, <2>6 DEF Next, Calls!Next
<1> QED
  BY <1>1, <1>2, InvHolds, PTL DEF Spec, Calls!Safety
=============================================================================
