--------------------------- MODULE DepGraphProofs ---------------------------
(***************************************************************************)
(* The depth-first search of DepGraph is right for every program and every *)
(* order of the keys: what it reports are cycles, and what it leaves       *)
(* unreported is free of them.  The order topo_order returns is one the    *)
(* variables can be initialized in, by an invariant on its counts.         *)
(***************************************************************************)
EXTENDS DepGraph, SequenceTheorems, FiniteSetTheorems, TLAPS

Frames == [name : Nodes, next : Nat]

-----------------------------------------------------------------------------
(* The graph. *)

LEMMA BuildType ==
    ASSUME NEW program \in Programs, NEW last \in [Declared(program) -> DOMAIN program],
           NEW n \in DOMAIN Build(program, last)
    PROVE  Build(program, last)[n] \in Seq(Names)
<1>1. program \in Seq([name : Names, refs : Seq(Names)])
  BY ProgramsAssumption
<1>2. last[n] \in 1 .. Len(program)
  BY <1>1 DEF Build
<1>3. program[last[n]] \in [name : Names, refs : Seq(Names)]
  BY <1>1, <1>2, ElementOfSeq
<1> QED
  BY <1>3 DEF Build

LEMMA InitSearch == Init => SearchInv
<1> SUFFICES ASSUME Init
             PROVE  SearchInv
  OBVIOUS
<1>1. PICK program \in Programs :
        \E last \in [Declared(program) -> DOMAIN program] : deps = Build(program, last)
  BY DEF Init
<1>2. \A n \in Nodes : deps[n] \in Seq(Names)
  BY <1>1, BuildType DEF Nodes
<1>3. SearchTypes
  BY <1>2 DEF Init, SearchTypes
<1>4. StackIsPath /\ KeysVisited /\ FollowedIsClosed /\ ReportsAreCycles
  BY DEF Init, StackIsPath, KeysVisited, FollowedIsClosed, ReportsAreCycles
<1>5. Left = {}
  BY DEF Init, Left
<1>6. LeftIsClosed /\ LeftIsAcyclic
  BY <1>5 DEF LeftIsClosed, LeftIsAcyclic
<1> QED
  BY <1>3, <1>4, <1>6 DEF SearchInv

-----------------------------------------------------------------------------
(* The frame on top. *)

LEMMA StackFacts ==
    ASSUME SearchTypes
    PROVE  /\ Len(stack) \in Nat /\ DOMAIN stack = 1 .. Len(stack)
           /\ \A i \in DOMAIN stack : /\ stack[i] \in Frames
                                     /\ stack[i].name \in Nodes /\ stack[i].next \in Nat
           /\ stack # << >> => Len(stack) \in DOMAIN stack
           /\ \A n \in Nodes : /\ Len(deps[n]) \in Nat
                               /\ DOMAIN deps[n] = 1 .. Len(deps[n])
<1>1. stack \in Seq(Frames) /\ \A n \in Nodes : deps[n] \in Seq(Names)
  BY DEF SearchTypes, Frames
<1>2. /\ Len(stack) \in Nat /\ DOMAIN stack = 1 .. Len(stack)
      /\ stack # << >> => Len(stack) \in DOMAIN stack
  BY <1>1, LenProperties, EmptySeq
<1>3. \A i \in DOMAIN stack : stack[i] \in Frames
  BY <1>1, <1>2, ElementOfSeq
<1>4. \A n \in Nodes : Len(deps[n]) \in Nat /\ DOMAIN deps[n] = 1 .. Len(deps[n])
  BY <1>1, LenProperties
<1> QED
  BY <1>2, <1>3, <1>4 DEF Frames

LEMMA AdvancedFacts ==
    ASSUME SearchTypes, stack # << >>
    PROVE  /\ Advanced \in Seq(Frames) /\ Len(Advanced) = Len(stack)
           /\ DOMAIN Advanced = DOMAIN stack
           /\ \A i \in DOMAIN stack : Advanced[i].name = stack[i].name
           /\ \A i \in 1 .. Len(stack) - 1 : Advanced[i].next = stack[i].next
           /\ Advanced[Len(stack)].next = Top.next + 1
<1> DEFINE top == Len(stack)
           frame == [stack[top] EXCEPT !.next = @ + 1]
<1>1. top \in 1 .. Len(stack) /\ stack[top] \in Frames /\ stack \in Seq(Frames)
  BY StackFacts DEF SearchTypes, Frames
<1>2. frame \in Frames /\ frame.name = stack[top].name /\ frame.next = stack[top].next + 1
  BY <1>1 DEF Frames
<1>3. Advanced = [stack EXCEPT ![top] = frame]
  BY DEF Advanced
<1> HIDE DEF top, frame
<1>4. /\ Advanced \in Seq(Frames) /\ Len(Advanced) = Len(stack)
      /\ \A i \in 1 .. Len(stack) : Advanced[i] = IF i = top THEN frame ELSE stack[i]
  BY <1>1, <1>2, <1>3, ExceptSeq
<1>5. DOMAIN Advanced = DOMAIN stack
  BY <1>4, <1>1, LenProperties
<1>6. \A i \in DOMAIN stack : Advanced[i] = IF i = top THEN frame ELSE stack[i]
  BY <1>4, <1>5, StackFacts
<1>7. \A i \in DOMAIN stack : Advanced[i].name = stack[i].name
  BY <1>2, <1>6
<1>8. \A i \in 1 .. Len(stack) - 1 : Advanced[i].next = stack[i].next
  BY <1>6, StackFacts DEF top
<1>9. Advanced[Len(stack)].next = Top.next + 1
  BY <1>2, <1>6, StackFacts DEF top, Top
<1> QED
  BY <1>4, <1>5, <1>7, <1>8, <1>9

-----------------------------------------------------------------------------
(* A reference is followed: the top frame advances. *)

\* What a step that follows a reference to `target` keeps, when target is no
\* name, or is left already, or is reported by the step.
LEMMA AdvanceInv ==
    ASSUME SearchInv, stack # << >>, Following,
           stack' = Advanced, UNCHANGED <<deps, phase, keys, visited>>,
           Reported \subseteq Reported',
           Target \in Nodes => Target \in Left \/ <<Top.name, Target>> \in Reported',
           reports' \in Seq(Seq(Nodes)), ReportsAreCycles'
    PROVE  SearchInv'
<1> USE DEF SearchInv
<1>1. Nodes' = Nodes /\ Edges' = Edges
  BY DEF Nodes, Edges
<1>2. OnStack' = OnStack /\ Left' = Left
  BY AdvancedFacts DEF OnStack, Left
<1>3. SearchTypes'
  BY <1>1, AdvancedFacts DEF SearchTypes, Frames
<1>4. StackIsPath'
  <2>1. ASSUME NEW i \in DOMAIN stack'
        PROVE  /\ stack'[i].name \in visited'
               /\ stack'[i].next \in 1 .. Len(deps'[stack'[i].name]) + 1
    <3>1. CASE i = Len(stack)
      BY <3>1, AdvancedFacts, StackFacts DEF StackIsPath, Following, Top
    <3>2. CASE i # Len(stack)
      BY <3>2, AdvancedFacts, StackFacts DEF StackIsPath
    <3> QED
      BY <3>1, <3>2
  <2>2. \A i, j \in DOMAIN stack' : stack'[i].name = stack'[j].name => i = j
    BY AdvancedFacts DEF StackIsPath
  <2>3. ASSUME NEW i \in 1 .. Len(stack') - 1
        PROVE  /\ stack'[i].next > 1
               /\ deps'[stack'[i].name][stack'[i].next - 1] = stack'[i + 1].name
    <3>1. i \in 1 .. Len(stack) - 1 /\ i \in DOMAIN stack /\ i + 1 \in DOMAIN stack
      BY AdvancedFacts, StackFacts
    <3>2. /\ stack'[i].name = stack[i].name /\ stack'[i].next = stack[i].next
          /\ stack'[i + 1].name = stack[i + 1].name
      BY <3>1, AdvancedFacts
    <3> QED
      BY <3>1, <3>2 DEF StackIsPath
  <2> QED
    BY <2>1, <2>2, <2>3 DEF StackIsPath
<1>5. KeysVisited'
  BY <1>1 DEF KeysVisited
<1>6. LeftIsClosed'
  BY <1>1, <1>2 DEF LeftIsClosed
<1>7. FollowedIsClosed'
  <2> SUFFICES ASSUME NEW i \in DOMAIN stack', NEW k \in 1 .. stack'[i].next - 1,
                      deps[stack[i].name][k] \in Nodes
               PROVE  \/ deps[stack[i].name][k] \in Left
                      \/ <<stack[i].name, deps[stack[i].name][k]>> \in Reported'
                      \/ /\ i < Len(stack)
                         /\ deps[stack[i].name][k] = stack[i + 1].name
    <3>1. \A i \in DOMAIN stack' : i < Len(stack) => i + 1 \in DOMAIN stack
      BY AdvancedFacts, StackFacts
    <3> QED
      BY <1>1, <1>2, <3>1, AdvancedFacts DEF FollowedIsClosed
  <2>1. CASE k \in 1 .. stack[i].next - 1
    BY <2>1, AdvancedFacts DEF FollowedIsClosed
  <2>2. CASE k \notin 1 .. stack[i].next - 1
    <3>1. i = Len(stack) /\ k = Top.next
      BY <2>2, AdvancedFacts, StackFacts DEF Top
    <3> QED
      BY <3>1 DEF Target, Top
  <2> QED
    BY <2>1, <2>2
<1>8. LeftIsAcyclic'
  BY <1>1, <1>2 DEF LeftIsAcyclic
<1> QED
  BY <1>3, <1>4, <1>5, <1>6, <1>7, <1>8

LEMMA SkipInv == SearchInv /\ Skip => SearchInv'
<1> SUFFICES ASSUME SearchInv, Skip
             PROVE  SearchInv'
  OBVIOUS
<1>1. Target \in Nodes => Target \in Left
  BY DEF Skip, Left
<1>2. Reported' = Reported /\ ReportsAreCycles' /\ reports' \in Seq(Seq(Nodes))
  BY DEF Skip, Reported, Closing, ReportsAreCycles, Edges, Nodes, SearchInv, SearchTypes
<1> QED
  BY <1>1, <1>2, AdvanceInv DEF Skip

\* The report of a cycle: the names on the stack from the target to the top.
LEMMA CycleOnStack ==
    ASSUME SearchTypes, StackIsPath, stack # << >>, Following,
           NEW pos \in DOMAIN stack, stack[pos].name = Target
    PROVE  /\ NamesFrom(pos) \in Seq(Nodes)
           /\ Closing(NamesFrom(pos)) = <<Top.name, Target>>
           /\ <<Top.name, Target>> \in Edges
           /\ \A k \in 1 .. Len(NamesFrom(pos)) - 1 :
                 <<NamesFrom(pos)[k], NamesFrom(pos)[k + 1]>> \in Edges
           /\ \A j, k \in DOMAIN NamesFrom(pos) :
                 NamesFrom(pos)[j] = NamesFrom(pos)[k] => j = k
<1> DEFINE cycle == NamesFrom(pos)
           n == Len(stack) - pos + 1
<1>1. pos \in 1 .. Len(stack) /\ n \in Nat /\ n >= 1
  BY StackFacts
<1>2. DOMAIN cycle = 1 .. n
  BY DEF NamesFrom
<1>3. \A k \in 1 .. n : pos + k - 1 \in DOMAIN stack /\ cycle[k] = stack[pos + k - 1].name
  BY <1>1, StackFacts DEF NamesFrom
<1>4. cycle \in [1 .. n -> Nodes]
  BY <1>3, StackFacts DEF NamesFrom
<1>5. cycle \in Seq(Nodes) /\ Len(cycle) = n
  BY <1>1, <1>2, <1>4, SeqDef, LenProperties
<1>6. Top.name \in Nodes /\ Target \in RangeOf(deps[Top.name]) /\ Target \in Nodes
  <2>1. Top.name \in Nodes /\ Top.next \in DOMAIN deps[Top.name]
    BY StackFacts DEF Top, Following, StackIsPath
  <2>2. Target \in Nodes
    BY StackFacts
  <2> QED
    BY <2>1, <2>2 DEF Target, RangeOf
<1>7. cycle[n] = Top.name /\ cycle[1] = Target
  <2>1. pos + n - 1 = Len(stack) /\ pos + 1 - 1 = pos /\ n \in 1 .. n /\ 1 \in 1 .. n
    BY <1>1, StackFacts
  <2> HIDE DEF cycle, n
  <2>2. cycle[n] = stack[pos + n - 1].name /\ cycle[1] = stack[pos + 1 - 1].name
    BY <1>3, <2>1
  <2> QED
    BY <2>1, <2>2 DEF Top
<1>8. \A k \in 1 .. n - 1 : <<cycle[k], cycle[k + 1]>> \in Edges
  <2> SUFFICES ASSUME NEW k \in 1 .. n - 1
               PROVE  <<cycle[k], cycle[k + 1]>> \in Edges
    OBVIOUS
  <2> DEFINE i == pos + k - 1
  <2>0. /\ i \in 1 .. Len(stack) - 1 /\ i \in DOMAIN stack /\ i + 1 \in DOMAIN stack
        /\ pos + (k + 1) - 1 = i + 1 /\ k \in 1 .. n /\ k + 1 \in 1 .. n
    BY <1>1, StackFacts
  <2> HIDE DEF cycle, n
  <2>1. cycle[k] = stack[i].name /\ cycle[k + 1] = stack[i + 1].name
    <3>1. cycle[k] = stack[pos + k - 1].name /\ cycle[k + 1] = stack[pos + (k + 1) - 1].name
      BY <1>3, <2>0
    <3> QED
      BY <2>0, <3>1
  <2> HIDE DEF i
  <2>2. /\ stack[i].name \in Nodes /\ stack[i + 1].name \in Nodes
        /\ stack[i].next - 1 \in DOMAIN deps[stack[i].name]
    BY <2>0, StackFacts DEF StackIsPath
  <2>3. stack[i + 1].name \in RangeOf(deps[stack[i].name])
    BY <2>0, <2>2 DEF StackIsPath, RangeOf
  <2> QED
    BY <2>1, <2>2, <2>3 DEF Edges
<1>9. \A j, k \in 1 .. n : cycle[j] = cycle[k] => j = k
  <2> SUFFICES ASSUME NEW j \in 1 .. n, NEW k \in 1 .. n, cycle[j] = cycle[k]
               PROVE  j = k
    OBVIOUS
  <2> DEFINE p == pos + j - 1
             q == pos + k - 1
  <2>1. /\ p \in DOMAIN stack /\ q \in DOMAIN stack
        /\ stack[p].name = stack[q].name
    BY <1>3
  <2> HIDE DEF p, q
  <2>2. p = q
    BY <2>1 DEF StackIsPath
  <2> QED
    BY <2>2, <1>1 DEF p, q
<1> HIDE DEF cycle, n
<1>10. <<Top.name, Target>> \in Edges
  BY <1>6 DEF Edges
<1>11. Closing(cycle) = <<Top.name, Target>>
  BY <1>5, <1>7 DEF Closing
<1> QED
  BY <1>2, <1>5, <1>8, <1>9, <1>10, <1>11 DEF cycle

LEMMA ReportInv == SearchInv /\ Report => SearchInv'
<1> SUFFICES ASSUME SearchInv, Report
             PROVE  SearchInv'
  OBVIOUS
<1> DEFINE pos == CHOOSE i \in DOMAIN stack : stack[i].name = Target
           cycle == NamesFrom(pos)
<1>1. pos \in DOMAIN stack /\ stack[pos].name = Target
  BY DEF Report, OnStack
<1>2. reports' = Append(reports, cycle)
  BY DEF Report
<1> HIDE DEF pos
<1>3. /\ cycle \in Seq(Nodes)
      /\ Closing(cycle) = <<Top.name, Target>>
      /\ <<Top.name, Target>> \in Edges
      /\ \A k \in 1 .. Len(cycle) - 1 : <<cycle[k], cycle[k + 1]>> \in Edges
      /\ \A j, k \in DOMAIN cycle : cycle[j] = cycle[k] => j = k
  BY <1>1, CycleOnStack DEF Report, SearchInv
<1> HIDE DEF cycle
<1>4. /\ reports' \in Seq(Seq(Nodes)) /\ Len(reports') = Len(reports) + 1
      /\ DOMAIN reports' = 1 .. Len(reports) + 1 /\ DOMAIN reports = 1 .. Len(reports)
      /\ Len(reports) \in Nat
      /\ \A i \in 1 .. Len(reports) : reports'[i] = reports[i]
      /\ reports'[Len(reports) + 1] = cycle
  BY <1>2, <1>3, AppendProperties, LenProperties DEF SearchInv, SearchTypes
<1>5. Reported \subseteq Reported' /\ <<Top.name, Target>> \in Reported'
  <2>1. \A i \in DOMAIN reports : i \in DOMAIN reports' /\ Closing(reports[i]) = Closing(reports'[i])
    BY <1>4 DEF Closing
  <2>2. Closing(reports'[Len(reports) + 1]) = <<Top.name, Target>>
    BY <1>3, <1>4
  <2>3. Len(reports) + 1 \in DOMAIN reports'
    BY <1>4
  <2>4. Reported' = {Closing(reports'[i]) : i \in DOMAIN reports'}
    BY DEF Reported, Closing
  <2> QED
    BY <2>1, <2>2, <2>3, <2>4 DEF Reported
<1>6. ReportsAreCycles'
  <2>1. Edges' = Edges
    BY DEF Report, Edges, Nodes
  <2>2. ASSUME NEW i \in DOMAIN reports'
        PROVE  /\ Closing(reports'[i]) \in Edges
               /\ \A k \in 1 .. Len(reports'[i]) - 1 :
                     <<reports'[i][k], reports'[i][k + 1]>> \in Edges
               /\ \A j, k \in DOMAIN reports'[i] : reports'[i][j] = reports'[i][k] => j = k
    <3>1. CASE i \in 1 .. Len(reports)
      BY <3>1, <1>4 DEF SearchInv, ReportsAreCycles
    <3>2. CASE i = Len(reports) + 1
      BY <3>2, <1>3, <1>4
    <3> QED
      BY <3>1, <3>2, <1>4
  <2> QED
    BY <2>1, <2>2 DEF ReportsAreCycles, Closing
<1> QED
  BY <1>4, <1>5, <1>6, AdvanceInv DEF Report


-----------------------------------------------------------------------------
(* A name is entered, a name is left. *)

LEMMA DescendFacts ==
    ASSUME SearchInv, Descend
    PROVE  /\ stack' \in Seq(Frames) /\ Len(stack') = Len(stack) + 1
           /\ Len(stack) \in Nat /\ Len(stack) >= 1
           /\ DOMAIN stack = 1 .. Len(stack) /\ DOMAIN stack' = 1 .. Len(stack) + 1
           /\ \A i \in 1 .. Len(stack) : stack'[i].name = stack[i].name
           /\ \A i \in 1 .. Len(stack) - 1 : stack'[i].next = stack[i].next
           /\ stack'[Len(stack)].next = Top.next + 1
           /\ stack'[Len(stack) + 1] = [name |-> Target, next |-> 1]
<1> DEFINE frame == [name |-> Target, next |-> 1]
<1>1. frame \in Frames
  BY DEF Descend, Frames
<1>2. SearchTypes /\ stack # << >>
  BY DEF SearchInv, Descend
<1>3. stack' = Append(Advanced, frame)
  BY DEF Descend
<1> HIDE DEF frame
<1>4. /\ stack' \in Seq(Frames) /\ Len(stack') = Len(stack) + 1
      /\ \A i \in 1 .. Len(stack) : stack'[i] = Advanced[i]
      /\ stack'[Len(stack) + 1] = frame
  BY <1>1, <1>2, <1>3, AdvancedFacts, AppendProperties
<1>5. Len(stack) \in Nat /\ Len(stack) >= 1 /\ DOMAIN stack = 1 .. Len(stack)
  BY <1>2, StackFacts
<1>6. DOMAIN stack' = 1 .. Len(stack) + 1
  BY <1>4, LenProperties
<1>7. /\ \A i \in 1 .. Len(stack) : stack'[i].name = stack[i].name
      /\ \A i \in 1 .. Len(stack) - 1 : stack'[i].next = stack[i].next
      /\ stack'[Len(stack)].next = Top.next + 1
  BY <1>2, <1>4, <1>5, AdvancedFacts
<1> QED
  BY <1>4, <1>5, <1>6, <1>7 DEF frame

LEMMA DescendInv == SearchInv /\ Descend => SearchInv'
<1> SUFFICES ASSUME SearchInv, Descend
             PROVE  SearchInv'
  OBVIOUS
<1> DEFINE n == Len(stack)
<1>1. Nodes' = Nodes /\ Edges' = Edges /\ Reported' = Reported /\ ReportsAreCycles'
  BY DEF Descend, Nodes, Edges, Reported, Closing, ReportsAreCycles, SearchInv
<1>2. /\ SearchTypes /\ stack # << >> /\ Target \in Nodes /\ Target \notin visited
      /\ visited' = visited \cup {Target} /\ deps' = deps
      /\ phase' = phase /\ keys' = keys /\ reports' = reports /\ Following
  BY DEF Descend, SearchInv
<1>3. SearchTypes'
  BY <1>1, <1>2, DescendFacts DEF SearchTypes, Frames
<1>4. OnStack' = OnStack \cup {Target}
  <2>1. \A i \in DOMAIN stack : i \in DOMAIN stack' /\ stack'[i].name = stack[i].name
    BY DescendFacts
  <2>2. n + 1 \in DOMAIN stack' /\ stack'[n + 1].name = Target
    BY DescendFacts
  <2>3. \A i \in DOMAIN stack' : i \in DOMAIN stack \/ i = n + 1
    BY DescendFacts
  <2> QED
    BY <2>1, <2>2, <2>3 DEF OnStack
<1>5. OnStack \subseteq visited
  BY DEF OnStack, SearchInv, StackIsPath
<1>6. Left' = Left
  BY <1>2, <1>4, <1>5 DEF Left
<1>7. StackIsPath'
  <2>1. ASSUME NEW i \in DOMAIN stack'
        PROVE  /\ stack'[i].name \in visited'
               /\ stack'[i].next \in 1 .. Len(deps[stack'[i].name]) + 1
    <3>1. CASE i \in 1 .. n - 1
      <4>1. /\ i \in DOMAIN stack
            /\ stack'[i].name = stack[i].name /\ stack'[i].next = stack[i].next
        BY <3>1, DescendFacts
      <4> QED
        BY <4>1, <1>2 DEF SearchInv, StackIsPath
    <3>2. CASE i = n
      <4>1. stack[n].name \in Nodes /\ Len(deps[stack[n].name]) \in Nat
        BY <1>2, StackFacts
      <4>2. Top.next \in 1 .. Len(deps[Top.name]) /\ stack'[n].name = Top.name
        BY <1>2, <4>1, DescendFacts DEF SearchInv, StackIsPath, Following, Top
      <4> QED
        BY <3>2, <1>2, <4>1, <4>2, DescendFacts DEF SearchInv, StackIsPath, Top
    <3>3. CASE i = n + 1
      BY <3>3, <1>2, StackFacts, DescendFacts
    <3> QED
      BY <3>1, <3>2, <3>3, DescendFacts
  <2>2. ASSUME NEW i \in DOMAIN stack', NEW j \in DOMAIN stack',
               stack'[i].name = stack'[j].name
        PROVE  i = j
    <3>1. \A m \in 1 .. n : stack'[m].name \in visited
      BY DescendFacts DEF SearchInv, StackIsPath
    <3>2. stack'[n + 1].name \notin visited
      BY <1>2, DescendFacts
    <3>3. (i \in 1 .. n /\ j \in 1 .. n) \/ (i = n + 1 /\ j = n + 1)
      BY <2>2, <3>1, <3>2, DescendFacts
    <3> QED
      BY <2>2, <3>3, DescendFacts DEF SearchInv, StackIsPath
  <2>3. ASSUME NEW i \in 1 .. n
        PROVE  /\ stack'[i].next > 1
               /\ deps[stack'[i].name][stack'[i].next - 1] = stack'[i + 1].name
    <3>1. CASE i \in 1 .. n - 1
      <4>1. i \in 1 .. n /\ i + 1 \in 1 .. n
        BY <3>1, DescendFacts
      <4>2. /\ stack'[i].name = stack[i].name /\ stack'[i].next = stack[i].next
            /\ stack'[i + 1].name = stack[i + 1].name
        BY <3>1, <4>1, DescendFacts
      <4> QED
        BY <3>1, <4>2 DEF SearchInv, StackIsPath
    <3>2. CASE i = n
      <4>1. Top.next \in Nat /\ Top.next >= 1
        BY <1>2, StackFacts DEF Top, SearchInv, StackIsPath
      <4>2. stack'[n].next - 1 = Top.next /\ stack'[n].name = Top.name
        BY <4>1, DescendFacts DEF Top
      <4> QED
        BY <3>2, <4>1, <4>2, DescendFacts DEF Target
    <3>3. n \in Nat
      BY DescendFacts
    <3> HIDE DEF n
    <3>4. i \in 1 .. n - 1 \/ i = n
      BY <3>3
    <3> QED
      BY <3>1, <3>2, <3>4
  <2>4. Len(stack') - 1 = n
    BY DescendFacts
  <2> QED
    BY <1>2, <2>1, <2>2, <2>3, <2>4 DEF StackIsPath
<1>8. KeysVisited'
  BY <1>1, <1>2 DEF KeysVisited, SearchInv
<1>9. LeftIsClosed' /\ LeftIsAcyclic'
  BY <1>1, <1>2, <1>6 DEF LeftIsClosed, LeftIsAcyclic, SearchInv
<1>10. FollowedIsClosed'
  <2> SUFFICES ASSUME NEW i \in DOMAIN stack', NEW k \in 1 .. stack'[i].next - 1,
                      deps[stack'[i].name][k] \in Nodes
               PROVE  \/ deps[stack'[i].name][k] \in Left
                      \/ <<stack'[i].name, deps[stack'[i].name][k]>> \in Reported
                      \/ /\ i < Len(stack')
                         /\ deps[stack'[i].name][k] = stack'[i + 1].name
    BY <1>1, <1>2, <1>6 DEF FollowedIsClosed
  <2>1. CASE i \in 1 .. n - 1
    <3>1. /\ i \in DOMAIN stack /\ i < n /\ i < Len(stack')
          /\ stack'[i].name = stack[i].name /\ stack'[i].next = stack[i].next
          /\ stack'[i + 1].name = stack[i + 1].name
      BY <2>1, DescendFacts
    <3> QED
      BY <3>1 DEF SearchInv, FollowedIsClosed
  <2>2. CASE i = n
    <3>1. /\ stack'[i].name = stack[i].name /\ stack'[i].next = stack[i].next + 1
          /\ i \in DOMAIN stack /\ ~(i < n) /\ i < Len(stack')
          /\ stack[i].next \in Nat /\ stack[i] = Top
      BY <1>2, <2>2, StackFacts, DescendFacts DEF Top
    <3>2. CASE k = Top.next
      BY <3>1, <3>2, <2>2, DescendFacts DEF Target
    <3>3. CASE k # Top.next
      <4>1. k \in 1 .. stack[i].next - 1
        BY <3>1, <3>3
      <4> QED
        BY <3>1, <4>1 DEF SearchInv, FollowedIsClosed
    <3> QED
      BY <3>2, <3>3
  <2>3. CASE i = n + 1
    BY <2>3, DescendFacts
  <2> QED
    BY <2>1, <2>2, <2>3, DescendFacts
<1> QED
  BY <1>1, <1>3, <1>7, <1>8, <1>9, <1>10 DEF SearchInv

LEMMA ReturnFacts ==
    ASSUME SearchInv, Return
    PROVE  /\ stack' \in Seq(Frames) /\ Len(stack') = Len(stack) - 1
           /\ Len(stack) \in Nat /\ Len(stack) >= 1
           /\ DOMAIN stack = 1 .. Len(stack) /\ DOMAIN stack' = 1 .. Len(stack) - 1
           /\ \A i \in 1 .. Len(stack) - 1 : stack'[i] = stack[i]
           /\ Top.name \in Nodes /\ Top.name \in visited
           /\ Len(deps[Top.name]) \in Nat /\ Top.next = Len(deps[Top.name]) + 1
<1>1. SearchTypes /\ stack # << >> /\ stack \in Seq(Frames)
  BY DEF SearchInv, SearchTypes, Frames, Return
<1>2. Len(stack) \in Nat /\ Len(stack) >= 1 /\ DOMAIN stack = 1 .. Len(stack)
  BY <1>1, StackFacts
<1>3. stack' = SubSeq(stack, 1, Len(stack) - 1)
  BY DEF Return
<1>4. /\ stack' \in Seq(Frames) /\ Len(stack') = Len(stack) - 1
      /\ \A i \in 1 .. Len(stack) - 1 : stack'[i] = stack[i]
  BY <1>1, <1>2, <1>3, SubSeqProperties
<1>5. DOMAIN stack' = 1 .. Len(stack) - 1
  BY <1>4, LenProperties
<1>6. Top.name \in Nodes /\ Len(deps[Top.name]) \in Nat
  BY <1>1, StackFacts DEF Top
<1>7. Top.name \in visited /\ Top.next \in 1 .. Len(deps[Top.name]) + 1
  BY <1>2 DEF Top, SearchInv, StackIsPath
<1>8. Top.next = Len(deps[Top.name]) + 1
  BY <1>6, <1>7 DEF Return, Following
<1> QED
  BY <1>2, <1>4, <1>5, <1>6, <1>7, <1>8

\* All references of the name on top are left already or reported.
LEMMA TopIsClosed ==
    ASSUME SearchInv, Return, NEW k \in 1 .. Len(deps[Top.name]),
           deps[Top.name][k] \in Nodes
    PROVE  deps[Top.name][k] \in Left \/ <<Top.name, deps[Top.name][k]>> \in Reported
<1>1. Len(stack) \in DOMAIN stack /\ ~(Len(stack) < Len(stack)) /\ k \in 1 .. Top.next - 1
  BY ReturnFacts
<1> QED
  BY <1>1 DEF Top, SearchInv, FollowedIsClosed

LEMMA ReturnInv == SearchInv /\ Return => SearchInv'
<1> SUFFICES ASSUME SearchInv, Return
             PROVE  SearchInv'
  OBVIOUS
<1> DEFINE n == Top.name
           len == Len(stack)
<1>1. Nodes' = Nodes /\ Edges' = Edges /\ Reported' = Reported /\ ReportsAreCycles'
  BY DEF Return, Nodes, Edges, Reported, Closing, ReportsAreCycles, SearchInv
<1>2. /\ SearchTypes /\ visited' = visited /\ deps' = deps /\ stack # << >>
      /\ phase' = phase /\ keys' = keys /\ reports' = reports
  BY DEF Return, SearchInv
<1>3. SearchTypes'
  BY <1>1, <1>2, ReturnFacts DEF SearchTypes, Frames
<1>4. OnStack' = OnStack \ {n} /\ n \in OnStack
  <2>1. \A i \in 1 .. len - 1 : /\ i \in DOMAIN stack /\ i \in DOMAIN stack'
                                /\ stack'[i].name = stack[i].name /\ i # len
    BY ReturnFacts
  <2>2. len \in DOMAIN stack /\ stack[len].name = n
    BY ReturnFacts DEF Top
  <2>3. \A i \in 1 .. len - 1 : stack[i].name # n
    BY <2>1, <2>2 DEF SearchInv, StackIsPath
  <2>4. DOMAIN stack' = 1 .. len - 1 /\ \A i \in DOMAIN stack : i \in 1 .. len - 1 \/ i = len
    BY ReturnFacts
  <2> HIDE DEF n, len
  <2> QED
    BY <2>1, <2>2, <2>3, <2>4 DEF OnStack
<1>5. Left' = Left \cup {n} /\ n \notin Left /\ n \in Nodes
  BY <1>2, <1>4, ReturnFacts DEF Left
<1>6. StackIsPath'
  <2>1. \A i \in 1 .. len - 1 : i \in DOMAIN stack /\ stack'[i] = stack[i]
    BY ReturnFacts
  <2>2. \A i \in 1 .. len - 2 : i \in 1 .. len - 1 /\ i + 1 \in 1 .. len - 1
    BY ReturnFacts
  <2>3. Len(stack') - 1 = len - 2 /\ DOMAIN stack' = 1 .. len - 1
    BY ReturnFacts
  <2>4. ASSUME NEW i \in 1 .. len - 2
        PROVE  /\ stack'[i].next > 1
               /\ deps[stack'[i].name][stack'[i].next - 1] = stack'[i + 1].name
    BY <2>1, <2>2 DEF SearchInv, StackIsPath
  <2> HIDE DEF len
  <2>5. \A i \in DOMAIN stack' : /\ stack'[i].name \in visited
                                 /\ stack'[i].next \in 1 .. Len(deps[stack'[i].name]) + 1
    BY <2>1, <2>3 DEF SearchInv, StackIsPath
  <2>6. \A i, j \in DOMAIN stack' : stack'[i].name = stack'[j].name => i = j
    BY <2>1, <2>3 DEF SearchInv, StackIsPath
  <2> QED
    BY <1>2, <2>3, <2>4, <2>5, <2>6 DEF StackIsPath
<1>7. KeysVisited'
  BY <1>1, <1>2 DEF KeysVisited, SearchInv
<1>8. LeftIsClosed'
  <2> SUFFICES ASSUME NEW m \in Left \cup {n}, NEW k \in 1 .. Len(deps[m]),
                      deps[m][k] \in Nodes
               PROVE  deps[m][k] \in Left \cup {n} \/ <<m, deps[m][k]>> \in Reported
    BY <1>1, <1>2, <1>5 DEF LeftIsClosed
  <2>1. CASE m \in Left
    BY <2>1 DEF SearchInv, LeftIsClosed
  <2>2. CASE m = n
    BY <2>2, TopIsClosed
  <2> QED
    BY <2>1, <2>2
<1>9. FollowedIsClosed'
  <2> SUFFICES ASSUME NEW i \in 1 .. len - 1, NEW k \in 1 .. stack[i].next - 1,
                      deps[stack[i].name][k] \in Nodes
               PROVE  \/ deps[stack[i].name][k] \in Left \cup {n}
                      \/ <<stack[i].name, deps[stack[i].name][k]>> \in Reported
                      \/ /\ i < len - 1
                         /\ deps[stack[i].name][k] = stack'[i + 1].name
    <3>1. \A i \in 1 .. len - 1 : stack'[i] = stack[i]
      BY ReturnFacts
    <3>2. DOMAIN stack' = 1 .. len - 1 /\ Len(stack') = len - 1
      BY ReturnFacts
    <3> HIDE DEF n, len
    <3> QED
      BY <1>1, <1>2, <1>5, <3>1, <3>2 DEF FollowedIsClosed
  <2>1. i \in DOMAIN stack /\ (i < len - 1 => stack'[i + 1] = stack[i + 1])
    BY ReturnFacts
  <2>2. i + 1 = len \/ i < len - 1
    BY ReturnFacts
  <2>3. \/ deps[stack[i].name][k] \in Left
        \/ <<stack[i].name, deps[stack[i].name][k]>> \in Reported
        \/ deps[stack[i].name][k] = stack[i + 1].name
    BY <2>1 DEF SearchInv, FollowedIsClosed
  <2> QED
    BY <2>1, <2>2, <2>3 DEF Top
<1>10. LeftIsAcyclic'
  <2> SUFFICES ASSUME NEW waiting \in SUBSET (Left \cup {n}), waiting # {},
                      \A m \in waiting : \E d \in waiting : <<m, d>> \in Edges \ Reported
               PROVE  FALSE
    BY <1>1, <1>5 DEF LeftIsAcyclic
  <2>1. n \in waiting
    <3>1. LeftIsAcyclic
      BY DEF SearchInv
    <3> SUFFICES ASSUME n \notin waiting
                 PROVE  FALSE
      OBVIOUS
    <3>2. waiting \in SUBSET Left
      OBVIOUS
    <3> HIDE DEF n
    <3> QED
      BY <3>1, <3>2 DEF LeftIsAcyclic
  <2>2. waiting \ {n} = {}
    <3> SUFFICES ASSUME waiting \ {n} # {}
                 PROVE  FALSE
      OBVIOUS
    <3>1. PICK m \in waiting \ {n} : \A d \in waiting \ {n} : <<m, d>> \notin Edges \ Reported
      BY DEF SearchInv, LeftIsAcyclic
    <3>2. <<m, n>> \in Edges /\ <<m, n>> \notin Reported
      BY <3>1
    <3>3. m \in Left /\ m \in Nodes
      BY <1>2 DEF Left, SearchTypes
    <3>4. PICK k \in DOMAIN deps[m] : deps[m][k] = n
      BY <3>2 DEF Edges, RangeOf
    <3>5. k \in 1 .. Len(deps[m])
      BY <1>2, <3>3, <3>4, StackFacts
    <3> QED
      BY <1>5, <3>2, <3>3, <3>4, <3>5 DEF SearchInv, LeftIsClosed
  <2>3. <<n, n>> \in Edges /\ <<n, n>> \notin Reported
    BY <2>1, <2>2
  <2>4. PICK k \in DOMAIN deps[n] : deps[n][k] = n
    BY <2>3 DEF Edges, RangeOf
  <2>5. k \in 1 .. Len(deps[n])
    BY <1>2, <1>5, <2>4, StackFacts
  <2> QED
    BY <1>5, <2>3, <2>4, <2>5, TopIsClosed
<1> QED
  BY <1>1, <1>3, <1>6, <1>7, <1>8, <1>9, <1>10 DEF SearchInv

-----------------------------------------------------------------------------
(* The outer loop, and the steps that leave the search alone. *)

LEMMA RootInv ==
    ASSUME NEW n \in Nodes
    PROVE  SearchInv /\ Root(n) => SearchInv'
<1> SUFFICES ASSUME SearchInv, Root(n)
             PROVE  SearchInv'
  OBVIOUS
<1>1. /\ Nodes' = Nodes /\ Edges' = Edges /\ Reported' = Reported /\ ReportsAreCycles'
      /\ deps' = deps /\ reports' = reports /\ phase' = phase /\ phase = "cycles"
      /\ keys' = keys \ {n} /\ stack = << >>
  BY DEF Root, Nodes, Edges, Reported, Closing, ReportsAreCycles, SearchInv
<1>2. OnStack = {} /\ Left = visited
  BY <1>1 DEF OnStack, Left
<1>3. CASE n \in visited
  <2>1. visited' = visited /\ stack' = stack
    BY <1>3 DEF Root
  <2>2. OnStack' = OnStack /\ Left' = Left
    BY <2>1 DEF OnStack, Left
  <2>3. SearchTypes' /\ StackIsPath' /\ FollowedIsClosed' /\ KeysVisited'
    BY <1>1, <1>3, <2>1, <2>2
    DEF SearchInv, SearchTypes, StackIsPath, FollowedIsClosed, KeysVisited
  <2>4. LeftIsClosed' /\ LeftIsAcyclic'
    BY <1>1, <2>2 DEF SearchInv, LeftIsClosed, LeftIsAcyclic
  <2> QED
    BY <1>1, <2>3, <2>4 DEF SearchInv
<1>4. CASE n \notin visited
  <2>1. visited' = visited \cup {n} /\ stack' = <<[name |-> n, next |-> 1]>>
    BY <1>4 DEF Root
  <2>2. stack' \in Seq(Frames) /\ Len(stack') = 1 /\ DOMAIN stack' = {1}
        /\ stack'[1].name = n /\ stack'[1].next = 1
    BY <2>1 DEF Frames
  <2>3. OnStack' = {n}
    BY <2>2 DEF OnStack
  <2>4. Left' = Left
    BY <1>2, <1>4, <2>1, <2>3 DEF Left
  <2>5. SearchTypes'
    BY <1>1, <2>1, <2>2 DEF SearchInv, SearchTypes, Frames
  <2>6. StackIsPath'
    <3>1. Len(deps[n]) \in Nat
      BY StackFacts DEF SearchInv
    <3> QED
      BY <1>1, <2>1, <2>2, <3>1 DEF StackIsPath
  <2>7. FollowedIsClosed'
    BY <2>2 DEF FollowedIsClosed
  <2>8. KeysVisited'
    BY <1>1, <2>1 DEF SearchInv, KeysVisited
  <2>9. LeftIsClosed' /\ LeftIsAcyclic'
    BY <1>1, <2>4 DEF SearchInv, LeftIsClosed, LeftIsAcyclic
  <2> QED
    BY <1>1, <2>5, <2>6, <2>7, <2>8, <2>9 DEF SearchInv
<1> QED
  BY <1>3, <1>4

LEMMA SearchKept ==
    ASSUME SearchInv, UNCHANGED <<deps, search>>, phase' \in {"cycles", "order", "done"},
           stack # << >> => phase' = phase
    PROVE  SearchInv'
<1>1. Nodes' = Nodes /\ Edges' = Edges /\ Reported' = Reported /\ OnStack' = OnStack
  BY DEF search, Nodes, Edges, Reported, Closing, OnStack
<1>2. Left' = Left /\ visited' = visited /\ keys' = keys /\ stack' = stack
      /\ reports' = reports /\ deps' = deps
  BY <1>1 DEF search, Left
<1>3. SearchTypes' /\ StackIsPath' /\ KeysVisited'
  BY <1>1, <1>2 DEF SearchInv, SearchTypes, StackIsPath, KeysVisited
<1>4. LeftIsClosed' /\ FollowedIsClosed' /\ LeftIsAcyclic'
  BY <1>1, <1>2 DEF SearchInv, LeftIsClosed, FollowedIsClosed, LeftIsAcyclic
<1>5. ReportsAreCycles'
  BY <1>1, <1>2 DEF SearchInv, ReportsAreCycles, Closing
<1> QED
  BY <1>3, <1>4, <1>5 DEF SearchInv

LEMMA NextInv == SearchInv /\ [Next]_vars => SearchInv'
<1> SUFFICES ASSUME SearchInv, [Next]_vars
             PROVE  SearchInv'
  OBVIOUS
<1>1. phase \in {"cycles", "order", "done"} /\ (stack # << >> => phase = "cycles")
  BY DEF SearchInv, SearchTypes, KeysVisited
<1>2. ASSUME NEW n \in Nodes, Root(n) PROVE SearchInv'
  BY <1>2, RootInv
<1>3. ASSUME NEW n \in Nodes, Settle(n) PROVE SearchInv'
  BY <1>1, <1>3, SearchKept DEF Settle
<1>4. CASE Report
  BY <1>4, ReportInv
<1>5. CASE Skip
  BY <1>5, SkipInv
<1>6. CASE Descend
  BY <1>6, DescendInv
<1>7. CASE Return
  BY <1>7, ReturnInv
<1>8. CASE CyclesDone
  BY <1>8, SearchKept DEF CyclesDone
<1>9. CASE Take
  BY <1>1, <1>9, SearchKept DEF Take
<1>10. CASE OrderDone
  BY <1>1, <1>10, SearchKept DEF OrderDone
<1>11. CASE UNCHANGED vars
  BY <1>1, <1>11, SearchKept DEF vars
<1> QED
  BY <1>2, <1>3, <1>4, <1>5, <1>6, <1>7, <1>8, <1>9, <1>10, <1>11 DEF Next, Finished

-----------------------------------------------------------------------------
\* dfs_cycle keeps, between two references, what SearchInv says.
THEOREM SearchIsRight == Spec => []SearchInv
<1> QED
  BY InitSearch, NextInv, PTL DEF Spec

\* Every report of detect_cycles is a cycle of the program.
THEOREM CyclesAreReal == Spec => []ReportsAreCycles
<1>1. SearchInv => ReportsAreCycles
  BY DEF SearchInv
<1> QED
  BY <1>1, SearchIsRight, PTL

\* detect_cycles misses nothing: with the references it reports removed, every
\* variable of the program can be initialized.
THEOREM NothingCircularEscapes == Spec => []ReportsBreakEveryCycle
<1>1. SearchInv => ReportsBreakEveryCycle
  <2> SUFFICES ASSUME SearchInv, phase = "done", keys = {}
               PROVE  ~Circular(Edges \ Reported)
    BY DEF ReportsBreakEveryCycle
  <2>1. stack = << >> /\ Nodes \subseteq visited
    BY DEF SearchInv, KeysVisited
  <2>2. Nodes \subseteq Left
    BY <2>1 DEF Left, OnStack
  <2> QED
    BY <2>2 DEF Circular, SearchInv, LeftIsAcyclic
<1> QED
  BY <1>1, SearchIsRight, PTL

-----------------------------------------------------------------------------
(* topo_order.  A name is counted down once for each name taken that it    *)
(* refers to; the counts reach zero when all its references are taken.     *)

\* A sequence names at most as many as it has places, and as many when none
\* is in it twice.
LEMMA RangeCount ==
    ASSUME NEW T, NEW seq \in Seq(T)
    PROVE  /\ IsFiniteSet(RangeOf(seq)) /\ Cardinality(RangeOf(seq)) \in Nat
           /\ RangeOf(seq) \subseteq T
           /\ Cardinality(RangeOf(seq)) <= Len(seq)
           /\ (\A i, j \in DOMAIN seq : seq[i] = seq[j] => i = j) =>
                  Cardinality(RangeOf(seq)) = Len(seq)
<1> DEFINE places == 1 .. Len(seq)
<1>1. Len(seq) \in Nat /\ DOMAIN seq = places
  BY LenProperties
<1>2. IsFiniteSet(places) /\ Cardinality(places) = Len(seq)
  BY <1>1, FS_Interval
<1>3. \A i \in places : seq[i] \in T
  BY <1>1, ElementOfSeq
<1>4. seq = [i \in places |-> seq[i]]
  BY SeqDef, <1>1
<1>5. seq \in Surjection(places, RangeOf(seq))
  BY <1>1, <1>4 DEF Surjection, RangeOf
<1> HIDE DEF places
<1>6. /\ IsFiniteSet(RangeOf(seq)) /\ Cardinality(RangeOf(seq)) <= Cardinality(places)
      /\ (Cardinality(RangeOf(seq)) = Cardinality(places) <=> seq \in Injection(places, RangeOf(seq)))
  BY <1>2, <1>5, FS_Surjection
<1>7. (\A i, j \in DOMAIN seq : seq[i] = seq[j] => i = j) => seq \in Injection(places, RangeOf(seq))
  BY <1>1, <1>5 DEF Surjection, Injection, IsInjective
<1> QED
  BY <1>1, <1>2, <1>3, <1>6, <1>7, FS_CardinalityType DEF RangeOf

LEMMA RangeAppend ==
    ASSUME NEW T, NEW seq \in Seq(T), NEW x \in T
    PROVE  /\ Append(seq, x) \in Seq(T) /\ Append(seq, x) # << >>
           /\ Len(Append(seq, x)) = Len(seq) + 1 /\ Len(seq) \in Nat
           /\ DOMAIN seq = 1 .. Len(seq) /\ DOMAIN Append(seq, x) = 1 .. Len(seq) + 1
           /\ \A i \in 1 .. Len(seq) : Append(seq, x)[i] = seq[i]
           /\ Append(seq, x)[Len(seq) + 1] = x
           /\ RangeOf(Append(seq, x)) = RangeOf(seq) \cup {x}
           /\ x \notin RangeOf(seq) /\ (\A i, j \in DOMAIN seq : seq[i] = seq[j] => i = j) =>
                  \A i, j \in DOMAIN Append(seq, x) : Append(seq, x)[i] = Append(seq, x)[j] => i = j
<1> DEFINE longer == Append(seq, x)
<1>1. /\ longer \in Seq(T) /\ Len(longer) = Len(seq) + 1
      /\ \A i \in 1 .. Len(seq) : longer[i] = seq[i]
      /\ longer[Len(seq) + 1] = x
  BY AppendProperties
<1>2. Len(seq) \in Nat /\ DOMAIN seq = 1 .. Len(seq)
  BY LenProperties
<1> HIDE DEF longer
<1>3. DOMAIN longer = 1 .. Len(seq) + 1
  BY <1>1, LenProperties
<1>4. longer # << >>
  BY <1>1, <1>2
<1>5. \A i \in 1 .. Len(seq) + 1 : i \in 1 .. Len(seq) \/ i = Len(seq) + 1
  BY <1>2
<1>6. 1 .. Len(seq) \subseteq 1 .. Len(seq) + 1 /\ Len(seq) + 1 \in 1 .. Len(seq) + 1
  BY <1>2
<1>7. RangeOf(longer) = RangeOf(seq) \cup {x}
  BY <1>1, <1>2, <1>3, <1>5, <1>6 DEF RangeOf
<1>8. ASSUME x \notin RangeOf(seq), \A i, j \in DOMAIN seq : seq[i] = seq[j] => i = j,
             NEW i \in DOMAIN longer, NEW j \in DOMAIN longer, longer[i] = longer[j]
      PROVE  i = j
  BY <1>1, <1>2, <1>3, <1>5, <1>8 DEF RangeOf
<1> QED
  BY <1>1, <1>2, <1>3, <1>4, <1>7, <1>8 DEF longer

LEMMA RangeFront ==
    ASSUME NEW T, NEW seq \in Seq(T), seq # << >>,
           \A i, j \in DOMAIN seq : seq[i] = seq[j] => i = j
    PROVE  LET front == SubSeq(seq, 1, Len(seq) - 1)
               last == seq[Len(seq)]
           IN  /\ front \in Seq(T) /\ last \in T /\ last \in RangeOf(seq)
               /\ \A i, j \in DOMAIN front : front[i] = front[j] => i = j
               /\ RangeOf(front) = RangeOf(seq) \ {last}
<1> DEFINE n == Len(seq)
           front == SubSeq(seq, 1, n - 1)
<1>1. n \in Nat /\ n >= 1 /\ DOMAIN seq = 1 .. n
  BY LenProperties, EmptySeq
<1>2. /\ front \in Seq(T) /\ Len(front) = n - 1
      /\ \A i \in 1 .. n - 1 : front[i] = seq[i]
  BY <1>1, SubSeqProperties
<1>3. seq[n] \in T /\ n \in DOMAIN seq
  BY <1>1, ElementOfSeq
<1> HIDE DEF front, n
<1>4. DOMAIN front = 1 .. n - 1
  BY <1>2, LenProperties
<1>5. \A i \in 1 .. n : i \in 1 .. n - 1 \/ i = n
  BY <1>1
<1>6. n \notin 1 .. n - 1 /\ 1 .. n - 1 \subseteq 1 .. n
  BY <1>1
<1>7. RangeOf(front) = RangeOf(seq) \ {seq[n]}
  BY <1>1, <1>2, <1>3, <1>4, <1>5, <1>6 DEF RangeOf
<1>8. \A i, j \in DOMAIN front : front[i] = front[j] => i = j
  BY <1>1, <1>2, <1>4, <1>6
<1>9. seq[n] \in RangeOf(seq)
  BY <1>3 DEF RangeOf
<1> QED
  BY <1>2, <1>3, <1>7, <1>8, <1>9 DEF front, n

-----------------------------------------------------------------------------
LEMMA InitOrder == Init => OrderInv
<1> SUFFICES ASSUME Init
             PROVE  OrderInv
  OBVIOUS
<1>0. SearchTypes
  BY InitSearch DEF SearchInv
<1>1. PICK program \in Programs :
        \E last \in [Declared(program) -> DOMAIN program] : deps = Build(program, last)
  BY DEF Init
<1>2. program \in Seq([name : Names, refs : Seq(Names)])
  BY ProgramsAssumption
<1>3. Nodes = Declared(program)
  BY <1>1 DEF Nodes, Build
<1>4. Nodes \subseteq Names /\ IsFiniteSet(Nodes)
  <2> DEFINE names == [i \in 1 .. Len(program) |-> program[i].name]
  <2>1. Len(program) \in Nat /\ DOMAIN program = 1 .. Len(program)
    BY <1>2, LenProperties
  <2>2. \A i \in 1 .. Len(program) : program[i].name \in Names
    <3> TAKE i \in 1 .. Len(program)
    <3>1. program[i] \in [name : Names, refs : Seq(Names)]
      BY <1>2, ElementOfSeq
    <3> QED
      BY <3>1
  <2>3. names \in Seq(Names)
    BY <2>1, <2>2, SeqDef
  <2>4. Nodes = RangeOf(names)
    BY <1>3, <2>1 DEF Declared, RangeOf
  <2> HIDE DEF names
  <2> QED
    BY <2>3, <2>4, RangeCount
<1>5. \A n \in Nodes : Len(deps[n]) \in Nat /\ DOMAIN deps[n] = 1 .. Len(deps[n])
  BY <1>0, StackFacts
<1>6. OrderTypes /\ OrderIsValid
  BY <1>4, <1>5 DEF Init, OrderTypes, OrderIsValid
<1>7. ASSUME phase = "order"
      PROVE  Sorting
  <2> DEFINE free == {n \in Nodes : Len(deps[n]) = 0}
  <2>1. ready \in [1 .. Cardinality(free) -> free] /\ RangeOf(ready) = free
    BY <1>7 DEF Init
  <2>2. free \in SUBSET Nodes
    OBVIOUS
  <2>3. \A n \in free : n \in Nodes /\ RangeOf(deps[n]) = {}
    BY <1>5 DEF RangeOf
  <2>4. \A n \in Nodes : n \in free <=> Len(deps[n]) = 0
    OBVIOUS
  <2> HIDE DEF free
  <2>5. IsFiniteSet(free) /\ Cardinality(free) \in Nat
    BY <1>4, <2>2, FS_Subset, FS_CardinalityType
  <2>6. /\ IsFiniteSet(1 .. Cardinality(free))
        /\ Cardinality(1 .. Cardinality(free)) = Cardinality(free)
    BY <2>5, FS_Interval
  <2>7. ready \in Surjection(1 .. Cardinality(free), free)
    BY <2>1 DEF Surjection, RangeOf
  <2>8. ready \in Injection(1 .. Cardinality(free), free)
    BY <2>6, <2>7, FS_Surjection
  <2>9. order = << >> /\ RangeOf(order) = {} /\ others = {} /\ DOMAIN order = {}
    BY DEF Init, RangeOf
  <2>10. TakenOnce
    <3>1. ready \in Seq(Nodes)
      BY <2>1, <2>2, <2>5, SeqDef
    <3>2. order \in Seq(Nodes)
      BY <2>9, EmptySeq
    <3>3. \A i, j \in DOMAIN ready : ready[i] = ready[j] => i = j
      BY <2>8 DEF Injection, IsInjective
    <3> QED
      BY <3>1, <3>2, <3>3, <2>9 DEF TakenOnce
  <2>11. CountsAreUnmet
    <3>1. \A n \in Nodes : RangeOf(deps[n]) \cap Compared(n) = {}
      BY <2>9 DEF Compared
    <3>2. \A n \in Nodes : indeg[n] = Len(deps[n])
      BY DEF Init
    <3>3. Cardinality({}) = 0
      BY FS_EmptySet
    <3>4. \A n \in Nodes : Cardinality(RangeOf(deps[n]) \cap Compared(n)) = 0
      BY <3>1, <3>3
    <3> QED
      BY <1>5, <3>2, <3>4 DEF CountsAreUnmet
  <2>12. FreeOnesAreTaken
    BY <2>1, <2>4, <2>9 DEF FreeOnesAreTaken, Init
  <2>13. ReferencesFirst
    BY <2>1, <2>3, <2>9 DEF ReferencesFirst
  <2> QED
    BY <2>10, <2>11, <2>12, <2>13 DEF Sorting
<1> QED
  BY <1>6, <1>7 DEF OrderInv

\* detect_cycles has nothing to do with the order.
LEMMA SearchStep ==
    ASSUME OrderInv, phase = "cycles", phase' \in {"cycles", "done"},
           UNCHANGED <<deps, sorting>>
    PROVE  OrderInv'
<1>1. /\ Nodes' = Nodes /\ Edges' = Edges /\ UNCHANGED <<deps, indeg, ready, order, current, others>>
      /\ order = << >> /\ others = {}
  BY DEF Nodes, Edges, sorting, OrderInv, OrderTypes
<1>2. OrderTypes'
  BY <1>1 DEF OrderInv, OrderTypes
<1>3. OrderIsValid'
  <2>1. indeg' \in [Nodes -> Nat]
    BY <1>1 DEF OrderInv, OrderIsValid
  <2>2. RangeOf(order) = {} /\ order # <<NoName>>
    BY <1>1 DEF RangeOf
  <2>3. Nodes = {} => Edges = {}
    BY DEF Edges
  <2>4. RangeOf(order)' = RangeOf(order)
    BY <1>1 DEF RangeOf
  <2> QED
    BY <1>1, <2>1, <2>2, <2>3, <2>4 DEF OrderIsValid
<1> QED
  BY <1>2, <1>3 DEF OrderInv

LEMMA TakeStep ==
    ASSUME SearchTypes, OrderInv, Take
    PROVE  OrderInv'
<1>1. /\ TakenOnce /\ CountsAreUnmet /\ FreeOnesAreTaken /\ ReferencesFirst
      /\ Nodes \subseteq Names /\ IsFiniteSet(Nodes) /\ indeg \in [Nodes -> Nat]
  BY DEF Take, OrderInv, OrderTypes, OrderIsValid, Sorting
<1> DEFINE c == ready[Len(ready)]
<1>2. /\ phase = "order" /\ phase' = "order" /\ others = {} /\ others' = Nodes
      /\ deps' = deps /\ indeg' = indeg /\ current' = c
      /\ ready' = SubSeq(ready, 1, Len(ready) - 1) /\ order' = Append(order, c)
      /\ Nodes' = Nodes
  BY DEF Take, Nodes
<1>3. /\ ready' \in Seq(Nodes) /\ c \in Nodes /\ c \in RangeOf(ready)
      /\ \A i, j \in DOMAIN ready' : ready'[i] = ready'[j] => i = j
      /\ RangeOf(ready') = RangeOf(ready) \ {c}
  BY <1>1, <1>2, RangeFront DEF Take, TakenOnce
<1> HIDE DEF c
<1>4. /\ order' \in Seq(Nodes) /\ order' # << >> /\ Len(order') = Len(order) + 1
      /\ Len(order) \in Nat /\ DOMAIN order = 1 .. Len(order)
      /\ DOMAIN order' = 1 .. Len(order) + 1
      /\ \A i \in 1 .. Len(order) : order'[i] = order[i]
      /\ order'[Len(order) + 1] = c
      /\ RangeOf(order') = RangeOf(order) \cup {c}
      /\ \A i, j \in DOMAIN order' : order'[i] = order'[j] => i = j
  <2>1. order \in Seq(Nodes) /\ c \in Nodes /\ order' = Append(order, c)
    BY <1>1, <1>2, <1>3 DEF TakenOnce
  <2>2. /\ \A i, j \in DOMAIN order : order[i] = order[j] => i = j
        /\ c \notin RangeOf(order)
    BY <1>1, <1>2, <1>3 DEF TakenOnce
  <2> QED
    BY <2>1, <2>2, RangeAppend
<1>5. OrderTypes' /\ OrderIsValid'
  BY <1>1, <1>2 DEF OrderTypes, OrderIsValid
<1>6. TakenOnce'
  BY <1>1, <1>2, <1>3, <1>4 DEF TakenOnce, RangeOf
<1>7. \A n \in Nodes : Compared(n)' = Compared(n)
  <2>1. c \notin RangeOf(order)
    BY <1>1, <1>3 DEF TakenOnce
  <2>2. \A n \in Nodes : Compared(n)' = RangeOf(order') \ {c}
    BY <1>2 DEF Compared, RangeOf
  <2> QED
    BY <1>2, <1>4, <2>1, <2>2 DEF Compared
<1>8. CountsAreUnmet'
  BY <1>1, <1>2, <1>7 DEF CountsAreUnmet, RangeOf
<1>9. FreeOnesAreTaken'
  <2>1. RangeOf(order)' = RangeOf(order') /\ RangeOf(ready)' = RangeOf(ready')
    BY DEF RangeOf
  <2> QED
    BY <1>1, <1>2, <1>3, <1>4, <2>1 DEF FreeOnesAreTaken
<1>10. ReferencesFirst'
  <2>1. \A n \in RangeOf(ready) : RangeOf(deps[n]) \subseteq RangeOf(order)
    BY <1>1 DEF ReferencesFirst
  <2>2. ASSUME NEW j \in 1 .. Len(order) + 1
        PROVE  RangeOf(deps[order'[j]]) \subseteq {order'[i] : i \in 1 .. j - 1}
    <3>1. CASE j \in 1 .. Len(order)
      <4>1. RangeOf(deps[order[j]]) \subseteq {order[i] : i \in 1 .. j - 1}
        BY <1>1, <1>4, <3>1 DEF ReferencesFirst
      <4>2. \A i \in 1 .. j - 1 : order'[i] = order[i]
        BY <1>4, <3>1
      <4> QED
        BY <1>4, <3>1, <4>1, <4>2
    <3>2. CASE j = Len(order) + 1
      <4>1. j - 1 = Len(order) /\ order'[j] = c
        BY <1>4, <3>2
      <4>2. RangeOf(order) = {order'[i] : i \in 1 .. Len(order)}
        BY <1>4 DEF RangeOf
      <4> QED
        BY <1>3, <2>1, <4>1, <4>2
    <3> QED
      BY <1>4, <3>1, <3>2
  <2>3. \A n \in RangeOf(ready') : RangeOf(deps[n]) \subseteq RangeOf(order')
    BY <1>3, <1>4, <2>1
  <2>4. /\ \A j \in DOMAIN order' : RangeOf(deps'[order'[j]]) \subseteq {order'[i] : i \in 1 .. j - 1}
        /\ \A n \in RangeOf(ready') : RangeOf(deps'[n]) \subseteq RangeOf(order')
    BY <1>2, <1>4, <2>2, <2>3
  <2> QED
    BY <2>4 DEF ReferencesFirst, RangeOf
<1> QED
  BY <1>5, <1>6, <1>8, <1>9, <1>10 DEF OrderInv, Sorting

LEMMA SettleStep ==
    ASSUME SearchTypes, OrderInv, NEW m \in Nodes, Settle(m)
    PROVE  OrderInv'
<1>1. /\ TakenOnce /\ CountsAreUnmet /\ FreeOnesAreTaken /\ ReferencesFirst
      /\ Nodes \subseteq Names /\ IsFiniteSet(Nodes) /\ indeg \in [Nodes -> Nat]
      /\ others \subseteq Nodes /\ phase = "order"
  BY DEF Settle, OrderInv, OrderTypes, OrderIsValid, Sorting
<1> DEFINE met == current \in RangeOf(deps[m])
           left == indeg[m] - 1
<1>2. /\ m \in others /\ others' = others \ {m} /\ phase' = phase /\ deps' = deps
      /\ indeg' = IF met THEN [indeg EXCEPT ![m] = left] ELSE indeg
      /\ ready' = IF met /\ left = 0 THEN Append(ready, m) ELSE ready
      /\ order' = order /\ current' = current /\ Nodes' = Nodes
  BY DEF Settle, Nodes
<1>3. /\ order \in Seq(Nodes) /\ ready \in Seq(Nodes) /\ current \in RangeOf(order)
  BY <1>1, <1>2, LenProperties, EmptySeq DEF TakenOnce, RangeOf
<1>4. deps[m] \in Seq(Names) /\ Len(deps[m]) \in Nat /\ indeg[m] \in Nat
  BY <1>1, LenProperties DEF SearchTypes
\* What m refers to, and what of it was met before this turn.
<1> DEFINE refs == RangeOf(deps[m])
           before == refs \cap Compared(m)
           after == refs \cap RangeOf(order)
<1>5. Compared(m) = RangeOf(order) \ {current}
  BY <1>2 DEF Compared
<1>6. /\ IsFiniteSet(refs) /\ Cardinality(refs) \in Nat /\ Cardinality(refs) <= Len(deps[m])
  BY <1>4, RangeCount
<1>7. indeg[m] = Len(deps[m]) - Cardinality(before)
  BY <1>1 DEF CountsAreUnmet
<1>8. after \in SUBSET refs /\ before \in SUBSET refs
  OBVIOUS
<1>9. IF met THEN after = before \cup {current} /\ current \notin before
      ELSE after = before
  BY <1>3, <1>5
<1> HIDE DEF refs, before, after
<1>10. /\ IsFiniteSet(before) /\ Cardinality(before) \in Nat
       /\ Cardinality(after) \in Nat /\ Cardinality(after) <= Cardinality(refs)
       /\ Cardinality(after) = Cardinality(refs) => after = refs
  BY <1>6, <1>8, FS_Subset, FS_CardinalityType
<1>11. Cardinality(after) = IF met THEN Cardinality(before) + 1 ELSE Cardinality(before)
  BY <1>9, <1>10, FS_AddElement
<1> HIDE DEF met
<1>12. met => left \in Nat
  BY <1>4, <1>6, <1>7, <1>10, <1>11
<1>13. indeg' \in [Nodes -> Nat]
  BY <1>1, <1>2, <1>12
<1>14. met => indeg[m] # 0 /\ m \notin RangeOf(order) /\ m \notin RangeOf(ready)
  <2>1. met => indeg[m] # 0
    BY <1>4, <1>12
  <2> QED
    BY <1>1, <2>1 DEF FreeOnesAreTaken
<1>15. OrderTypes' /\ OrderIsValid'
  BY <1>1, <1>2, <1>13 DEF OrderTypes, OrderIsValid
<1>16. IF met /\ left = 0
       THEN /\ ready' \in Seq(Nodes) /\ RangeOf(ready') = RangeOf(ready) \cup {m}
            /\ \A i, j \in DOMAIN ready' : ready'[i] = ready'[j] => i = j
       ELSE ready' = ready
  <2>1. ready \in Seq(Nodes) /\ \A i, j \in DOMAIN ready : ready[i] = ready[j] => i = j
    BY <1>1 DEF TakenOnce
  <2>2. CASE met /\ left = 0
    <3>1. ready' = Append(ready, m) /\ m \notin RangeOf(ready)
      BY <1>2, <1>14, <2>2
    <3> QED
      BY <2>1, <2>2, <3>1, RangeAppend
  <2> QED
    BY <1>2, <2>2
<1>17. TakenOnce'
  <2>1. RangeOf(order') \cap RangeOf(ready') = {}
    BY <1>1, <1>2, <1>14, <1>16 DEF TakenOnce
  <2>2. ready' \in Seq(Nodes) /\ \A i, j \in DOMAIN ready' : ready'[i] = ready'[j] => i = j
    BY <1>1, <1>16 DEF TakenOnce
  <2>3. order # << >> /\ current = order[Len(order)]
    BY <1>1, <1>2 DEF TakenOnce
  <2> QED
    BY <1>1, <1>2, <2>1, <2>2, <2>3 DEF TakenOnce, RangeOf
<1>18. CountsAreUnmet'
  <2>1. ASSUME NEW n \in Nodes
        PROVE  indeg'[n] = Len(deps[n]) - Cardinality(RangeOf(deps[n]) \cap Compared(n)')
    <3>1. CASE n # m
      <4>1. Compared(n)' = Compared(n)
        BY <1>2, <3>1 DEF Compared, RangeOf
      <4>2. indeg'[n] = indeg[n]
        BY <1>1, <1>2, <3>1
      <4> QED
        BY <1>1, <4>1, <4>2 DEF CountsAreUnmet
    <3>2. CASE n = m
      <4>1. RangeOf(deps[n]) \cap Compared(n)' = after
        BY <1>2, <3>2 DEF Compared, RangeOf, after, refs
      <4>2. indeg'[m] = IF met THEN indeg[m] - 1 ELSE indeg[m]
        BY <1>1, <1>2
      <4>3. indeg'[m] = Len(deps[m]) - Cardinality(after)
        BY <1>4, <1>7, <1>10, <1>11, <4>2
      <4> QED
        BY <3>2, <4>1, <4>3
    <3> QED
      BY <3>1, <3>2
  <2> QED
    BY <1>2, <2>1 DEF CountsAreUnmet, RangeOf
<1>19. FreeOnesAreTaken'
  <2>1. ASSUME NEW n \in Nodes
        PROVE  n \in RangeOf(order) \cup RangeOf(ready') <=> indeg'[n] = 0
    <3>1. n \in RangeOf(order) \cup RangeOf(ready) <=> indeg[n] = 0
      BY <1>1 DEF FreeOnesAreTaken
    <3>2. indeg'[n] = IF met /\ n = m THEN left ELSE indeg[n]
      BY <1>1, <1>2
    <3> QED
      BY <1>14, <1>16, <3>1, <3>2
  <2>2. RangeOf(order)' = RangeOf(order) /\ RangeOf(ready)' = RangeOf(ready')
    BY <1>2 DEF RangeOf
  <2> QED
    BY <1>2, <2>1, <2>2 DEF FreeOnesAreTaken
<1>20. ReferencesFirst'
  <2>1. ASSUME met, left = 0
        PROVE  refs \subseteq RangeOf(order)
    <3>1. Cardinality(after) = Cardinality(refs)
      BY <2>1, <1>4, <1>6, <1>7, <1>10, <1>11
    <3> QED
      BY <3>1, <1>10 DEF after
  <2>2. \A n \in RangeOf(ready') : RangeOf(deps[n]) \subseteq RangeOf(order)
    BY <1>1, <1>16, <2>1 DEF ReferencesFirst, refs
  <2>3. /\ \A j \in DOMAIN order' : RangeOf(deps'[order'[j]]) \subseteq {order'[i] : i \in 1 .. j - 1}
        /\ \A n \in RangeOf(ready') : RangeOf(deps'[n]) \subseteq RangeOf(order')
    <3>1. \A j \in DOMAIN order : RangeOf(deps[order[j]]) \subseteq {order[i] : i \in 1 .. j - 1}
      BY <1>1 DEF ReferencesFirst
    <3>2. order' = order /\ deps' = deps
      BY <1>2
    <3>3. \A j \in DOMAIN order' : RangeOf(deps'[order'[j]]) \subseteq {order'[i] : i \in 1 .. j - 1}
      BY <3>1, <3>2
    <3>4. \A n \in RangeOf(ready') : RangeOf(deps'[n]) \subseteq RangeOf(order')
      BY <2>2, <3>2
    <3> QED
      BY <3>3, <3>4
  <2> QED
    BY <2>3 DEF ReferencesFirst, RangeOf
<1> QED
  BY <1>15, <1>17, <1>18, <1>19, <1>20 DEF OrderInv, Sorting

\* The order is whole, or what is left of the program waits for itself or for
\* a reference that cannot be met.
LEMMA OrderDoneStep ==
    ASSUME SearchTypes, OrderInv, OrderDone
    PROVE  OrderInv'
<1>1. /\ TakenOnce /\ CountsAreUnmet /\ FreeOnesAreTaken /\ ReferencesFirst
      /\ Nodes \subseteq Names /\ IsFiniteSet(Nodes) /\ indeg \in [Nodes -> Nat]
  BY DEF OrderDone, OrderInv, OrderTypes, OrderIsValid, Sorting
<1>2. /\ others = {} /\ others' = {} /\ ready = << >> /\ phase = "order" /\ phase' = "done"
      /\ deps' = deps /\ indeg' = indeg /\ Nodes' = Nodes /\ Edges' = Edges
      /\ order' = IF Len(order) = Cardinality(Nodes) THEN order ELSE <<NoName>>
  BY DEF OrderDone, Nodes, Edges
<1>3. OrderTypes'
  BY <1>1, <1>2 DEF OrderTypes
<1>4. /\ order \in Seq(Nodes) /\ RangeOf(order) \subseteq Nodes
      /\ Cardinality(RangeOf(order)) = Len(order)
      /\ DOMAIN order = 1 .. Len(order) /\ Len(order) \in Nat
  BY <1>1, RangeCount, LenProperties DEF TakenOnce
<1>5. CASE Len(order) = Cardinality(Nodes)
  <2>1. order # <<NoName>>
    <3>1. ASSUME order = <<NoName>>
          PROVE  FALSE
      <4>1. order[1] = NoName /\ 1 \in DOMAIN order
        BY <3>1
      <4>2. order[1] \in Nodes
        BY <1>4, <4>1 DEF RangeOf
      <4> QED
        BY <4>1, <4>2, <1>1, ProgramsAssumption
    <3> QED
      BY <3>1
  <2>2. ASSUME RangeOf(order) = Nodes, NEW e \in Edges
        PROVE  \E i, j \in DOMAIN order : i < j /\ order[i] = e[2] /\ order[j] = e[1]
    <3>1. e[1] \in Nodes /\ e[2] \in RangeOf(deps[e[1]])
      BY DEF Edges
    <3>2. PICK j \in DOMAIN order : order[j] = e[1]
      BY <2>2, <3>1 DEF RangeOf
    <3>3. PICK i \in 1 .. j - 1 : order[i] = e[2]
      BY <1>1, <3>1, <3>2 DEF ReferencesFirst
    <3>4. i < j /\ i \in DOMAIN order
      BY <1>4, <3>2, <3>3
    <3> QED
      BY <3>2, <3>3, <3>4
  <2>3. order' = order
    BY <1>2, <1>5
  <2> QED
    BY <1>1, <1>2, <1>3, <2>1, <2>2, <2>3 DEF OrderInv, OrderIsValid, RangeOf
<1>6. CASE Len(order) # Cardinality(Nodes)
  <2> DEFINE waiting == Nodes \ RangeOf(order)
  <2>1. waiting # {}
    BY <1>4, <1>6
  <2>2. ASSUME \A n \in Nodes : ~(Cardinality(RangeOf(deps[n]) \cap Nodes) < Len(deps[n])),
               NEW n \in waiting
        PROVE  \E d \in waiting : <<n, d>> \in Edges
    <3> DEFINE refs == RangeOf(deps[n])
               known == refs \cap Nodes
               met == refs \cap RangeOf(order)
    <3>1. deps[n] \in Seq(Names) /\ n \in Nodes
      BY DEF SearchTypes
    <3>2. IsFiniteSet(refs) /\ Len(deps[n]) \in Nat
      BY <3>1, RangeCount, LenProperties
    <3>3. met \in SUBSET refs /\ known \in SUBSET refs
      OBVIOUS
    <3>4. /\ Cardinality(met) \in Nat /\ Cardinality(known) \in Nat
      BY <3>2, <3>3, FS_Subset, FS_CardinalityType
    <3>5. indeg[n] = Len(deps[n]) - Cardinality(met)
      BY <1>1, <1>2, <3>1 DEF CountsAreUnmet, Compared
    <3>6. indeg[n] # 0 /\ indeg[n] \in Nat
      <4>1. RangeOf(ready) = {}
        BY <1>2 DEF RangeOf
      <4>2. n \notin RangeOf(order)
        OBVIOUS
      <4> QED
        BY <1>1, <3>1, <4>1, <4>2 DEF FreeOnesAreTaken
    <3>7. Cardinality(known) >= Len(deps[n])
      BY <2>2, <3>1, <3>2, <3>4
    <3>8. met # known
      <4> HIDE DEF met, known
      <4> QED
        BY <3>2, <3>4, <3>5, <3>6, <3>7
    <3>9. met \subseteq known
      BY <1>4
    <3>10. PICK d \in known : d \notin met
      BY <3>8, <3>9
    <3> QED
      BY <3>1, <3>10 DEF Edges
  <2>3. waiting \in (SUBSET Nodes) \ {{}}
    BY <2>1
  <2> HIDE DEF waiting
  <2>4. \/ Circular(Edges)
        \/ \E n \in Nodes : Cardinality(RangeOf(deps[n]) \cap Nodes) < Len(deps[n])
    BY <2>2, <2>3 DEF Circular
  <2>5. order' = <<NoName>>
    BY <1>2, <1>6
  <2>6. /\ Circular(Edges)' = Circular(Edges)
        /\ \A n \in Nodes : RangeOf(deps[n])' = RangeOf(deps[n])
    BY <1>2 DEF Circular, RangeOf
  <2>7. OrderIsValid'
    BY <1>1, <1>2, <2>4, <2>5, <2>6 DEF OrderIsValid
  <2> QED
    BY <1>2, <1>3, <2>7 DEF OrderInv
<1> QED
  BY <1>5, <1>6

LEMMA NextOrder == SearchInv /\ OrderInv /\ [Next]_vars => OrderInv'
<1> SUFFICES ASSUME SearchInv, OrderInv, [Next]_vars
             PROVE  OrderInv'
  OBVIOUS
<1>1. /\ SearchTypes /\ (stack # << >> => phase = "cycles")
  BY DEF SearchInv, KeysVisited
<1>2. CASE \/ \E n \in Nodes : Root(n)
           \/ Report \/ Skip \/ Descend \/ Return \/ CyclesDone
  <2>1. /\ phase = "cycles" /\ phase' \in {"cycles", "done"} /\ UNCHANGED <<deps, sorting>>
    BY <1>1, <1>2 DEF Root, Report, Skip, Descend, Return, CyclesDone
  <2> QED
    BY <2>1, SearchStep
<1>3. ASSUME NEW n \in Nodes, Settle(n)
      PROVE  OrderInv'
  BY <1>1, <1>3, SettleStep
<1>4. CASE Take
  BY <1>1, <1>4, TakeStep
<1>5. CASE OrderDone
  BY <1>1, <1>5, OrderDoneStep
<1>6. CASE UNCHANGED vars
  <2>1. /\ UNCHANGED <<deps, phase, indeg, ready, order, current, others>>
        /\ Nodes' = Nodes /\ Edges' = Edges
    BY <1>6 DEF vars, sorting, Nodes, Edges
  <2>2. OrderTypes' /\ OrderIsValid'
    BY <2>1 DEF OrderInv, OrderTypes, OrderIsValid, Circular, RangeOf
  <2>3. Sorting => Sorting'
    <3>1. TakenOnce => TakenOnce'
      BY <2>1 DEF TakenOnce, RangeOf
    <3>2. CountsAreUnmet => CountsAreUnmet'
      BY <2>1 DEF CountsAreUnmet, Compared, RangeOf
    <3>3. FreeOnesAreTaken => FreeOnesAreTaken'
      BY <2>1 DEF FreeOnesAreTaken, RangeOf
    <3>4. ReferencesFirst => ReferencesFirst'
      BY <2>1 DEF ReferencesFirst, RangeOf
    <3> QED
      BY <3>1, <3>2, <3>3, <3>4 DEF Sorting
  <2> QED
    BY <2>1, <2>2, <2>3 DEF OrderInv
<1> QED
  BY <1>2, <1>3, <1>4, <1>5, <1>6 DEF Next, Finished

(***************************************************************************)
(* An order topo_order returns is one the variables can be initialized in, *)
(* it gives up only on programs that have none or that refer twice or out  *)
(* of the package, and its counts never fall below zero: for every program *)
(* and in whatever order the maps are walked.                              *)
(***************************************************************************)
THEOREM OrderIsRight == Spec => []OrderIsValid
<1>1. OrderInv => OrderIsValid
  BY DEF OrderInv
<1> QED
  BY <1>1, InitOrder, NextOrder, SearchIsRight, PTL DEF Spec
=============================================================================
