------------------------------ MODULE DepGraph ------------------------------
(***************************************************************************)
(* crates/cj-sema/src/dep_graph.rs: the graph of a package's top-level     *)
(* variables, the depth-first search that reports circular initializers,   *)
(* and Kahn's algorithm for an evaluation order.  Both walk a HashMap, so  *)
(* the order in which they take the names is any order at all; the graph,  *)
(* once built, does not change.                                            *)
(*                                                                         *)
(* Every definition below works with sequences and functions, none is      *)
(* recursive: the stack of dfs_cycle is a variable.                        *)
(***************************************************************************)
EXTENDS Integers, Sequences, FiniteSets

CONSTANTS Names,
          Programs,  \* sequences of declarations [name, refs]
          NoName     \* no name, nothing returned

ASSUME ProgramsAssumption ==
    /\ Programs \subseteq Seq([name : Names, refs : Seq(Names)])
    /\ NoName \notin Names

VARIABLES
    deps,      \* name -> the names its initializer refers to, in order
    phase,     \* "cycles": detect_cycles; "order": topo_order; "done"
    keys,      \* names the outer loop has yet to take
    visited,
    stack,     \* frames of dfs_cycle: a name and the next reference to follow
    reports,   \* cycles reported, each as the stack from its first name on
    indeg,     \* name -> references still unmet
    ready,
    order,
    current,   \* the name topo_order took last from ready
    others     \* names it has yet to compare with current

search == <<keys, visited, stack, reports>>
sorting == <<indeg, ready, order, current, others>>
vars == <<deps, phase, search, sorting>>

Nodes == DOMAIN deps
RangeOf(seq) == {seq[i] : i \in DOMAIN seq}

\* build: a later declaration of a name replaces an earlier one; `last` tells
\* which one stays.
Declared(program) == {program[i].name : i \in DOMAIN program}
IsLast(program, last) ==
    \A n \in Declared(program) :
        /\ program[last[n]].name = n
        /\ \A i \in DOMAIN program : program[i].name = n => i <= last[n]
Build(program, last) == [n \in Declared(program) |-> program[last[n]].refs]

Init ==
    /\ \E program \in Programs : \E last \in [Declared(program) -> DOMAIN program] :
          IsLast(program, last) /\ deps = Build(program, last)
    /\ phase \in {"cycles", "order"}
    /\ keys = Nodes
    /\ visited = {}
    /\ stack = << >>
    /\ reports = << >>
    /\ indeg = [n \in Nodes |-> Len(deps[n])]
    /\ IF phase = "order"
       THEN LET free == {n \in Nodes : Len(deps[n]) = 0}
            IN  ready \in {s \in [1 .. Cardinality(free) -> free] : RangeOf(s) = free}
       ELSE ready = << >>
    /\ order = << >>
    /\ current = NoName
    /\ others = {}

-----------------------------------------------------------------------------
(* detect_cycles and dfs_cycle. *)

Top == stack[Len(stack)]
Following == Top.next <= Len(deps[Top.name])
Target == deps[Top.name][Top.next]
Advanced == [stack EXCEPT ![Len(stack)].next = @ + 1]
OnStack == {stack[i].name : i \in DOMAIN stack}
NamesFrom(pos) == [i \in 1 .. Len(stack) - pos + 1 |-> stack[pos + i - 1].name]

\* The outer loop takes the next name.
Root(n) ==
    /\ phase = "cycles"
    /\ stack = << >>
    /\ n \in keys
    /\ keys' = keys \ {n}
    /\ IF n \in visited THEN UNCHANGED <<visited, stack>>
       ELSE /\ visited' = visited \cup {n}
            /\ stack' = <<[name |-> n, next |-> 1]>>
    /\ UNCHANGED <<deps, phase, reports, sorting>>

\* Mutant of Report: the names that lead to the cycle are reported with it.
ReportWholeStack ==
    /\ stack # << >>
    /\ Following
    /\ Target \in OnStack
    /\ reports' = Append(reports, NamesFrom(1))
    /\ stack' = Advanced
    /\ UNCHANGED <<deps, phase, keys, visited, sorting>>

\* Mutant of Report: one report for the whole program.
ReportFirstOnly ==
    /\ stack # << >>
    /\ Following
    /\ Target \in OnStack
    /\ LET pos == CHOOSE i \in DOMAIN stack : stack[i].name = Target
       IN  reports' = IF reports = << >> THEN <<NamesFrom(pos)>> ELSE reports
    /\ stack' = Advanced
    /\ UNCHANGED <<deps, phase, keys, visited, sorting>>

\* A reference back to a name on the stack closes a cycle.
Report ==
    /\ stack # << >>
    /\ Following
    /\ Target \in OnStack
    /\ LET pos == CHOOSE i \in DOMAIN stack : stack[i].name = Target
       IN  reports' = Append(reports, NamesFrom(pos))
    /\ stack' = Advanced
    /\ UNCHANGED <<deps, phase, keys, visited, sorting>>

\* Names that are no top-level variable, and names seen before, are passed by.
Skip ==
    /\ stack # << >>
    /\ Following
    /\ Target \notin OnStack
    /\ Target \notin Nodes \/ Target \in visited
    /\ stack' = Advanced
    /\ UNCHANGED <<deps, phase, keys, visited, reports, sorting>>

Descend ==
    /\ stack # << >>
    /\ Following
    /\ Target \in Nodes \ visited
    /\ visited' = visited \cup {Target}
    /\ stack' = Append(Advanced, [name |-> Target, next |-> 1])
    /\ UNCHANGED <<deps, phase, keys, reports, sorting>>

Return ==
    /\ stack # << >>
    /\ ~Following
    /\ stack' = SubSeq(stack, 1, Len(stack) - 1)
    /\ UNCHANGED <<deps, phase, keys, visited, reports, sorting>>

CyclesDone ==
    /\ phase = "cycles"
    /\ stack = << >>
    /\ keys = {}
    /\ phase' = "done"
    /\ UNCHANGED <<deps, search, sorting>>

-----------------------------------------------------------------------------
(* topo_order. *)

Take ==
    /\ phase = "order"
    /\ others = {}
    /\ ready # << >>
    /\ current' = ready[Len(ready)]
    /\ ready' = SubSeq(ready, 1, Len(ready) - 1)
    /\ order' = Append(order, current')
    /\ others' = Nodes
    /\ UNCHANGED <<deps, phase, search, indeg>>

\* Mutant of Settle: one reference too early.
SettleEarly(n) ==
    LET met == current \in RangeOf(deps[n])
        left == indeg[n] - 1
    IN  /\ n \in others
        /\ others' = others \ {n}
        /\ indeg' = IF met THEN [indeg EXCEPT ![n] = left] ELSE indeg
        /\ ready' = IF met /\ left = 1 THEN Append(ready, n) ELSE ready
        /\ UNCHANGED <<deps, phase, search, order, current>>

\* One turn of the inner loop: a name that refers to current, however often,
\* has one unmet reference less.
Settle(n) ==
    LET met == current \in RangeOf(deps[n])
        left == indeg[n] - 1
    IN  /\ n \in others
        /\ others' = others \ {n}
        /\ indeg' = IF met THEN [indeg EXCEPT ![n] = left] ELSE indeg
        /\ ready' = IF met /\ left = 0 THEN Append(ready, n) ELSE ready
        /\ UNCHANGED <<deps, phase, search, order, current>>

\* The order is returned only when every name is in it.
OrderDone ==
    /\ phase = "order"
    /\ others = {}
    /\ ready = << >>
    /\ phase' = "done"
    /\ order' = IF Len(order) = Cardinality(Nodes) THEN order ELSE <<NoName>>
    /\ UNCHANGED <<deps, search, indeg, ready, current, others>>

Finished == phase = "done" /\ UNCHANGED vars

Next ==
    \/ \E n \in Nodes : Root(n) \/ Settle(n)
    \/ Report \/ Skip \/ Descend \/ Return \/ CyclesDone
    \/ Take \/ OrderDone
    \/ Finished

\* Plain sequential code: it goes on until it returns.
Spec == Init /\ [][Next]_vars /\ WF_vars(Next)

-----------------------------------------------------------------------------
\* The counters are usize: no subtraction goes below zero.
Edges == {e \in Nodes \X Nodes : e[2] \in RangeOf(deps[e[1]])}

\* Some initializer cannot be evaluated: a set of names each of which waits
\* for another one of the set (or for itself).
Circular(edges) ==
    \E waiting \in (SUBSET Nodes) \ {{}} :
        \A n \in waiting : \E d \in waiting : <<n, d>> \in edges

\* The reference a report is about: from the last name back to the first.
Closing(report) == <<report[Len(report)], report[1]>>
Reported == {Closing(reports[i]) : i \in DOMAIN reports}

(***************************************************************************)
(* Whatever is reported is a cycle of the program: each name refers to the *)
(* next one and the last to the first, and no name is in it twice.         *)
(***************************************************************************)
ReportsAreCycles ==
    \A i \in DOMAIN reports :
        LET cycle == reports[i]
        IN  /\ Closing(cycle) \in Edges
            /\ \A k \in 1 .. Len(cycle) - 1 : <<cycle[k], cycle[k + 1]>> \in Edges
            /\ \A j, k \in DOMAIN cycle : cycle[j] = cycle[k] => j = k

(***************************************************************************)
(* Nothing circular escapes, whatever the order of the keys: a program     *)
(* whose reported references are all removed can be evaluated.             *)
(***************************************************************************)
ReportsBreakEveryCycle ==
    phase = "done" /\ keys = {} => ~Circular(Edges \ Reported)

(***************************************************************************)
(* An order that is returned is one the variables can be initialized in,   *)
(* and topo_order gives up only on a program that is circular or that has  *)
(* a variable whose initializer refers to one name twice or to a name that *)
(* is no variable of the package. Its counts never fall below zero.        *)
(***************************************************************************)
OrderIsValid ==
    /\ indeg \in [Nodes -> Nat]
    /\ phase = "done" /\ order # <<NoName>> /\ RangeOf(order) = Nodes =>
          \A e \in Edges : \E i, j \in DOMAIN order :
              i < j /\ order[i] = e[2] /\ order[j] = e[1]
    /\ phase = "done" /\ order = <<NoName>> =>
          \/ Circular(Edges)
          \/ \E n \in Nodes : Cardinality(RangeOf(deps[n]) \cap Nodes) < Len(deps[n])

(***************************************************************************)
(* Why the search finds every cycle: what dfs_cycle knows between two      *)
(* references.                                                             *)
(***************************************************************************)

SearchTypes ==
    /\ phase \in {"cycles", "order", "done"}
    /\ \A n \in Nodes : deps[n] \in Seq(Names)
    /\ keys \subseteq Nodes /\ visited \subseteq Nodes
    /\ stack \in Seq([name : Nodes, next : Nat])
    /\ reports \in Seq(Seq(Nodes))

\* The stack is a path of visited names, none of them twice: each frame has
\* followed the reference to the frame above it.
StackIsPath ==
    /\ \A i \in DOMAIN stack : /\ stack[i].name \in visited
                              /\ stack[i].next \in 1 .. Len(deps[stack[i].name]) + 1
    /\ \A i, j \in DOMAIN stack : stack[i].name = stack[j].name => i = j
    /\ \A i \in 1 .. Len(stack) - 1 :
          /\ stack[i].next > 1
          /\ deps[stack[i].name][stack[i].next - 1] = stack[i + 1].name

KeysVisited ==
    /\ Nodes \ keys \subseteq visited
    /\ stack # << >> => phase = "cycles"

\* Names the search has returned from.
Left == visited \ OnStack

\* Their references lead to names of the same kind, or are reported.
LeftIsClosed ==
    \A n \in Left : \A k \in 1 .. Len(deps[n]) :
        deps[n][k] \in Nodes =>
            deps[n][k] \in Left \/ <<n, deps[n][k]>> \in Reported

\* So do the references a frame has followed, up to the one it is at.
FollowedIsClosed ==
    \A i \in DOMAIN stack : \A k \in 1 .. stack[i].next - 1 :
        LET target == deps[stack[i].name][k]
        IN  target \in Nodes =>
                \/ target \in Left
                \/ <<stack[i].name, target>> \in Reported
                \/ i < Len(stack) /\ target = stack[i + 1].name

\* Nothing circular is left among them but what is reported.
LeftIsAcyclic ==
    \A waiting \in SUBSET Left :
        waiting # {} =>
            \E n \in waiting : \A d \in waiting : <<n, d>> \notin Edges \ Reported

SearchInv ==
    /\ SearchTypes /\ StackIsPath /\ KeysVisited
    /\ LeftIsClosed /\ FollowedIsClosed /\ LeftIsAcyclic /\ ReportsAreCycles

(***************************************************************************)
(* Why the order is right: what topo_order knows between two turns of its  *)
(* inner loop.                                                             *)
(***************************************************************************)

OrderTypes ==
    /\ Nodes \subseteq Names /\ IsFiniteSet(Nodes)
    /\ others \subseteq Nodes /\ (others # {} => phase = "order")
    /\ phase = "cycles" => order = << >>

\* A name becomes ready once, and is taken once.
TakenOnce ==
    /\ order \in Seq(Nodes) /\ ready \in Seq(Nodes)
    /\ \A i, j \in DOMAIN order : order[i] = order[j] => i = j
    /\ \A i, j \in DOMAIN ready : ready[i] = ready[j] => i = j
    /\ RangeOf(order) \cap RangeOf(ready) = {}
    /\ others # {} => order # << >> /\ current = order[Len(order)]

\* The names of the order that n has been compared with.
Compared(n) == RangeOf(order) \ (IF n \in others THEN {current} ELSE {})

CountsAreUnmet ==
    \A n \in Nodes :
        indeg[n] = Len(deps[n]) - Cardinality(RangeOf(deps[n]) \cap Compared(n))

FreeOnesAreTaken ==
    \A n \in Nodes : n \in RangeOf(order) \cup RangeOf(ready) <=> indeg[n] = 0

ReferencesFirst ==
    /\ \A j \in DOMAIN order :
          RangeOf(deps[order[j]]) \subseteq {order[i] : i \in 1 .. j - 1}
    /\ \A n \in RangeOf(ready) : RangeOf(deps[n]) \subseteq RangeOf(order)

Sorting == TakenOnce /\ CountsAreUnmet /\ FreeOnesAreTaken /\ ReferencesFirst

OrderInv == OrderTypes /\ (phase = "order" => Sorting) /\ OrderIsValid

=============================================================================
