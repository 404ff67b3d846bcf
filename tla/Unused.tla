------------------------------- MODULE Unused --------------------------------
(***************************************************************************)
(* Declarations that nothing refers to (crates/cj-sema/src/unused.rs).     *)
(* Each report comes with a fix that removes the declaration.              *)
(***************************************************************************)
EXTENDS Resolver

\* References: names, members of `this` and `super`, names that are called,
\* names of types.
NoRefs == [names |-> {}, members |-> {}, calls |-> {}, types |-> {}]
Join(a, b) ==
    [names |-> a.names \cup b.names, members |-> a.members \cup b.members,
     calls |-> a.calls \cup b.calls, types |-> a.types \cup b.types]
JoinAll(refs) == FoldLeft(Join, NoRefs, refs)

\* The nodes references are looked for in.
ReferenceKinds ==
    {"call", "binary", "unary", "paren", "return", "member", "subscript", "assign", "block", "if", "lambda", "let"}

CollectRefs(e) ==
    LET nodes == Reached(ReferenceKinds, e)
        Own(x) == x[1] = "member" /\ x[2][1] = "name" /\ x[2][2] \in {"this", "super"}
        Called(x) == x[1] = "call" /\ x[2][1] = "name"
    IN [names |-> Range_(NamesIn(nodes)),
        members |-> {x[3] : x \in {y \in Range_(nodes) : Own(y)}},
        calls |-> {x[2][2] : x \in {y \in Range_(nodes) : Called(y)}},
        types |-> {}]
CollectAll(es) == JoinAll(MapSeq(CollectRefs, es))

\* The names in a type; a qualified one counts as a whole.
RECURSIVE TypeNames(_)
TypeNames(t) ==
    (IF t[1] \in {"ref", "qualified"} THEN {t[2]} ELSE {})
        \cup UNION {TypeNames(x) : x \in Range_(TypeParts(t))}
Types(ts) == [NoRefs EXCEPT !.types = UNION {TypeNames(t) : t \in Range_(ts)}]

\* What a declaration refers to, its members included: a function without a
\* body refers to nothing, main's body is not looked at.
RECURSIVE CollectDeclRefs(_)
CollectDeclRefs(d) ==
    LET members == JoinAll(MapSeq(CollectDeclRefs, Members(d)))
    IN CASE d[1] = "func" /\ Body(d) # << >> ->
                Join(Types(ParamTypes(Params(d)) \o d[6]), CollectAll(Statements(d)))
         [] d[1] = "init" -> Join(Types(ParamTypes(Params(d))), CollectAll(Statements(d)))
         [] d[1] = "var" -> Join(Types(d[5]), CollectAll(Initial(d)))
         [] d[1] \in {"prop", "alias"} -> Types(<<d[Len(d)]>>)
         [] d[1] \in {"class", "interface"} -> Join(Types(Parents(d)), members)
         [] d[1] = "struct" -> members
         [] d[1] = "extend" -> Join(Types(<<d[3]>>), members)
         [] OTHER -> NoRefs

-----------------------------------------------------------------------------
\* What is declared: with the declaration whether it is at top level and
\* whether it is a constructor that has the name of its type.
CheckedKindsButEnums == {"func", "class", "interface", "struct", "var"} \* mutant
CheckedKinds == {"func", "class", "interface", "struct", "enum", "var"}

RECURSIVE CollectDecls(_, _, _)
CollectDecls(d, isMember, enclosing) ==
    LET own == IF d[1] \in CheckedKinds /\ ~(d[1] = "var" /\ d[3] = "")
               THEN << [decl |-> d, name |-> d[3], top |-> ~isMember,
                        ctor |-> d[1] = "func" /\ isMember /\ enclosing = <<d[3]>>] >>
               ELSE << >>
        within == IF d[1] = "extend" THEN enclosing ELSE IF d[1] \in TypeKinds THEN <<d[3]>> ELSE << >>
    IN own \o FlatMap(LAMBDA m : CollectDecls(m, TRUE, within), Members(d))

IsUsed(info, refs) ==
    IF info.ctor THEN info.name \in refs.calls
    ELSE info.name \in refs.names \cup refs.members \/ <<info.name>> \in refs.types

\* The names of top-level declarations that refer to a name unknown in the
\* file: they are not judged.
Unresolved(file, known) ==
    LET Names(d) == CASE d[1] = "func" -> CollectAll(Statements(d)).names
                      [] d[1] = "var" -> CollectAll(Initial(d)).names
                      [] OTHER -> {}
    IN {d[3] : d \in {x \in Range_(file.decls) : Names(x) \ (known \cup Builtins) # {}}}

UnusedDecl(info) == <<"unused", IF info.ctor THEN "constructor" ELSE info.decl[1], info.decl>>

\* Parameters no name or own member in the function's body refers to. Those
\* of a constructor named like its type are properties.
RECURSIVE UnusedParams(_, _)
UnusedParams(d, enclosing) ==
    LET refs == CollectAll(Statements(d))
        within == IF d[1] = "extend" THEN enclosing ELSE <<d[3]>>
    IN CASE d[1] = "func" /\ enclosing # <<d[3]>> ->
                FlatMap(LAMBDA x : IF x[2] \in refs.names \cup refs.members THEN << >>
                                   ELSE << <<"unused", "param", x>> >>, Params(d))
         [] d[1] \in TypeKinds \cup {"extend"} -> FlatMap(LAMBDA m : UnusedParams(m, within), Members(d))
         [] OTHER -> << >>

\* Local variables of function bodies, in blocks and loops too.
RECURSIVE LocalsOf(_), LocalDecls(_)
LocalsOf(e) ==
    (IF e[1] = "let" THEN SelectSeq(e[2], LAMBDA x : x[1] = "bind") ELSE << >>)
        \o FlatMap(LocalsOf,
                   CASE e[1] = "block" -> e[2]
                     [] e[1] = "if" -> <<e[3]>> \o e[4]
                     [] e[1] = "while" -> <<e[3]>>
                     [] e[1] = "for" -> <<e[4]>>
                     [] OTHER -> << >>)
LocalDecls(d) ==
    IF d[1] \in {"func", "main"} THEN FlatMap(LocalsOf, Statements(d)) ELSE FlatMap(LocalDecls, Members(d))

UnusedLocals(d, refs, unresolved) ==
    IF d[1] \in CheckedKinds /\ d[3] \in unresolved THEN << >>
    ELSE FlatMap(LAMBDA x : IF x[2] \in {<<n>> : n \in refs.names \cup refs.members} THEN << >>
                            ELSE << <<"unused", "local", x>> >>, LocalDecls(d))

DetectUnused(file) ==
    LET decls == FlatMap(LAMBDA d : CollectDecls(d, FALSE, << >>), file.decls)
        known == {decls[i].name : i \in {i \in DOMAIN decls : decls[i].top}}
        unresolved == Unresolved(file, known)
        refs == JoinAll(MapSeq(CollectDeclRefs, file.decls))
        Judge(info) == IF info.name = "main" \/ IsUsed(info, refs) \/ info.name \in unresolved THEN << >>
                       ELSE <<UnusedDecl(info)>>
    IN FlatMap(Judge, decls)
         \o FlatMap(LAMBDA d : UnusedParams(d, << >>), file.decls)
         \o FlatMap(LAMBDA d : UnusedLocals(d, refs, unresolved), file.decls)
=============================================================================
