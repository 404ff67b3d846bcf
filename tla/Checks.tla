------------------------------- MODULE Checks --------------------------------
(***************************************************************************)
(* Checks of single rules over the tree (crates/cj-sema/src/checks.rs).    *)
(***************************************************************************)
EXTENDS TypeCheck

\* The nodes names are looked for in, all but nested declarations and macros.
WalkedKinds == CallKinds \cup {"assign"}
WalkNames(e) == NamesIn(Reached(WalkedKinds, e))

-----------------------------------------------------------------------------
\* Names of types that are declared nowhere. Qualified names are let pass.
RECURSIVE TypeRefs(_)
TypeRefs(t) == (IF t[1] = "ref" THEN <<t[2]>> ELSE << >>) \o FlatMap(TypeRefs, TypeParts(t))

BuiltinTypes ==
    {"String", "Array", "VArray", "Int8", "Int16", "Int32", "Int64", "UInt8", "UInt16", "UInt32",
     "UInt64", "Float32", "Float64", "Bool", "Unit", "Nothing", "Rune", "Char", "Object", "Range",
     "Pair", "Tuple", "CString", "UIntPtr", "IntPtr", "BigInt", "BigFloat"}

TypeParams(d) ==
    CASE d[1] \in TypeKinds \cup {"func", "enum", "alias"} -> d[4]
      [] d[1] = "extend" -> MapSeq(LAMBDA m : m[2], OfKind(Members(d), "generic"))
      [] OTHER -> << >>

\* The types a declaration is written with, its members' left out.
DeclTypes(d) ==
    CASE d[1] = "func" -> ParamTypes(Params(d)) \o d[6]
      [] d[1] \in {"macro", "init"} -> ParamTypes(Params(d))
      [] d[1] = "var" -> d[5]
      [] d[1] = "varpattern" -> d[3]
      [] d[1] \in {"prop", "alias"} -> <<d[Len(d)]>>
      [] d[1] \in TypeKinds -> Parents(d)
      [] d[1] = "enum" -> Parents(d) \o FlatMap(LAMBDA c : c[2], d[6])
      [] d[1] = "extend" -> <<d[3]>>
      [] OTHER -> << >>

\* Type parameters are visible in the declaration and in its members.
RECURSIVE UnknownTypes(_, _)
UnknownTypes(d, visible) ==
    LET scope == visible \cup {<<n>> : n \in Range_(TypeParams(d))}
        unknown == SelectSeq(FlatMap(TypeRefs, DeclTypes(d)), LAMBDA n : n \notin scope)
    IN MapSeq(LAMBDA n : <<"undeclared type", n>>, unknown)
         \o FlatMap(LAMBDA m : UnknownTypes(m, scope), Members(d))

TypeSymbols(table, kinds) ==
    {n \in DOMAIN table.symbols : \E s \in Range_(table.symbols[n]) : s.kind \in kinds}

CheckUndeclaredType(file, table) ==
    LET declared == TypeSymbols(table, TypeKinds \cup {"enum", "alias"})
    IN FlatMap(LAMBDA d : UnknownTypes(d, {<<n>> : n \in declared \cup BuiltinTypes}), file.decls)

-----------------------------------------------------------------------------
\* A top-level variable whose initializer names one declared after it: two
\* reports for each such name.
\* Mutant of Later: the next one is no later one.
LaterButNext(vars, i) == {vars[j][3] : j \in (i + 2) .. Len(vars)}
Later(vars, i) == {vars[j][3] : j \in (i + 1) .. Len(vars)}
CheckUsedBeforeInit(file) ==
    LET vars == OfKind(file.decls, "var")
        Of(i) ==
            LET names == SelectSeq(FlatMap(WalkNames, Initial(vars[i])), LAMBDA n : n \in Later(vars, i))
            IN FlatMap(LAMBDA n : << <<"used before initialization", n, vars[i][3]>>,
                                     <<"used before defined", n>> >>, names)
    IN FlatMap(Of, [i \in DOMAIN vars |-> i])

\* `super` in the initializer of a member variable.
CheckSuperInit(file) ==
    LET types == SelectSeq(file.decls, LAMBDA d : d[1] \in {"class", "struct"})
        names == FlatMap(WalkNames, FlatMap(Initial, FlatMap(LAMBDA d : OfKind(Members(d), "var"), types)))
    IN MapSeq(LAMBDA n : <<"super initializes">>, SelectSeq(names, LAMBDA n : n = "super"))

\* Finalizers. Of one its flags are the words before it on its line: the tree
\* does not keep all of them and they are read from the text.
FinalizerModifiers == <<"private", "protected", "public", "internal", "static", "open", "sealed", "abstract">>

Finalizers(d) == SelectSeq(OfKind(Members(d), "func"), LAMBDA m : m[3] = "~init")

FinalizerRules(d, m) ==
    (IF Params(m) = << >> THEN << >> ELSE << <<"finalizer parameter">>, <<"finalizer any parameter">> >>)
      \o (IF "open" \in d[2] THEN << <<"finalizer in open", d[3]>> >> ELSE << >>)
      \o MapSeq(LAMBDA n : <<"this in finalizer">>,
                SelectSeq(FlatMap(WalkNames, Statements(m)), LAMBDA n : n = "this"))

FinalizerWords(m) ==
    MapSeq(LAMBDA w : <<"finalizer modifier", w>>, SelectSeq(FinalizerModifiers, LAMBDA w : w \in m[2]))

CheckFinalizers(file) ==
    LET classes == OfKind(file.decls, "class")
    IN FlatMap(LAMBDA d : FlatMap(LAMBDA m : FinalizerRules(d, m), Finalizers(d)), classes)
         \o FlatMap(LAMBDA d : FlatMap(FinalizerWords, Finalizers(d)), classes)

\* Named parameters of abstract functions and of an interface's functions.
NamedParams(d) == MapSeq(LAMBDA x : <<"optional parameter", x[2]>>, SelectSeq(Params(d), LAMBDA x : x[3]))

RECURSIVE OptionalInAbstract(_)
OptionalInAbstract(d) ==
    CASE d[1] = "func" -> IF "abstract" \in d[2] THEN NamedParams(d) ELSE << >>
      [] d[1] = "interface" -> FlatMap(NamedParams, OfKind(Members(d), "func"))
      [] d[1] \in {"class", "struct"} -> FlatMap(OptionalInAbstract, Members(d))
      [] OTHER -> << >>
CheckOptionalParamAbstract(file) == FlatMap(OptionalInAbstract, file.decls)

-----------------------------------------------------------------------------
\* A function of a class or interface that has the name of a member of a
\* parent, which is a class or struct of the file, but other parameter names.
\* Of two types of one name the last counts. One report for each parent.
ParamNames(d) == IF d[1] = "func" THEN MapSeq(LAMBDA x : x[2], Params(d)) ELSE << >>

\* The members that have a name here.
MemberName(m) == IF m[1] \in TypeKinds \cup {"func", "var"} THEN m[3] ELSE ""

CheckOverrideParamNames(file) ==
    LET types == SelectSeq(file.decls, LAMBDA d : d[1] \in TypeKinds)
        Named_(n) == {i \in DOMAIN types : <<types[i][3]>> = n}
        Overridden(p) ==
            LET same == Named_(p[2])
                parent == types[Max(same)]
            IN IF p[1] \notin {"ref", "qualified"} \/ same = {} THEN << >>
               ELSE IF parent[1] = "interface" THEN << >> ELSE Members(parent)
        Differs(m, base) == MemberName(m) # "" /\ MemberName(base) = MemberName(m) /\ ParamNames(base) # ParamNames(m)
        OfParent(d, p) == SelectSeq(OfKind(Members(d), "func"),
                                    LAMBDA m : \E base \in Range_(Overridden(p)) : Differs(m, base))
        Of(d) == FlatMap(LAMBDA p : MapSeq(LAMBDA m : <<"parameter name", m>>, OfParent(d, p)), Parents(d))
    IN FlatMap(Of, SelectSeq(types, LAMBDA d : d[1] # "struct"))

-----------------------------------------------------------------------------
\* The name of a type as a value, unless it is called. Quotes are not looked into.
RECURSIVE BareNames(_), BareTypeExprs(_, _)
BareNames(e) ==
    IF e[1] = "name" THEN <<e[2]>>
    ELSE IF e[1] \notin WalkedKinds \ {"quote"} THEN << >>
    ELSE FlatMap(BareNames, IF e[1] = "call" /\ e[2][1] = "name" THEN Tail(Children(e)) ELSE Children(e))

BareTypeExprs(d, types) ==
    IF d[1] \in {"func", "main"}
    THEN MapSeq(LAMBDA n : <<"bare type", n>>, SelectSeq(FlatMap(BareNames, Statements(d)), LAMBDA n : n \in types))
    ELSE FlatMap(LAMBDA m : BareTypeExprs(m, types), Members(d))
CheckBareTypeExpr(file, table) ==
    FlatMap(LAMBDA d : BareTypeExprs(d, TypeSymbols(table, TypeKinds \cup {"enum"})), file.decls)

\* Names in bodies that a top-level variable has which is marked deprecated on
\* the line above it.
Deprecated(file) ==
    LET Marked(i) == i > 1 /\ file.decls[i - 1][1] = "expand" /\ file.decls[i - 1][2] = <<"Deprecated">>
    IN {file.decls[i][3] : i \in {i \in DOMAIN file.decls : file.decls[i][1] = "var" /\ Marked(i)}}

RECURSIVE DeprecatedRefs(_, _)
DeprecatedRefs(d, names) ==
    IF d[1] \in {"func", "main"}
    THEN MapSeq(LAMBDA n : <<"deprecated", n>>, SelectSeq(FlatMap(WalkNames, Statements(d)), LAMBDA n : n \in names))
    ELSE FlatMap(LAMBDA m : DeprecatedRefs(m, names), Members(d))
CheckDeprecatedRefs(file) == FlatMap(LAMBDA d : DeprecatedRefs(d, Deprecated(file)), file.decls)

-----------------------------------------------------------------------------
\* The package an import takes from, and the members it names.
ImportedPackage(import) ==
    LET n == Len(import.path)
    IN IF import.glob \/ n < 2 THEN import.path ELSE SubSeq(import.path, 1, n - 1)
ImportedMembers(import) ==
    (IF ~import.glob /\ Len(import.path) > 1 THEN <<Last(import.path)>> ELSE << >>) \o import.selected

\* A member of another package is looked up in the table of this one.
CheckVisibility(file, table) ==
    LET Private(n) == Lookup(table, n) /\ ~table.symbols[n][1].public
        Of(import) ==
            IF import.path = << >> \/ ImportedPackage(import) = file.package THEN << >>
            ELSE MapSeq(LAMBDA n : <<"inaccessible", n, ImportedPackage(import)>>,
                        SelectSeq(ImportedMembers(import), Private))
    IN FlatMap(Of, file.imports)

\* check_semantics.
CheckSemantics(file, table) ==
    CheckUsedBeforeInit(file) \o CheckUndeclaredType(file, table) \o CheckSuperInit(file)
      \o CheckFinalizers(file) \o CheckOptionalParamAbstract(file) \o CheckOverrideParamNames(file)
      \o CheckBareTypeExpr(file, table) \o CheckDeprecatedRefs(file) \o CheckVisibility(file, table)
=============================================================================
