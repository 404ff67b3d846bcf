------------------------------ MODULE Symbols -------------------------------
(***************************************************************************)
(* Symbols of a package (crates/cj-sema/src/lib.rs, parallel.rs and        *)
(* overload.rs): what a file declares, what the files of a package declare *)
(* together, and which declarations of one name conflict.                  *)
(*                                                                         *)
(* A file is a record [package, imports, decls] as the parser leaves it.   *)
(* A diagnostic is a tuple that starts with what it says; a declaration    *)
(* stands for its position.                                                *)
(***************************************************************************)
EXTENDS Syntax

\* The declarations that have a kind of symbol.
SymbolKinds == {"func", "class", "interface", "struct", "enum", "alias", "var", "prop", "package"}

\* Declarations of other kinds have no name here.
DeclName(d) ==
    CASE d[1] \in (SymbolKinds \cup {"macro"}) \ {"package"} -> d[3]
      [] d[1] = "package" -> d[2]
      [] OTHER -> ""

\* A package clause is never public, nor is what has no modifiers.
IsPublic(d) == d[1] \in (SymbolKinds \cup {"macro", "extend", "init"}) \ {"package"} /\ "public" \in d[2]

Symbol(d) == [name |-> DeclName(d), kind |-> d[1], decl |-> d, public |-> IsPublic(d)]

Redefinition(what, previous) == <<"redefinition", what, previous>>

\* Parameters of one function by the same name: each but the first is
\* reported with the one before it.
DuplicateParams(params) ==
    FlatMap(LAMBDA i :
        LET before == {j \in 1 .. (i - 1) : params[j][2] = params[i][2]}
        IN IF before = {} THEN << >> ELSE <<Redefinition(params[i], params[Max(before)])>>,
        [i \in DOMAIN params |-> i])

\* collect_decl on the declarations of one scope: those with a symbol, in
\* order; a later symbol takes the place of an earlier one of its name.
Named(decls) == SelectSeq(decls, LAMBDA d : d[1] \in SymbolKinds /\ DeclName(d) # "")

RECURSIVE CollectScope(_)
CollectScope(decls) ==
    LET named == Named(decls)
        Clash(i) ==
            LET d == named[i]
                before == {j \in 1 .. (i - 1) : DeclName(named[j]) = DeclName(d)}
                prev == named[Max(before)]
            IN IF before = {} \/ (d[1] = "func" /\ prev[1] = "func") THEN << >>
               ELSE <<Redefinition(d, prev)>>
        Inner(d) == IF d[1] \in TypeKinds THEN CollectScope(Members(d)) ELSE << >>
        Parameters(d) == IF d[1] = "func" THEN DuplicateParams(Params(d)) ELSE << >>
    IN FlatMap(LAMBDA i : Clash(i) \o Parameters(named[i]) \o Inner(named[i]),
               [i \in DOMAIN named |-> i])

\* The last declaration of each name.
ScopeSymbols(decls) ==
    LET named == Named(decls)
    IN {Symbol(named[i]) : i \in {i \in DOMAIN named :
            \A j \in DOMAIN named : j > i => DeclName(named[j]) # DeclName(named[i])}}

\* A function's signature: of several functions of a name the first one's.
ParamSig(x) == [name |-> x[2], named |-> x[3], type |-> x[4]]
FuncSig(d) == [params |-> MapSeq(ParamSig, Params(d)), ret |-> d[6]]
FuncSigs(decls) ==
    LET funcs == OfKind(decls, "func")
        First(n) == funcs[Min({i \in DOMAIN funcs : funcs[i][3] = n})]
    IN [n \in {funcs[i][3] : i \in DOMAIN funcs} |-> FuncSig(First(n))]

\* Collector::collect_file.
CollectFile(file) ==
    [symbols |-> ScopeSymbols(file.decls), sigs |-> FuncSigs(file.decls), diags |-> CollectScope(file.decls)]

-----------------------------------------------------------------------------
\* The package: of each name the symbols of its files in the order merged, of
\* functions the signature merged first.
EmptyTable == [symbols |-> << >>, sigs |-> << >>]

Symbols(table, n) == IF n \in DOMAIN table.symbols THEN table.symbols[n] ELSE << >>
Lookup(table, n) == n \in DOMAIN table.symbols

\* What is merged first stays.
Under(first, others) ==
    [n \in DOMAIN first \cup DOMAIN others |-> IF n \in DOMAIN first THEN first[n] ELSE others[n]]

Merge(table, result) ==
    LET names == {s.name : s \in result.symbols}
        Of(n) == CHOOSE s \in result.symbols : s.name = n
        added == [n \in names |-> <<Of(n)>>]
    IN [symbols |-> [n \in DOMAIN table.symbols \cup names |->
                        Symbols(table, n) \o IF n \in names THEN added[n] ELSE << >>],
        sigs |-> Under(table.sigs, result.sigs)]

\* Results are merged in the order of the files, whichever came first.
MergeAll(results) == FoldLeft(Merge, EmptyTable, results)

-----------------------------------------------------------------------------
\* Overloads. Two types are the same when they are written the same.
\* Mutant of SameSignature: only as many types as both have are compared.
SameStart(a, b) == \A i \in DOMAIN a \cap DOMAIN b : a[i][4] = b[i][4]
SameSignature(a, b) == MapSeq(LAMBDA x : x[4], a) = MapSeq(LAMBDA x : x[4], b)

\* Functions of a file: each whose name and parameter types an earlier one
\* has is reported, with all that share them.
OverloadConflicts(file) ==
    LET funcs == OfKind(file.decls, "func")
        Alike(i, j) == funcs[i][3] = funcs[j][3] /\ SameSignature(Params(funcs[i]), Params(funcs[j]))
        All == [i \in DOMAIN funcs |-> i]
        Report(i) ==
            IF \E j \in 1 .. (i - 1) : Alike(i, j)
            THEN << <<"overload", funcs[i], MapSeq(LAMBDA j : Params(funcs[j]), SelectSeq(All, LAMBDA j : Alike(i, j)))>> >>
            ELSE << >>
    IN FlatMap(Report, All)
=============================================================================
