----------------------------- MODULE MCAnalysis ------------------------------
(***************************************************************************)
(* Small programs through Analysis: every pair of some sixty declarations  *)
(* of each kind, triples of variables and functions that refer to each     *)
(* other, imports, and packages of several files.                          *)
(***************************************************************************)
EXTENDS Analysis, Occurrences

\* Types, patterns and expressions.
Type(n) == <<"ref", <<n>>, << >>>>
Int64 == Type("Int64")
Name(n) == <<"name", n, << >>>>
Number(bits) == <<"literal", "INTEGER", bits>>
Text == <<"literal", "STRING", 0>>
Param(n, type) == <<"param", n, FALSE, type, << >>>>
NamedParam(n, type) == <<"param", n, TRUE, type, << >>>>
Call(f, args) == <<"call", Name(f), MapSeq(LAMBDA e : << << >>, e>>, args)>>
Plus(l, r) == <<"binary", "+", l, r>>
Member(e, n) == <<"member", e, n>>
Bind(n) == <<"bind", <<n>>, FALSE, << >>>>
Let(n, e) == <<"let", <<Bind(n)>>, e>>
Block(stmts) == <<"block", stmts>>

\* Declarations.
Var(n, e) == <<"var", {}, n, FALSE, << >>, <<e>>>>
TypedVar(n, type, e) == <<"var", {}, n, FALSE, <<type>>, <<e>>>>
Func(n, params, stmts) == <<"func", {}, n, << >>, params, << >>, <<stmts>>>>
Abstract(n, params) == <<"func", {"abstract"}, n, << >>, params, << >>, << >>>>
TypeDecl(kind, n, parents, members) == <<kind, {}, n, << >>, parents, members>>
Main(stmts) == <<"main", <<stmts>>>>
Expand(n, args) == <<"expand", <<n>>, args>>
MacroDecl(n, params, parts) == <<"macro", {}, n, params, <<<<<<"quote", parts>>>>>>>>
Token(t) == <<"token", t>>
MacroCall(n, args) == <<"macro", n, args>>

-----------------------------------------------------------------------------
\* Variables and functions that refer to each other.
Values == {Number(1), Name("a"), Name("b"), Call("f", << >>), Plus(Name("a"), Name("b")), <<"paren", Name("c")>>}
Related ==
    {Var(n, e) : n \in {"a", "b"}, e \in Values}
        \cup {Func("f", << >>, <<Name("a")>>), Func("f", <<Param("a", Int64)>>, <<Call("f", <<Number(1)>>)>>),
              Main(<<Let("a", Name("b")), Call("f", <<Name("a")>>)>>)}

Bodies ==
    {<<Let("b", Name("b")), Name("b")>>,
     <<Let("b", Number(1)), Plus(Name("b"), Name("x"))>>,
     <<Name("b"), Let("b", Number(1)), Block(<<Name("b"), Name("u")>>)>>,
     <<<<"if", Name("x"), Block(<<Let("c", Name("c"))>>), <<Block(<<Name("c")>>)>>>>>>,
     <<<<"while", Name("u"), Block(<<Name("u")>>)>>, <<"return", <<Name("x")>>>>>>,
     <<<<"for", Bind("i"), Name("b"), Block(<<Let("d", Name("i"))>>)>>>>,
     <<<<"lambda", <<Param("y", Int64)>>, <<Name("y")>>>>, Call("g", <<Number(1), Text>>), Call("f", <<Number(1)>>)>>,
     <<Let("d", <<"array", <<Name("b")>>>>), <<"assign", "=", Name("d"), Member(Name("d"), "x")>>>>,
     <<<<"let", <<<<"bind", <<"A">>, FALSE, <<Type("B")>>>>>>, <<"subscript", Name("b"), Name("a")>>>>, <<"return", <<Name("A")>>>>>>,
     <<<<"if", <<"is", Name("b"), Type("A")>>, Block(<<Member(Name("A"), "m")>>), << >>>>>>}

Types_ ==
    {TypeDecl("class", "A", << >>, <<Var("a", Name("super")), Var("a", Number(1))>>),
     TypeDecl("class", "A", <<Type("B")>>, <<Func("m", <<Param("y", Int64)>>, <<Member(Name("this"), "a")>>),
                                             Func("A", << >>, << >>), Func("m", <<Param("y", Int64)>>, << >>)>>),
     TypeDecl("class", "B", << >>, <<Func("m", <<Param("x", Int64)>>, <<Call("f", <<Text>>), Let("m", Member(Name("this"), "m"))>>),
        Var("a", <<"as", Member(Name("A"), "m"), Type("B")>>)>>),
     TypeDecl("struct", "A", << >>, <<Func("f", <<Param("y", Int64), Param("y", Int64)>>, <<Name("y")>>)>>),
     TypeDecl("interface", "B", <<Type("A")>>, <<<<"func", {}, "m", << >>, <<NamedParam("y", Int64)>>, << >>, << >>>>>>),
     TypeDecl("class", "B", <<Type("A")>>, <<Abstract("m", <<NamedParam("x", Int64)>>),
        <<"func", {"public"}, "~init", << >>, <<Param("x", Int64)>>, << >>, <<<<Name("this")>>>>>>,
        <<"init", {}, <<Param("a", Int64)>>, <<<<Name("a")>>>>>>, <<"prop", {}, "p", Type("C")>>>>),
     <<"enum", {}, "A", << >>, << >>, <<<<"red", <<Type("B")>>>>>>>>,
     <<"extend", {}, Type("A"), <<<<"generic", "T">>, Func("m", <<Param("x", Type("T"))>>, <<Name("A")>>)>>>>,
     <<"alias", {}, "A", <<"T">>, <<"func", <<Type("T")>>, <<"tuple", <<Type("B"), Type("T")>>>>>>>>}

Macros_ ==
    {MacroDecl("M", <<Param("t", Type("Tokens"))>>, <<Token("t"), Token("+"), MacroCall("N", <<"t">>)>>),
     MacroDecl("M", << >>, << <<"quote", << >>>> >>), MacroDecl("N", << >>, <<<<"paren", Name("a")>>>>),
     Var("a", MacroCall("M", <<"x">>)), Var("b", Call("f", <<MacroCall("N", << >>), MacroCall("sourceLine", << >>)>>)),
     Expand("M", << >>), Expand("Deprecated", << >>), <<"expand", <<"p", "M">>, << >>>>}

Others ==
    {TypedVar("a", Type("Int8"), Number(8)), TypedVar("b", Type("String"), Number(1)), TypedVar("c", Type("UInt8"), Number(8)),
     TypedVar("a", <<"option", Type("C")>>, Text), TypedVar("c", Type("Float64"), Number(128)),
     <<"varpattern", <<"tuple", <<Bind("a"), Bind("b")>>>>, << >>, <<Name("b")>>>>, <<"package", "a">>, <<"builtin">>,
     Func("g", <<NamedParam("x", Int64), Param("y", Type("String"))>>, <<Name("x")>>)}

Functions == {Func("g", <<Param("x", Int64)>>, body) : body \in Bodies} \cup {Main(body) : body \in Bodies}
Declarations == Related \cup Functions \cup Types_ \cup Macros_ \cup Others

Imports ==
    {<< >>} \cup {<<[path |-> path, glob |-> glob, selected |-> << >>]>> :
                    path \in {<<"p">>, <<"p", "a">>, <<"std", "f">>}, glob \in BOOLEAN}
      \cup {<<[path |-> <<"q">>, glob |-> FALSE, selected |-> <<"a", "a">>], [path |-> <<"q", "a">>, glob |-> FALSE, selected |-> << >>]>>}

File(decls) == [package |-> <<"p">>, imports |-> << >>, decls |-> decls]
Project == [library |-> "none", expected |-> <<"p">>]
IsMacro(d) == d \in Macros_

\* Declarations a document of the package may share names with.
OnDisk ==
    {<<Func("f", << >>, << >>)>>, <<Func("f", <<Param("x", Type("String"))>>, << >>), Var("a", Number(1))>>,
     <<Func("h", <<Param("x", Int64)>>, << >>), Func("f", << >>, << >>)>>}
Callers ==
    {<<Func("f", <<Param("x", Int64)>>, << >>), Main(<<Call("f", <<Text>>)>> \o other)>> : other \in {<< >>, <<Call("h", << >>)>>}}
      \cup {<<Main(<<Call("f", <<Text>>)>>)>>}

MCInit ==
    \/ \E d \in Declarations, e \in Declarations :
          \E library \in IF IsMacro(d) THEN Libraries ELSE {"none"} :
             InitWith(<<File(<<d, e>>)>>, "document", [Project EXCEPT !.library = library])
    \/ \E d \in Related, e \in Related, g \in Related : InitWith(<<File(<<d, e, g>>)>>, "document", Project)
    \/ \E imports \in Imports, package \in {<< >>, <<"p">>, <<"std">>}, expected \in {<< >>, <<"p">>, <<"p", "q">>}, d \in Others \cup Related :
          InitWith(<<[package |-> package, imports |-> imports, decls |-> <<d>>]>>, "document", [Project EXCEPT !.expected = expected])
    \/ \E document \in Callers, x \in OnDisk, y \in OnDisk, package \in {<<"p">>, <<"q">>} :
          InitWith(<<File(document), File(x), [File(y) EXCEPT !.package = package]>>, "document", Project)
    \/ \E d \in Related, x \in OnDisk, y \in OnDisk : InitWith(<<File(<<d>>), File(x), File(y)>>, "package", Project)

MCSpec == MCInit /\ [][Next]_vars

-----------------------------------------------------------------------------
Done == phase = "done" /\ entry = "document"
Told(pass, diag) == \E i \in DOMAIN reports[pass] : reports[pass][i] = diag
Kinds(pass) == {reports[pass][i][1] : i \in DOMAIN reports[pass]}

(***************************************************************************)
(* The order in which workers finish does not show: the table and what is  *)
(* told are those of one file after the other, one declaration after the   *)
(* other.                                                                  *)
(***************************************************************************)
SameInAnyOrder ==
    /\ phase # "collect" =>
          LET each == [i \in 1 .. Cardinality(Workers) |-> CollectFile(files[i])]
          IN table = MergeAll(each) /\ reports["collect"] = FlatMap(LAMBDA r : r.diags, each)
    /\ Done => reports["resolve"] = FlatMap(LAMBDA d : ResolveDecl(table, d), Document.decls)

(***************************************************************************)
(* Nothing is told of a document's scopes exactly when they are in order:  *)
(* in the file and in each type names are declared once, but functions;    *)
(* functions of the file that share a name differ in a parameter's type;   *)
(* no function has two parameters of a name.                               *)
(***************************************************************************)
RECURSIVE Scopes(_)
Scopes(decls) == {decls} \cup UNION {Scopes(Members(d)) : d \in {x \in Range_(Named(decls)) : x[1] \in TypeKinds}}
Pairs(s) == {ij \in (DOMAIN s) \X (DOMAIN s) : ij[1] < ij[2]}
Distinct_(s) == \A ij \in Pairs(s) : s[ij[1]] # s[ij[2]]
Unambiguous(decls) ==
    LET named == Named(decls)
    IN \A ij \in Pairs(named) :
          DeclName(named[ij[1]]) = DeclName(named[ij[2]]) => named[ij[1]][1] = "func" /\ named[ij[2]][1] = "func"
WellFormed(decls) ==
    /\ \A scope \in Scopes(decls) :
          /\ Unambiguous(scope)
          /\ \A d \in Range_(OfKind(scope, "func")) : Distinct_(MapSeq(LAMBDA x : x[2], Params(d)))
    /\ Distinct_(MapSeq(LAMBDA d : <<d[3], ParamTypes(Params(d))>>, OfKind(decls, "func")))
ScopesInOrder == Done => (WellFormed(Document.decls) <=> reports["collect"] = << >> /\ reports["overload"] = << >>)

(***************************************************************************)
(* A name bound by a statement is unknown up to that statement and known   *)
(* from the next one on, whatever the package and the statements around:   *)
(* as many uses are told as stand before the binding.                      *)
(***************************************************************************)
Bound(e) == IF e[1] = "let" THEN BoundNames(e[2]) ELSE {}
Uses(e, n) == Len(SelectSeq(PlainNames(IF e[1] = "let" THEN e[3] ELSE e), LAMBDA x : x = n))
UsesBefore(stmts, n) ==
    FoldLeft(+, 0, MapSeq(LAMBDA k : IF \E j \in 1 .. (k - 1) : n \in Bound(stmts[j]) THEN 0 ELSE Uses(stmts[k], n),
                          [k \in DOMAIN stmts |-> k]))
Counted(diags, diag) == Len(SelectSeq(diags, LAMBDA x : x = diag))
KnownFromTheNextStatement ==
    \A i \in DOMAIN resolved :
        LET d == Document.decls[i]
            names == UNION {Range_(NamesIn(Reached(AllKinds, e))) : e \in Range_(Statements(d))}
        IN d[1] \in {"func", "main"} =>
              \A n \in names \ (Builtins \cup DOMAIN table.symbols) :
                 Counted(resolved[i], Undeclared(n)) = UsesBefore(Statements(d), n)

(***************************************************************************)
(* A declaration whose name occurs nowhere else in the document is told,   *)
(* unless it uses names the document does not declare (then it is not      *)
(* judged) or is a constructor.                                            *)
(***************************************************************************)
Exprs(d) == ReachedIn(AllKinds, Statements(d) \o Initial(d) \o Defaults(Params(d)))
RECURSIVE AllOf(_)
AllOf(d) == {d} \cup UNION {AllOf(m) : m \in Range_(Members(d))}
Mentions(d) ==
    Range_(NamesIn(Exprs(d)))
      \cup {e[3] : e \in {x \in Range_(Exprs(d)) : x[1] = "member"}}
      \cup {n[1] : n \in UNION {TypeNames(t) : t \in Range_(DeclTypes(d) \o FlatMap(TypesOf, Exprs(d)))}}
Judged(decls) == {x \in decls : x[1] \in {"func", "var", "enum"} \cup TypeKinds}
Foreign(d) == Range_(NamesIn(Exprs(d))) \ (Builtins \cup {x[3] : x \in Judged(Range_(Document.decls))})
Everything == UNION {AllOf(d) : d \in Range_(Document.decls)}
UnmentionedIsTold ==
    Done => \A d \in Judged(Everything) :
        \/ \E other \in Everything : d[3] \in Mentions(other)
        \/ \E top \in Range_(Document.decls) : top[1] \in {"func", "var"} /\ top[3] = d[3] /\ Foreign(top) # {}
        \/ d[3] = "main"
        \/ \E t \in Everything : t[1] \in TypeKinds /\ t[3] = d[3] /\ d \in Range_(Members(t))
        \/ Told("unused", <<"unused", d[1], d>>)

(***************************************************************************)
(* When neither a cycle nor a use before initialization is told, variables *)
(* can be initialized in the order they are written in: each names only    *)
(* earlier ones. And a document in that order is told neither.             *)
(***************************************************************************)
TopVars == OfKind(Document.decls, "var")
NamesOf(d, kinds) == Range_(NamesIn(ReachedIn(kinds, Initial(d))))
InTextOrder(kinds) ==
    \A i \in DOMAIN TopVars : \A n \in NamesOf(TopVars[i], kinds) :
        \A j \in DOMAIN TopVars : TopVars[j][3] = n => j < i
InitOrderTold ==
    Done /\ Distinct_(MapSeq(DeclName, TopVars)) =>
        LET silent == reports["dep"] = << >> /\ "used before initialization" \notin Kinds("checks")
        IN (silent => InTextOrder(DepKinds)) /\ (InTextOrder(WalkedKinds) => silent)

(***************************************************************************)
(* Calls are judged by the whole package, and by the document rather than  *)
(* by what is on disk: a function of any file of the package is never told *)
(* undeclared, and calls of the document's own functions are judged as if  *)
(* nothing else were there.                                                *)
(***************************************************************************)
CallsSeeThePackage ==
    Done =>
        LET own == FuncSigs(Document.decls)
            Called(d) == {e[2][2] : e \in Range_(Calls(Statements(d)))}
            called == UNION {Called(d) : d \in {x \in Range_(Document.decls) : x[1] \in {"func", "main"}}}
        IN /\ \A n \in DOMAIN own \cup DiskNames : ~Told("calls", Undeclared(n))
           /\ called \subseteq DOMAIN own => reports["calls"] = CheckCalls(Document, own)

(***************************************************************************)
(* A macro the file defines is never told unresolved, whatever becomes of  *)
(* the library; and each call has one outcome.                             *)
(***************************************************************************)
MacrosResolve ==
    Done =>
        LET out == ExpandFile(Document, project.library)
            unresolved == SelectSeq(out.diags, LAMBDA x : x[1] = "unresolved macro")
        IN /\ \A n \in DOMAIN Macros(Document) : ~Told("macro", <<"unresolved macro", n>>)
           /\ Len(out.expansions) + Len(unresolved) = Len(MacroCalls(Document))
           /\ project.library # "none" => \A i \in DOMAIN out.expansions : out.expansions[i].text # << >>

(***************************************************************************)
(* Both count what a name's references are, each in its own walk: a lens   *)
(* shows as many places as are asked for with "find references" on its     *)
(* declaration, the same ones (what is cast or tested is left out there).  *)
(***************************************************************************)
HasCasts == \E d \in Range_(Document.decls) : \E e \in Range_(Exprs(d)) : e[1] \in {"is", "as"}
LensesShowReferences ==
    Done /\ ~HasCasts =>
        \A lens \in Range_(Lenses(Document)) :
            LET found == ReferencesAt(Document, lens.at, TRUE)
            IN lens.shown = found /\ lens.count = Cardinality(found)

(***************************************************************************)
(* Renaming takes its name with one search and its places with others: of  *)
(* a type, and of a name of the file's own (not a member, nor in one, nor  *)
(* after a dot, nor in the value of a destructuring, where the search for  *)
(* places does not come; no program here has `this.` outside of a type),   *)
(* the place under the cursor is among those edited; and from whichever of *)
(* these the cursor is at the same places are edited, or none where the    *)
(* search for a name does not come.                                        *)
(***************************************************************************)
OfTheFile(s) ==
    /\ s.container = NoContainer /\ NoContainer \in s.owners
    /\ Document.decls[Head(s.at)][1] # "varpattern"
Cursors ==
    {s.at : s \in Range_(TypesAt(Document))}
      \cup {s.at : s \in {x \in Range_(Declared(Document) \o Usages(Document)) : OfTheFile(x)}}
RenamedUnderTheCursor ==
    Done => \A cursor \in Cursors :
        LET edits == RenameEdits(Document, cursor, "fresh")
        IN cursor \in edits /\ \A at \in edits : RenameEdits(Document, at, "fresh") \in {edits, {}}

(***************************************************************************)
(* What is highlighted for a member is highlighted from wherever the       *)
(* cursor is among it, and members of another type are not (a binding in a *)
(* body is taken for a type).                                              *)
(***************************************************************************)
HighlightsAreMutual ==
    Done /\ Distinct_(MapSeq(LAMBDA t : t[1][3], TypeIndex(Document))) =>
        \A s \in Range_(Declared(Document)) :
            s.container # NoContainer =>
                LET shown == HighlightsAt(Document, s.at)
                    types == {x.at : x \in Range_(TypesAt(Document))}
                IN /\ s.at \in shown
                   /\ \A at \in shown \ types : HighlightsAt(Document, at) = shown
                   /\ \A x \in Range_(Declared(Document)) : x.at \in shown => x.container = s.container

\* "One function's local scope: parameter + local variable names"
\* (crates/cj-sema/src/resolver.rs:20): a parameter is not undeclared.
ParametersAreInScope ==
    \A i \in DOMAIN resolved :
        \A j \in DOMAIN Params(Document.decls[i]) : Undeclared(Params(Document.decls[i])[j][2]) \notin Range_(resolved[i])
=============================================================================
