------------------------------ MODULE Resolver -------------------------------
(***************************************************************************)
(* Names in function bodies and initializers                               *)
(* (crates/cj-sema/src/resolver.rs): which of them are undeclared.         *)
(***************************************************************************)
EXTENDS Symbols

Builtins ==
    {"print", "println", "assert", "String", "Array", "VArray", "Int8", "Int16", "Int32", "Int64",
     "UInt8", "UInt16", "UInt32", "UInt64", "Float32", "Float64", "Bool", "Unit", "Nothing", "Rune",
     "Char", "Object", "Range", "Pair", "Tuple"}

Undeclared(n) == <<"undeclared", n>>

\* The nodes a name is looked for in. The name a call starts with is left to
\* the call checker.
ResolvedKinds == {"call", "binary", "unary", "paren", "member", "subscript", "assign", "block", "if"}

RECURSIVE PlainNames(_)
PlainNames(e) ==
    IF e[1] = "name" THEN <<e[2]>>
    ELSE IF e[1] \notin ResolvedKinds THEN << >>
    ELSE FlatMap(PlainNames, IF e[1] = "call" /\ e[2][1] = "name" THEN Tail(Children(e)) ELSE Children(e))

\* A name is known when it is a local that was seen, the package's or built in.
IsKnown(table, locals, seen, n) == (n \in locals /\ n \in seen) \/ Lookup(table, n) \/ n \in Builtins

ResolveExpr(table, locals, seen, e) ==
    MapSeq(Undeclared, SelectSeq(PlainNames(e), LAMBDA n : ~IsKnown(table, locals, seen, n)))

BoundNames(patterns) == {x[2][1] : x \in {y \in Range_(patterns) : y[1] = "bind" /\ Len(y[2]) = 1}}

BindEarly(table, scope, e) == \* mutant
    LET bound == IF e[1] = "let" THEN BoundNames(e[2]) ELSE {}
        locals == scope.locals \cup bound
        seen == scope.seen \cup bound
        value == IF e[1] = "let" THEN e[3] ELSE e
    IN [locals |-> locals, seen |-> seen, diags |-> scope.diags \o ResolveExpr(table, locals, seen, value)]

\* A binding is visible from the next statement on.
ResolveStmt(table, scope, e) ==
    LET bound == IF e[1] = "let" THEN BoundNames(e[2]) ELSE {}
        value == IF e[1] = "let" THEN e[3] ELSE e
    IN [locals |-> scope.locals \cup bound,
        seen |-> scope.seen \cup bound,
        diags |-> scope.diags \o ResolveExpr(table, scope.locals, scope.seen, value)]

\* Parameters are locals that nothing marks as seen.
ResolveDecl(table, d) ==
    LET scope == [locals |-> {Params(d)[i][2] : i \in DOMAIN Params(d)}, seen |-> {}, diags |-> << >>]
        Step(s, e) == ResolveStmt(table, s, e)
    IN CASE d[1] \in {"func", "main"} -> FoldLeft(Step, scope, Statements(d)).diags
         [] d[1] = "var" -> FlatMap(LAMBDA e : ResolveExpr(table, {}, {}, e), Initial(d))
         [] OTHER -> << >>
=============================================================================
