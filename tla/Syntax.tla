------------------------------- MODULE Syntax --------------------------------
(***************************************************************************)
(* The syntax tree (crates/cj-ast/src/generated.rs) as the parser builds   *)
(* it: a node is a tuple whose first element says what it is.  What may be *)
(* absent is a sequence of none or one.  Positions are left out.           *)
(***************************************************************************)
EXTENDS Naturals, Sequences, SequencesExt

MapSeq(F(_), s) == [i \in DOMAIN s |-> F(s[i])]
FlatMap(F(_), s) == FlattenSeq(MapSeq(F, s))

-----------------------------------------------------------------------------
\* The elements of each node after its kind.
TypeArity ==
    [ref |-> 2, qualified |-> 1, option |-> 1, primitive |-> 1, paren |-> 1, func |-> 2, tuple |-> 1,
     invalid |-> 0]

PatternArity == [bind |-> 3, const |-> 1, tuple |-> 1, constructor |-> 2, wildcard |-> 0, invalid |-> 0]

OperandArity ==
    [wildcard |-> 0, call |-> 2, paren |-> 1, member |-> 2, name |-> 2, optional |-> 1, literal |-> 1,
     assign |-> 3, unary |-> 2, binary |-> 3, prefix |-> 2, postfix |-> 2, subscript |-> 2, is |-> 2,
     as |-> 2, array |-> 1, tuple |-> 1]

StatementArity ==
    [return |-> 1, match |-> 2, block |-> 1, if |-> 3, let |-> 2, quote |-> 1, try |-> 3, while |-> 2,
     break |-> 0, continue |-> 0, lambda |-> 2, closure |-> 2, for |-> 3, throw |-> 1, perform |-> 1,
     resume |-> 1, spawn |-> 1, macro |-> 2, decl |-> 1, token |-> 1, invalid |-> 0]

DeclArity ==
    [main |-> 1, func |-> 6, macro |-> 4, class |-> 5, interface |-> 5, extend |-> 3, enum |-> 5,
     struct |-> 5, alias |-> 4, init |-> 3, builtin |-> 0, var |-> 5, prop |-> 3, varpattern |-> 3,
     generic |-> 1, package |-> 1, expand |-> 2]

HasArity(node, arity) == node[1] \in DOMAIN arity /\ Len(node) = arity[node[1]] + 1

-----------------------------------------------------------------------------
\* What a node holds.
TypeParts(t) ==
    CASE t[1] = "ref" -> t[3]
      [] t[1] \in {"option", "paren"} -> <<t[2]>>
      [] t[1] = "func" -> Append(t[2], t[3])
      [] t[1] = "tuple" -> t[2]
      [] OTHER -> << >>

PatternParts(x) ==
    CASE x[1] = "tuple" -> x[2] [] x[1] = "constructor" -> x[3] [] OTHER -> << >>

Defaults(params) == FlatMap(LAMBDA x : x[5], params)
ParamTypes(params) == MapSeq(LAMBDA x : x[4], params)

Operands(e) ==
    CASE e[1] = "call" -> <<e[2]>> \o MapSeq(LAMBDA arg : arg[2], e[3])
      [] e[1] \in {"paren", "optional", "member", "is", "as"} -> <<e[2]>>
      [] e[1] \in {"assign", "binary"} -> <<e[3], e[4]>>
      [] e[1] \in {"unary", "prefix", "postfix"} -> <<e[3]>>
      [] e[1] = "subscript" -> <<e[2], e[3]>>
      [] e[1] \in {"array", "tuple"} -> e[2]
      [] OTHER -> << >>

\* A case is its pattern, guard and body; a catch its name, type and body.
Parts(e) ==
    CASE e[1] \in {"return", "block", "quote"} -> e[2]
      [] e[1] = "match" -> <<e[2]>> \o FlatMap(LAMBDA c : Append(c[2], c[3]), e[3])
      [] e[1] = "if" -> <<e[2], e[3]>> \o e[4]
      [] e[1] = "let" -> <<e[3]>>
      [] e[1] = "try" -> <<e[2]>> \o MapSeq(LAMBDA c : c[3], e[3]) \o e[4]
      [] e[1] \in {"while", "closure"} -> <<e[2], e[3]>>
      [] e[1] = "lambda" -> Defaults(e[2]) \o e[3]
      [] e[1] = "for" -> <<e[3], e[4]>>
      [] e[1] \in {"throw", "perform", "resume", "spawn"} -> <<e[2]>>
      [] OTHER -> << >>

Children(e) == IF e[1] \in DOMAIN OperandArity THEN Operands(e) ELSE Parts(e)

\* The nodes a walk reaches that looks into nodes of the given kinds only.
RECURSIVE Reached(_, _)
Reached(kinds, e) ==
    <<e>> \o IF e[1] \in kinds THEN FlatMap(LAMBDA c : Reached(kinds, c), Children(e)) ELSE << >>
ReachedIn(kinds, es) == FlatMap(LAMBDA e : Reached(kinds, e), es)

OfKind(nodes, kind) == SelectSeq(nodes, LAMBDA e : e[1] = kind)
NamesIn(nodes) == MapSeq(LAMBDA e : e[2], OfKind(nodes, "name"))
AllKinds == DOMAIN OperandArity \cup DOMAIN StatementArity

TypesOf(e) ==
    CASE e[1] = "name" -> e[3]
      [] e[1] \in {"is", "as"} -> <<e[3]>>
      [] e[1] = "lambda" -> ParamTypes(e[2])
      [] e[1] = "try" -> FlatMap(LAMBDA c : c[2], e[3])
      [] OTHER -> << >>

PatternsOf(e) ==
    CASE e[1] = "let" -> e[2]
      [] e[1] = "for" -> <<e[2]>>
      [] e[1] = "match" -> MapSeq(LAMBDA c : c[1], e[3])
      [] OTHER -> << >>

-----------------------------------------------------------------------------
\* Declarations.
Range_(s) == {s[i] : i \in DOMAIN s}
TypeKinds == {"class", "interface", "struct"}

Body(d) ==
    CASE d[1] = "func" -> d[7] [] d[1] = "macro" -> d[5] [] d[1] = "init" -> d[4] [] d[1] = "main" -> d[2]
      [] OTHER -> << >>
Statements(d) == FlattenSeq(Body(d))
Params(d) ==
    CASE d[1] = "func" -> d[5] [] d[1] = "macro" -> d[4] [] d[1] = "init" -> d[3] [] OTHER -> << >>
Members(d) ==
    CASE d[1] \in TypeKinds -> d[6] [] d[1] = "extend" -> d[4] [] OTHER -> << >>
Parents(d) == IF d[1] \in TypeKinds \cup {"enum"} THEN d[5] ELSE << >>
Initial(d) == CASE d[1] = "var" -> d[6] [] d[1] = "varpattern" -> d[4] [] OTHER -> << >>

-----------------------------------------------------------------------------
\* Every node the parser builds has its parts, and these are well formed.
RECURSIVE IsType(_), IsPattern(_), IsExpr(_), IsDecl(_)
Each(P(_), s) == \A i \in DOMAIN s : P(s[i])
IsOptional(s) == Len(s) <= 1

IsType(t) == HasArity(t, TypeArity) /\ Each(IsType, TypeParts(t))

IsPattern(x) ==
    /\ HasArity(x, PatternArity)
    /\ Each(IsPattern, PatternParts(x))
    /\ x[1] = "bind" => IsOptional(x[4]) /\ Each(IsType, x[4])

IsParam(x) ==
    /\ x[1] = "param" /\ Len(x) = 5
    /\ x[3] \in BOOLEAN /\ IsType(x[4])
    /\ IsOptional(x[5]) /\ Each(IsExpr, x[5])

IsExpr(e) ==
    /\ HasArity(e, OperandArity) \/ HasArity(e, StatementArity)
    /\ Each(IsExpr, Children(e))
    /\ Each(IsType, TypesOf(e))
    /\ Each(IsPattern, PatternsOf(e))
    /\ CASE e[1] = "call" -> Each(LAMBDA arg : Len(arg) = 2 /\ IsOptional(arg[1]), e[3])
         [] e[1] = "lambda" -> Each(IsParam, e[2])
         [] e[1] = "match" -> Each(LAMBDA c : Len(c) = 3 /\ IsOptional(c[2]), e[3])
         [] e[1] = "try" -> Each(LAMBDA c : Len(c) = 3 /\ IsOptional(c[1]), e[3]) /\ IsOptional(e[4])
         [] e[1] \in {"return", "if"} -> IsOptional(e[Len(e)])
         [] e[1] = "decl" -> IsDecl(e[2])
         [] OTHER -> TRUE

IsDecl(d) ==
    /\ HasArity(d, DeclArity)
    /\ IsOptional(Body(d)) /\ Each(IsExpr, Statements(d))
    /\ Each(IsParam, Params(d))
    /\ Each(IsDecl, Members(d))
    /\ Each(IsType, Parents(d))
    /\ IsOptional(Initial(d)) /\ Each(IsExpr, Initial(d))
    /\ CASE d[1] = "func" -> IsOptional(d[6]) /\ Each(IsType, d[6])
         [] d[1] = "var" -> IsOptional(d[5]) /\ Each(IsType, d[5])
         [] d[1] = "varpattern" -> IsPattern(d[2]) /\ IsOptional(d[3]) /\ Each(IsType, d[3])
         [] d[1] = "enum" -> Each(LAMBDA c : Len(c) = 2 /\ Each(IsType, c[2]), d[6])
         [] d[1] = "extend" -> IsType(d[3])
         [] d[1] \in {"alias", "prop"} -> IsType(d[Len(d)])
         [] OTHER -> TRUE
=============================================================================
