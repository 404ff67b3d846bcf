------------------------------- MODULE Parser -------------------------------
(***************************************************************************)
(* Expressions, patterns and declarations                                  *)
(* (crates/cj-parser/src/expr.rs and decl.rs).                             *)
(*                                                                         *)
(* A node is a tuple that starts with what it is; an optional part is a    *)
(* sequence of none or one.  Node positions and the raw text of literals   *)
(* are left out.                                                           *)
(***************************************************************************)
EXTENDS TypeParser

False == <<"literal", "BOOL">>
Unit == <<"literal", "()">>

Openers == {"{", "(", "["}
Closers == {"}", ")", "]"}

ExprStart == Primitives \cup Literals \cup Names \cup
    {"_", "unsafe", "this", "super", "(", "[", "{", "let", "var", "const", "if", "while", "do",
     "for", "match", "return", "break", "continue", "throw", "try", "spawn", "func", "$",
     "-", "+", "!", "~"}

RECURSIVE IsIncDecTarget(_)
IsIncDecTarget(e) == \/ e[1] \in {"name", "member", "subscript"}
                     \/ e[1] = "paren" /\ IsIncDecTarget(e[2])

RECURSIVE IsAssignmentTarget(_, _)
IsAssignmentTarget(e, plain) ==
    \/ e[1] \in {"name", "member", "subscript"}
    \/ e[1] = "wildcard" /\ plain
    \/ e[1] = "paren" /\ IsAssignmentTarget(e[2], plain)
    \/ e[1] = "tuple" /\ plain /\ \A i \in DOMAIN e[2] : IsAssignmentTarget(e[2][i], TRUE)

\* An assignment is no initialiser; `from` is where the initialiser starts.
NoAssignment(p, from) ==
    IF p.node[1] = "assign" THEN ErrorAt(p, from, "CANNOT_HAVE_ASSI_IN_INIT") ELSE p

-----------------------------------------------------------------------------
\* Looking ahead in the raw tokens.

GenericFollowers == {"(", ".", "<", ")", "]", "}", ";", ",", ":", "::", "END", "=", "?", "=>",
                     "is", "as", "NL"}

RECURSIVE AfterComments(_, _)
AfterComments(tokens, i) ==
    IF i <= Len(tokens) /\ tokens[i] = "COMMENT" THEN AfterComments(tokens, i + 1) ELSE i

Closes(t) == CASE t \in {">", ">="} -> 1 [] t \in {">>", ">>="} -> 2 [] OTHER -> 0

\* The scan for the `>` of the `<` it starts at, depth being how many are open.
RECURSIVE GenericScan(_, _, _)
GenericScan(tokens, i, depth) ==
    LET t == tokens[i]
        after == AfterComments(tokens, i + 1)
    IN i <= Len(tokens) /\
       CASE t = "<" -> GenericScan(tokens, i + 1, depth + 1)
         [] Closes(t) > depth -> FALSE
         [] Closes(t) = depth /\ depth > 0 ->
                after > Len(tokens) \/ tokens[after] \in GenericFollowers
         [] t = "END" -> FALSE
         [] OTHER -> GenericScan(tokens, i + 1, depth - Closes(t))

LtIsGenericArgs(p) == GenericScan(p.tokens, p.at, 0)

RECURSIVE ArrowScan(_, _, _)
ArrowScan(tokens, i, depth) ==
    LET t == tokens[i]
    IN i <= Len(tokens) /\
       CASE t = "END" -> FALSE
         [] t = "=>" /\ depth = 0 -> TRUE
         [] t \in Openers -> ArrowScan(tokens, i + 1, depth + 1)
         [] t \in Closers -> depth > 0 /\ ArrowScan(tokens, i + 1, depth - 1)
         [] OTHER -> ArrowScan(tokens, i + 1, depth)

LambdaBraceAhead(p) == ArrowScan(p.tokens, Here(p) + 1, 0)

RECURSIVE ParenScan(_, _, _)
ParenScan(tokens, i, depth) ==
    LET t == tokens[i]
    IN i <= Len(tokens) /\
       CASE t = "END" -> FALSE
         [] t = "(" -> ParenScan(tokens, i + 1, depth + 1)
         [] t = ")" /\ depth = 1 -> tokens[Significant(tokens, i + 1)] \in AssignOps
         [] t = ")" /\ depth > 1 -> ParenScan(tokens, i + 1, depth - 1)
         [] OTHER -> ParenScan(tokens, i + 1, depth)

ParenIsAssignmentLhs(p) == At(p, "(") /\ ParenScan(p.tokens, Here(p), 0)

-----------------------------------------------------------------------------
\* The functions of the parser call one another through Parse; `how` is what
\* they are called with besides the parser.
RECURSIVE Parse(_, _, _)
ParseExprPrec(p, minPrec, allowWildcard, inAssignmentRhs) ==
    Parse("expr", p, <<minPrec, allowWildcard, inAssignmentRhs>>)
ParseExpr(p, minPrec) == ParseExprPrec(p, minPrec, FALSE, FALSE)
ParsePattern(p) == Parse("pattern", p, << >>)
ParseBlock(p) == Parse("block", p, << >>)
ParseParamList(p) == Parse("params", p, << >>)
ParseDecl(p, isMember) == Parse("decl", p, isMember)
Type(p) == Parse("type", p, << >>)

\* What a comma-separated list is a list of.
RECURSIVE Items(_, _, _, _)
CallArg(p) ==
    LET named == NameLike(Peek(p)) /\ PeekAhead(p, 1) = ":"
        label == IF named THEN <<Peek(p)>> ELSE << >>
        q == ParseExpr(Skip(IF named THEN Advance(Advance(p)) ELSE p, "inout"), 1)
    IN Got(q, <<label, q.node>>)

Item(kind, p) ==
    CASE kind = "arg" -> CallArg(p)
      [] kind = "expr" -> ParseExpr(p, 1)
      [] kind = "target" -> ParseExprPrec(p, 0, TRUE, FALSE)
      [] kind = "element" -> ParseExprPrec(p, 0, FALSE, FALSE)
      [] kind = "pattern" -> ParsePattern(p)

Items(kind, close, p, items) ==
    IF Closed(p, close) THEN Got(p, items)
    ELSE LET q == Item(kind, p)
             more == Append(items, q.node)
         IN IF At(q, ",") THEN Items(kind, close, Advance(q), more) ELSE Got(q, more)

\* Statements up to a token of `stops`; semicolons between them are optional.
RECURSIVE Stmts(_, _, _)
Stmts(stops, p, stmts) ==
    CASE AtAny(p, stops \cup {"END"}) -> Got(p, stmts)
      [] At(p, ";") -> Stmts(stops, Advance(p), stmts)
      [] OTHER -> LET q == ParseExpr(p, 0)
                  IN Stmts(stops, Skip(q, ";"), Append(stmts, q.node))

\* The end of the block that starts at `open`; q.node are its statements.
CloseBlock(q, open) ==
    CASE At(q, "}") -> Advance(q)
      [] AtAny(q, {")", "]", ">", "END"}) ->
            ErrorAt(q, IF At(q, "END") THEN open ELSE Here(q), "EXPECTED_RIGHT_DELIMITER")
      [] OTHER -> Error(q, "EXPECTED")
ABlock(p) == Into(<<"block">>, CloseBlock(Stmts({"}"}, Expect(p, "{"), << >>), Here(p)))

RECURSIVE LambdaParams(_, _)
LambdaParams(p, params) ==
    IF Closed(p, "=>") \/ ~(NameLike(Peek(p)) \/ At(p, "_")) THEN Got(p, params)
    ELSE LET q == Advance(p)
             r == Skip(q, "!")
             s == IF At(r, ":") THEN Type(Advance(r)) ELSE Got(r, <<"invalid">>)
             Then(after) ==
                LET more == Append(params, <<"param", Peek(p), At(q, "!"), after.node, << >>>>)
                IN IF At(after, ",") THEN LambdaParams(Advance(after), more) ELSE Got(after, more)
         IN Then(s)

ParseLambda(p) ==
    LET q == LambdaParams(Expect(p, "{"), << >>)
        r == Stmts({"}"}, Expect(q, "=>"), << >>)
    IN Into(<<"lambda", q.node>>, Expect(r, "}"))

Braces(p) == IF LambdaBraceAhead(p) THEN ParseLambda(p) ELSE ParseBlock(p)

-----------------------------------------------------------------------------
\* Operators, by precedence climbing; p.node is the left operand.

TightRight(op) == Precedence(op) \* mutant

\* What the right operand must bind tighter than.
RightPrec(op) == IF op \in {"??", "**"} THEN Precedence(op) ELSE Precedence(op) + 1

RECURSIVE Climb(_, _, _)
RangeStep(p) == IF At(p, ":") /\ PeekAhead(p, 1) \in ExprStart THEN ParseExpr(Advance(p), 1) ELSE p

Climb(p, minPrec, inAssignmentRhs) ==
    LET op == Peek(p)
        lhs == p.node
        chained == ErrorIf(p, inAssignmentRhs, "CHAINED_NONE_ASSOCIATIVE")
        target == ErrorIf(chained, ~IsAssignmentTarget(lhs, op = "="), "INVALID_LEFT_HAND_EXPR")
        value == ParseExprPrec(Advance(target), 0, FALSE, TRUE)
        type == Type(Advance(p))
        rhs == ParseExpr(Advance(p), RightPrec(op))
        binary == <<"binary", op, lhs, rhs.node>>
        Continue(q, e) == Climb(Got(q, e), minPrec, inAssignmentRhs)
    IN IF op \in AssignOps /\ minPrec = 0 THEN Continue(value, <<"assign", op, lhs, value.node>>)
       ELSE IF Precedence(op) = 0 \/ Precedence(op) < minPrec \/ op = "?" THEN p
       ELSE
       CASE op \in {"is", "as"} -> Continue(type, <<op, lhs, type.node>>)
         [] op \in {"..", "..="} -> Continue(RangeStep(rhs), binary)
         [] OTHER -> Continue(rhs, binary)

RECURSIVE Postfix(_)
Call(p) == Into(<<"call", p.node>>, ExpectClose(Items("arg", ")", Advance(p), << >>), ")", Here(p)))

\* `.name`, with type arguments that are read and dropped.
Member(p) ==
    LET q == Advance(Advance(p))
        r == IF At(q, "<") /\ LtIsGenericArgs(q) THEN ParseGenericArgs(q) ELSE q
    IN Got(r, <<"member", p.node, PeekAhead(p, 1)>>)

RECURSIVE MoreIndices(_)
MoreIndices(p) == IF At(p, ",") THEN MoreIndices(ParseExpr(Advance(p), 1)) ELSE p

Subscript(p) ==
    LET q == ParseExpr(Advance(p), 1)
    IN Got(ExpectClose(MoreIndices(q), "]", Here(p)), <<"subscript", p.node, q.node>>)

TypeArgs(p) ==
    LET q == ParseGenericArgs(p)
    IN Got(q, IF p.node[1] = "name" THEN <<"name", p.node[2], q.node>> ELSE p.node)

Increment(p) ==
    LET q == ErrorIf(p, ~IsIncDecTarget(p.node), "INVALID_INCRE_EXPR")
    IN Got(Advance(q), <<"postfix", Peek(p), p.node>>)

TrailingClosure(p) == Into(<<"closure", p.node>>, Braces(p))

OptionalSuffix(p) ==
    LET q == Got(Advance(p), <<"optional", p.node>>)
    IN IF At(q, "{") THEN TrailingClosure(q) ELSE q

OptionalFollowers == {".", "(", "[", "{"}
ClosureBases == {"name", "member", "call", "array", "optional", "macro"}

Postfix(p) ==
    LET t == Peek(p)
    IN CASE t = "(" /\ ~LineBreakBefore(p) -> Postfix(Call(p))
         [] t = "." /\ NameLike(PeekAhead(p, 1)) -> Postfix(Member(p))
         [] t = "." /\ ~NameLike(PeekAhead(p, 1)) -> Error(Advance(p), "EXPECTED_NAME")
         [] t = "[" -> Postfix(Subscript(p))
         [] t = "<" /\ LtIsGenericArgs(p) -> Postfix(TypeArgs(p))
         [] t \in {"++", "--"} -> Postfix(Increment(p))
         [] t = "?" /\ PeekAhead(p, 1) \in OptionalFollowers -> Postfix(OptionalSuffix(p))
         [] t = "?" /\ PeekAhead(p, 1) \notin OptionalFollowers -> Error(p, "EXPECTED_CHARACTER_AFTER")
         [] t = "{" /\ LambdaBraceAhead(p) /\ p.node[1] \in ClosureBases -> Postfix(TrailingClosure(p))
         [] OTHER -> p

-----------------------------------------------------------------------------
\* Patterns.

\* Type arguments in a pattern's name, token by token until they balance.
RECURSIVE NameArgs(_, _, _)
NameArgs(p, depth, name) ==
    LET t == Peek(p)
        more == Append(name, t)
    IN IF depth <= 0 \/ t = "END" THEN Got(p, name)
       ELSE NameArgs(Advance(p), CASE t = "<" -> depth + 1 [] t = ">" -> depth - 1
                                   [] t = ">>" -> depth - 2 [] OTHER -> depth, more)

RECURSIVE PatternName(_, _)
PatternName(p, name) ==
    LET q == IF At(p, "<") THEN NameArgs(Advance(p), 1, Append(name, "<")) ELSE Got(p, name)
    IN IF At(q, ".") /\ NameLike(PeekAhead(q, 1))
       THEN PatternName(Advance(Advance(q)), q.node \o <<".", PeekAhead(q, 1)>>)
       ELSE q

NamePattern(p) ==
    LET q == PatternName(Advance(p), <<Peek(p)>>)
        args == Items("pattern", ")", Advance(q), << >>)
    IN IF At(q, "(") THEN Into(<<"constructor", q.node>>, Expect(args, ")"))
       ELSE Got(q, <<"bind", q.node, FALSE, << >>>>)

RECURSIVE Alternatives(_), TupleElements(_, _)
Alternatives(p) == IF At(p, "|") THEN Alternatives(ParsePattern(Advance(p))) ELSE p

TupleElements(p, elements) ==
    IF Closed(p, ")") THEN Got(p, elements)
    ELSE LET q == ParsePattern(p)
             r == Alternatives(q)
             more == Append(elements, q.node)
         IN IF At(r, ",") THEN TupleElements(Advance(r), more) ELSE Got(r, more)

TuplePattern(p) == Into(<<"tuple">>, Expect(TupleElements(Advance(p), << >>), ")"))

\* A literal, after a minus sign or not; `start` is where the pattern starts.
LiteralPattern(p, start) ==
    IF Peek(p) \in Literals THEN Got(Advance(p), <<"const", Peek(p)>>)
    ELSE Got(Advance(ErrorAt(p, start, "EXPECTED_PATTERN")), <<"invalid">>)

\* `: T` after a pattern; only a name keeps it.
TypedPattern(q) ==
    LET type == Type(Advance(q))
    IN IF ~At(q, ":") THEN q
       ELSE IF q.node[1] = "bind" THEN Got(type, <<"bind", q.node[2], q.node[3], <<type.node>>>>)
       ELSE Got(type, q.node)

APattern(p) ==
    LET t == Peek(p)
    IN TypedPattern(
        CASE t = "_" -> Got(Advance(p), <<"wildcard">>)
          [] NameLike(t) -> NamePattern(p)
          [] t = "(" -> TuplePattern(p)
          [] t = "-" -> LiteralPattern(Advance(p), Here(p))
          [] OTHER -> LiteralPattern(p, Here(p)))

RECURSIVE SetMutable(_)
SetMutable(pattern) ==
    CASE pattern[1] = "bind" -> <<"bind", pattern[2], TRUE, pattern[4]>>
      [] pattern[1] = "tuple" -> <<"tuple", [i \in DOMAIN pattern[2] |-> SetMutable(pattern[2][i])]>>
      [] pattern[1] = "constructor" ->
            <<"constructor", pattern[2], [i \in DOMAIN pattern[3] |-> SetMutable(pattern[3][i])]>>
      [] OTHER -> pattern
Bound(pattern, mutable) == IF mutable THEN SetMutable(pattern) ELSE pattern

-----------------------------------------------------------------------------
\* Atoms.

\* The tokens of a macro's arguments, up to the parenthesis that closes them.
RECURSIVE MacroArgs(_, _, _)
MacroArgs(p, depth, args) ==
    LET t == Peek(p)
    IN IF t = "END" \/ (t = ")" /\ depth = 0) THEN Got(p, args)
       ELSE MacroArgs(Advance(p), CASE t = "(" -> depth + 1 [] t = ")" -> depth - 1 [] OTHER -> depth,
                      Append(args, t))

MacroExpand(p) ==
    LET q == Advance(Advance(p))
        args == MacroArgs(Advance(q), 0, << >>)
    IN IF ~NameLike(PeekAhead(p, 1)) THEN Got(Advance(p), <<"invalid">>)
       ELSE IF At(q, "(") THEN Got(Expect(args, ")"), <<"macro", PeekAhead(p, 1), args.node>>)
       ELSE Got(q, <<"macro", PeekAhead(p, 1), << >>>>)

\* A macro call inside a quote; unlike MacroExpand it takes the closing
\* parenthesis itself, and for one of the arguments.
QuotedMacro(p) ==
    LET q == Advance(Advance(p))
        args == MacroArgs(Advance(q), 0, << >>)
        closed == IF At(args, "END") THEN args ELSE Got(Advance(args), Append(args.node, ")"))
    IN IF At(q, "(") THEN Got(closed, <<"macro", PeekAhead(p, 1), closed.node>>)
       ELSE Got(q, <<"macro", PeekAhead(p, 1), << >>>>)

Interpolation(p) == Into(<<"paren">>, Expect(ParseExpr(Advance(Advance(p)), 0), ")"))

RECURSIVE QuoteParts(_, _, _)
QuoteParts(p, depth, parts) ==
    LET t == Peek(p)
        Part(q) == QuoteParts(q, depth, Append(parts, q.node))
        plain == Append(parts, <<"token", t>>)
    IN CASE t = "END" -> Got(Error(p, "EXPECTED"), parts)
         [] t = "$" /\ PeekAhead(p, 1) = "(" -> Part(Interpolation(p))
         [] t = "@" /\ NameLike(PeekAhead(p, 1)) -> Part(QuotedMacro(p))
         [] t = "(" -> QuoteParts(Advance(p), depth + 1, plain)
         [] t = ")" /\ depth = 1 -> Got(Advance(p), parts)
         [] t = ")" /\ depth > 1 -> QuoteParts(Advance(p), depth - 1, plain)
         [] OTHER -> QuoteParts(Advance(p), depth, plain)

Quote(p) == Into(<<"quote">>, QuoteParts(Expect(Advance(p), "("), 1, << >>))

\* `(`: unit, a tuple or an expression in parentheses. A tuple that is assigned
\* to may hold wildcards.
Paren(p, allowWildcard) ==
    LET kind == IF allowWildcard \/ ParenIsAssignmentLhs(p) THEN "target" ELSE "element"
        first == Item(kind, Advance(p))
        rest == Items(kind, ")", Advance(first), <<first.node>>)
    IN IF PeekAhead(p, 1) = ")" THEN Got(Advance(Advance(p)), Unit)
       ELSE IF At(first, ",") THEN Into(<<"tuple">>, ExpectClose(rest, ")", Here(p)))
       ELSE Into(<<"paren">>, ExpectClose(first, ")", Here(p)))

Array(p) == Into(<<"array">>, ExpectClose(Items("expr", "]", Advance(p), << >>), "]", Here(p)))

WildcardAtom(p, allowed) ==
    LET q == Got(Advance(p), <<"wildcard">>)
    IN IF allowed \/ At(q, "=") THEN q ELSE ErrorAt(q, Here(p), "UNEXPECTED_WILDCARD")

LocalDecl(p) ==
    LET q == ParseDecl(p, FALSE)
    IN Got(q, IF q.node = << >> THEN <<"invalid">> ELSE <<"decl", q.node[1]>>)

\* `let pattern = e` as a statement, or `let pattern <- e`.
LetType(q) ==
    IF At(q, ":") /\ q.node[1] # "bind" THEN Got(Advance(q), q.node) ELSE TypedPattern(q)
LetValue(q) ==
    Into(<<"let", <<q.node>>>>,
         CASE At(q, "=") -> NoAssignment(ParseExpr(Advance(q), 0), Here(Advance(q)))
           [] At(q, "<-") -> ParseExpr(Advance(q), 1)
           [] OTHER -> Got(q, Unit))
LetPattern(p) ==
    LET bound == ParsePattern(Advance(p))
    IN LetValue(LetType(Got(bound, Bound(bound.node, At(p, "var")))))

Return(p) ==
    LET q == Advance(p)
        value == ParseExpr(q, 1)
    IN IF Peek(q) \in ExprStart THEN Got(value, <<"return", <<value.node>>>>)
       ELSE Got(q, <<"return", << >>>>)

\* throw, spawn, perform: a keyword and an expression.
Prefixed(p, minPrec) == Into(<<Peek(p)>>, ParseExpr(Advance(p), minPrec))

Resume(p) ==
    LET q == Advance(p)
        value == ParseExpr(Advance(q), 0)
    IN IF AtAny(q, {"with", "throwing"}) THEN Into(<<"resume">>, value)
       ELSE Got(q, <<"resume", <<"invalid">>>>)

Dollar(p) ==
    LET q == Advance(p)
    IN IF Peek(q) \in Names THEN Got(Advance(q), <<"name", "$" \o Peek(q), << >>>>)
       ELSE Got(ErrorAt(q, Here(p), "EXPECT_ESCAPE_DOLLAR_TOKEN"), <<"invalid">>)

-----------------------------------------------------------------------------
\* Control flow.

\* `let p | q <- e` between `&&` or `&`.
RECURSIVE Patterns(_, _), LetConditions(_, _)
Patterns(p, patterns) ==
    LET q == ParsePattern(p)
        more == Append(patterns, q.node)
    IN IF At(q, "|") THEN Patterns(Advance(q), more) ELSE Got(q, more)

LetConditions(p, bindings) ==
    IF Closed(p, ")") THEN Got(p, bindings)
    ELSE LET q == Patterns(Advance(p), << >>)
             patterns == [i \in DOMAIN q.node |-> Bound(q.node[i], At(p, "var"))]
             r == ParseExpr(Expect(q, "<-"), 1)
             more == Append(bindings, <<"let", patterns, r.node>>)
         IN IF AtAny(r, {"&&", "&"}) THEN LetConditions(Advance(r), more) ELSE Got(r, more)

\* Several statements are a block, a single one stands for itself.
Sequence(stmts) == IF Len(stmts) = 1 THEN stmts[1] ELSE <<"block", stmts>>

Condition(p) ==
    LET q == LetConditions(Advance(p), << >>)
    IN IF At(p, "(") /\ PeekAhead(p, 1) \in {"let", "var"}
       THEN Got(Expect(q, ")"), <<"paren", Sequence(q.node)>>)
       ELSE ParseExpr(p, 1)

\* A condition without parentheses is an error and is not read at all.
Unparenthesised(p) == Peek(p) \notin {"(", "END"}
BadCondition(p) == ParseBlock(Error(p, "EXPECTED_LEFT_PAREN_AFTER"))

RECURSIVE ParseIf(_)
Else(node, then) ==
    LET q == Advance(then)
        else == IF At(q, "if") THEN ParseIf(q) ELSE ParseBlock(q)
    IN IF At(then, "else") THEN Got(else, node \o <<then.node, <<else.node>>>>)
       ELSE Got(then, node \o <<then.node, << >>>>)
Then(cond) == Else(<<"if", cond.node>>, ParseBlock(cond))
ParseIf(p) ==
    LET q == Advance(p)
        bad == BadCondition(q)
    IN IF Unparenthesised(q) THEN Got(bad, <<"if", False, bad.node, << >>>>) ELSE Then(Condition(q))

WhileBody(cond) == Into(<<"while", cond.node>>, ParseBlock(cond))
ParseWhile(p) ==
    LET q == Advance(p)
    IN IF Unparenthesised(q) THEN Into(<<"while", False>>, BadCondition(q)) ELSE WhileBody(Condition(q))

DoWhile(p) ==
    LET body == ParseBlock(Advance(p))
        cond == ParseExpr(Expect(body, "while"), 1)
    IN Got(cond, <<"while", cond.node, body.node>>)

Iterated(node, iter) ==
    LET guarded == IF At(iter, "where") THEN ParseExpr(Advance(iter), 1) ELSE iter
    IN Into(Append(node, iter.node), ParseBlock(Expect(guarded, ")")))
ForIn(p) ==
    LET pattern == ParsePattern(Expect(Advance(p), "("))
    IN Iterated(<<"for", pattern.node>>, ParseExpr(Expect(pattern, "in"), 1))

\* Without a selector a case is a boolean expression.
CaseLabel(selectorless, p) ==
    LET e == ParseExpr(p, 0)
    IN IF selectorless THEN Got(e, <<"const", e.node>>) ELSE ParsePattern(p)

RECURSIVE OtherLabels(_, _)
OtherLabels(selectorless, p) ==
    IF At(p, "|") THEN OtherLabels(selectorless, CaseLabel(selectorless, Advance(p))) ELSE p

CaseBody(label, guard, p) ==
    LET body == Stmts({"case", "}"}, Expect(p, "=>"), << >>)
    IN Got(Skip(body, ","), <<label, guard, Sequence(body.node)>>)
Guarded(label, p) ==
    LET guard == ParseExpr(Advance(p), 1)
    IN IF AtAny(p, {"if", "where"}) THEN CaseBody(label, <<guard.node>>, guard) ELSE CaseBody(label, << >>, p)
ParseCase(selectorless, p) ==
    LET q == Expect(p, "case")
        label == CaseLabel(selectorless /\ ~At(q, "_"), q)
    IN Guarded(label.node, OtherLabels(selectorless, label))

RECURSIVE Cases(_, _, _)
Cases(selectorless, p, cases) ==
    CASE Closed(p, "}") -> Got(p, cases)
      [] At(p, ";") -> Cases(selectorless, Advance(p), cases)
      [] OTHER -> LET q == ParseCase(selectorless, p)
                  IN Cases(selectorless, q, Append(cases, q.node))

ParseMatch(p) ==
    LET q == Advance(p)
        selectorless == At(q, "{")
        scrutinee == IF selectorless THEN Got(q, Unit) ELSE ParseExpr(q, 1)
        cases == Cases(selectorless, Expect(scrutinee, "{"), << >>)
    IN Into(<<"match", scrutinee.node>>, Expect(cases, "}"))

\* `: T`, or nothing; a sequence of none or one.
Typed(p) ==
    LET type == Type(Advance(p))
    IN IF At(p, ":") THEN Got(type, <<type.node>>) ELSE Got(p, << >>)

\* `try (x = e, ...)`: the resources are read and dropped.
RECURSIVE Resources(_), Catches(_, _), Handlers(_), UnionTypes(_)
Resources(p) ==
    IF Closed(p, ")") \/ ~NameLike(Peek(p)) THEN p
    ELSE LET q == Advance(p)
             r == IF At(q, "=") THEN ParseExpr(Advance(q), 1) ELSE q
         IN IF At(r, ",") THEN Resources(Advance(r)) ELSE r

Catch(open) ==
    LET q == Skip(Skip(open, "("), "_")
        named == Peek(q) \in Names
        type == Typed(IF named THEN Advance(q) ELSE q)
    IN Into(<<IF named THEN <<Peek(q)>> ELSE << >>, type.node>>,
            ParseBlock(IF At(open, "(") THEN Expect(type, ")") ELSE type))
Catches(p, catches) ==
    LET q == Catch(Advance(p))
    IN IF At(p, "catch") THEN Catches(q, Append(catches, q.node)) ELSE Got(p, catches)

UnionTypes(p) == LET q == Type(Advance(p)) IN IF At(q, "|") THEN UnionTypes(q) ELSE q

\* Effect handlers are read and dropped.
Handlers(p) ==
    IF ~At(p, "handle") THEN p
    ELSE LET open == Advance(p)
             q == Skip(open, "(")
             bound == At(q, "_") \/ NameLike(Peek(q))
             r == IF bound THEN Advance(q) ELSE Error(q, "EXPECTED_EXPRESSION")
             s == IF bound /\ At(r, ":") THEN UnionTypes(r) ELSE r
         IN Handlers(ParseBlock(IF At(open, "(") THEN Expect(s, ")") ELSE s))

Finally(node, p) ==
    LET finally == ParseBlock(Advance(p))
    IN IF At(p, "finally") THEN Got(finally, Append(node, <<finally.node>>)) ELSE Got(p, Append(node, << >>))
AfterTry(body) ==
    LET catches == Catches(body, << >>)
    IN Finally(<<"try", body.node, catches.node>>, Handlers(catches))
ParseTry(p) ==
    LET q == Advance(p)
    IN AfterTry(ParseBlock(IF At(q, "(") THEN Expect(Resources(Advance(q)), ")") ELSE q))

ParseAtom(p, allowWildcard) ==
    LET t == Peek(p)
        q == Advance(p)
    IN CASE t \in Literals -> Got(q, <<"literal", t>>)
         [] t = "_" -> WildcardAtom(p, allowWildcard)
         [] t = "unsafe" -> ParseBlock(q)
         [] t \in Names \cup Primitives \cup {"this", "super", "is", "as"} -> Got(q, <<"name", t, << >>>>)
         [] t = "quote" -> Quote(p)
         [] t \in {"@", "@!"} -> MacroExpand(p)
         [] t = "(" -> Paren(p, allowWildcard)
         [] t = "[" -> Array(p)
         [] t = "{" -> Braces(p)
         [] t = "func" \/ (t = "const" /\ Peek(q) = "func") -> LocalDecl(p)
         [] t \in {"let", "var"} \/ (t = "const" /\ Peek(q) # "func") -> LetPattern(p)
         [] t = "if" -> ParseIf(p)
         [] t = "while" -> ParseWhile(p)
         [] t = "do" -> DoWhile(p)
         [] t = "for" -> ForIn(p)
         [] t = "match" -> ParseMatch(p)
         [] t = "return" -> Return(p)
         [] t \in {"break", "continue"} -> Got(q, <<t>>)
         [] t \in {"throw", "spawn"} -> Prefixed(p, 1)
         [] t = "perform" -> Prefixed(p, 0)
         [] t = "try" -> ParseTry(p)
         [] t = "resume" -> Resume(p)
         [] t = "$" -> Dollar(p)
         [] t = "END" -> Got(p, <<"invalid">>)
         [] NameLike(t) /\ t \notin Names \cup {"unsafe", "is", "as", "match", "spawn"} ->
                Got(q, <<"name", t, << >>>>)
         [] OTHER -> Got(Advance(Error(p, "EXPECTED_EXPRESSION")), <<"invalid">>)

RECURSIVE ParseUnary(_, _)
ParseUnary(p, allowWildcard) ==
    LET op == Peek(p)
        q == ParseUnary(Advance(p), FALSE)
    IN CASE op \in {"-", "+", "!", "~"} -> Got(q, <<"unary", op, q.node>>)
         [] op \in {"++", "--"} ->
                LET r == IF IsIncDecTarget(q.node) THEN q ELSE ErrorAt(q, Here(p), "INVALID_INCRE_EXPR")
                IN Got(r, <<"prefix", op, q.node>>)
         [] OTHER -> Postfix(ParseAtom(p, allowWildcard))

AnExpr(p, minPrec, allowWildcard, inAssignmentRhs) ==
    Climb(ParseUnary(p, allowWildcard), minPrec, inAssignmentRhs)

-----------------------------------------------------------------------------
\* Declarations.

Modifier == Access \cup {"static", "abstract", "open", "sealed", "mut", "const", "override",
                         "foreign", "redef", "operator"}

\* A second `public` before `(` is a name; `unsafe` only modifies a function.
AtModifier(p, mods) ==
    LET next == PeekAhead(p, 1)
    IN \/ AtAny(p, Modifier) /\ ~(At(p, "public") /\ "public" \in mods /\ next = "(")
       \/ At(p, "unsafe") /\ next \in {"func", "main", "operator"}

\* The modifiers read, each with its place.
RECURSIVE Modifiers(_, _)
Modifiers(p, mods) ==
    IF AtModifier(p, {mods[i][1] : i \in DOMAIN mods})
    THEN Modifiers(Advance(p), Append(mods, <<Peek(p), Here(p)>>))
    ELSE Got(p, mods)

\* Every modifier for which Bad holds is reported.
RECURSIVE ReportAll(_, _, _, _)
ReportAll(p, mods, bad, id) ==
    IF mods = << >> THEN p
    ELSE ReportAll(IF Head(mods)[1] \in bad THEN ErrorAt(p, Head(mods)[2], id) ELSE p,
                   Tail(mods), bad, id)

CheckModifierUsage(p, mods, kind) ==
    LET used == {mods[i][1] : i \in DOMAIN mods}
        firstSealed == SelectSeq(mods, LAMBDA m : m[1] = "sealed")
        illegal == "sealed" \in used /\ kind \in {"enum", "struct", "func", "let", "var", "prop"}
        q == IF illegal THEN ErrorAt(p, Head(firstSealed)[2], "ILLEGAL_MODIFIER_IN_SCOPE") ELSE p
        r == IF kind = "extend" THEN ReportAll(q, mods, used, "EXPECTED_NO_MODIFIER") ELSE q
        checked == {"enum", "struct", "func", "let", "var", "prop", "extend", "class", "interface"}
    IN IF "sealed" \in used /\ kind \in checked
       THEN ReportAll(r, mods, {"open", "public"}, "REDUNDANT_MODIFIER")
       ELSE r

\* Type parameters: only when `<` is followed by a name and then `,` or `>`.
RECURSIVE TypeParamNames(_, _)
TypeParamNames(p, names) ==
    IF Peek(p) \notin Names THEN Got(p, names)
    ELSE LET q == Advance(p)
             more == Append(names, Peek(p))
         IN IF At(q, ",") THEN TypeParamNames(Advance(q), more) ELSE Got(q, more)

LooksLikeTypeParams(p) == PeekAhead(p, 1) \in Names /\ PeekAhead(p, 2) \in {">", ","}
ParseTypeParams(p) ==
    IF At(p, "<") /\ LooksLikeTypeParams(p) THEN EatGtClose(TypeParamNames(Advance(p), << >>))
    ELSE Got(p, << >>)

\* `where T <: A & B, U <: C`: read and dropped.
RECURSIVE UpperBounds(_), WhereBounds(_)
UpperBounds(p) == LET q == Type(p) IN IF At(q, "&") THEN UpperBounds(Advance(q)) ELSE q
WhereBounds(p) ==
    LET q == UpperBounds(Expect(IF NameLike(Peek(p)) THEN Advance(p) ELSE p, "<:"))
    IN IF At(q, ",") THEN WhereBounds(Advance(q)) ELSE q
ParseWhere(p) == IF At(p, "where") THEN WhereBounds(Advance(p)) ELSE p

\* The rest of a delimited argument block, up to and with its own delimiter.
RECURSIVE Delimited(_, _, _, _, _)
Delimited(p, open, close, depth, args) ==
    LET t == Peek(p)
    IN IF t = "END" THEN Got(p, args)
       ELSE IF t = close /\ depth = 0 THEN Got(Advance(p), args)
       ELSE Delimited(Advance(p), open, close,
                      CASE t = open -> depth + 1 [] t = close -> depth - 1 [] OTHER -> depth,
                      Append(args, t))

\* Annotations before a parameter or an enum case.
EatAnnotation(p) ==
    LET q == Advance(p)
        r == IF NameLike(Peek(q)) THEN Advance(q) ELSE q
    IN CASE At(r, "[") -> Delimited(Advance(r), "[", "]", 0, << >>)
         [] At(r, "(") -> Delimited(Advance(r), "(", ")", 0, << >>)
         [] OTHER -> r
RECURSIVE EatAnnotations(_)
EatAnnotations(p) == IF AtAny(p, {"@", "@!"}) THEN EatAnnotations(EatAnnotation(p)) ELSE p

\* An access word before `:` or `!` is the parameter's name.
RECURSIVE ParamModifiers(_)
ParamModifiers(p) ==
    IF \/ AtAny(p, {"let", "var"})
       \/ AtAny(p, Access) /\ PeekAhead(p, 1) \notin {":", "!"}
    THEN ParamModifiers(Advance(p)) ELSE p

Ellipsis(p) ==
    LET q == Advance(p)
    IN IF ~At(p, "...") THEN p ELSE IF Peek(q) \in Names THEN Advance(q) ELSE q

\* `= e` after a declaration's name and type; a sequence of none or one.
Initializer(p) ==
    LET from == Here(Advance(p))
        value == NoAssignment(ParseExpr(Advance(p), 0), from)
    IN IF At(p, "=") THEN Got(value, <<value.node>>) ELSE Got(p, << >>)

\* One parameter; `named` says whether a named one came before.
Param(p, named) ==
    LET q == Advance(p)
        isNamed == At(q, "!")
        r == Skip(q, "!")
        ordered == IF named /\ ~isNamed THEN ErrorAt(r, Here(p), "NAMED_PARAMETER_AFTER_UNNAMED") ELSE r
        type == Type(Expect(ordered, ":"))
        default == Initializer(ErrorIf(type, At(type, "=") /\ ~isNamed, "EXPECTED_DOT_LPAREN"))
    IN Got(default, <<"param", Peek(p), isNamed, type.node, default.node>>)

RECURSIVE Params(_, _, _)
Params(p, named, params) ==
    IF Closed(p, ")") THEN Got(p, params)
    ELSE LET q == ParamModifiers(EatAnnotations(Ellipsis(p)))
             ok == NameLike(Peek(q)) \/ At(q, "_")
             r == IF ok THEN Param(q, named) ELSE Advance(Error(q, "EXPECTED_NAME"))
             more == IF ok THEN Append(params, r.node) ELSE params
             met == named \/ (ok /\ r.node[3])
         IN IF At(r, ",") THEN Params(Advance(r), met, more) ELSE Got(r, more)

AParamList(p) == Expect(Params(Expect(p, "("), FALSE, << >>), ")")

\* A second list is an error, and its parameters count.
RECURSIVE ExtraParamLists(_)
ExtraParamLists(p) ==
    LET q == ParseParamList(Error(p, "EXPECTED_LEFT_BRACE"))
    IN IF At(p, "(") THEN ExtraParamLists(Got(q, p.node \o q.node)) ELSE p
AllParams(p) == ExtraParamLists(ParseParamList(p))

ParseBody(p) ==
    LET block == ParseBlock(p)
    IN IF At(p, "{") THEN Got(block, <<block.node[2]>>) ELSE Got(p, << >>)

RECURSIVE Supertypes(_, _)
Supertypes(p, types) ==
    LET q == Type(p)
        more == Append(types, q.node)
    IN IF AtAny(q, {",", "&"}) THEN Supertypes(Advance(q), more) ELSE Got(q, more)
ParseParents(p) == IF AtAny(p, {"<:", ":"}) THEN Supertypes(Advance(p), << >>) ELSE Got(p, << >>)

\* Members, up to the closing brace; a token that starts none is reported
\* and dropped.  Unlike a class, an enum does not keep its members.
RECURSIVE Members(_, _)
Members(p, members) ==
    IF Closed(p, "}") THEN Got(p, members)
    ELSE IF At(p, ";") THEN Members(Advance(p), members)
    ELSE LET q == ParseDecl(p, TRUE)
         IN IF q.node = << >> THEN Members(Advance(Error(q, "EXPECTED_DECL")), members)
            ELSE Members(q, members \o q.node)

ParseClassBody(p) == Expect(Members(Expect(p, "{"), << >>), "}")
BodyIf(p, starts) ==
    IF AtAny(p, starts) THEN ParseClassBody(p) ELSE Got(p, << >>)

\* Enum cases.
CaseKeyword == Access \cup {"override", "redef", "abstract", "sealed", "open", "common",
                            "specific", "features"}

RECURSIVE CaseAnnotations(_), SkipToCase(_), EnumCases(_, _)
CaseAnnotations(p) ==
    IF ~AtAny(p, {"@", "@!"}) THEN p
    ELSE LET q == Skip(EatAnnotation(p), "|") IN IF Closed(q, "}") THEN q ELSE CaseAnnotations(q)

SkipToCase(p) == IF At(p, "|") \/ Closed(p, "}") THEN Skip(p, "|") ELSE SkipToCase(Advance(p))

Payload(p) ==
    IF At(p, "(") THEN Expect(Types(Advance(p), {")"}, << >>), ")") ELSE Got(p, << >>)

EnumCase(p) ==
    LET modified == AtAny(p, CaseKeyword) /\ PeekAhead(p, 1) \in Names
        q == IF modified THEN Advance(Error(p, "EXPECTED_NO_MODIFIER")) ELSE p
    IN Into(<<Peek(q)>>, Payload(Advance(q)))

AddCase(q, cases) ==
    LET more == Append(cases, q.node)
    IN IF AtAny(q, {"|", ","}) THEN EnumCases(Advance(q), more) ELSE Got(q, more)
EnumCases(p, cases) ==
    LET q == CaseAnnotations(p)
    IN IF At(p, "...") THEN Got(Advance(p), cases)
       ELSE IF Closed(p, "}") \/ Closed(q, "}") THEN Got(q, cases)
       ELSE IF Peek(q) \notin Names \cup CaseKeyword
            THEN EnumCases(SkipToCase(Error(q, "EXPECTED_NAME")), cases)
       ELSE AddCase(EnumCase(q), cases)

CloseEnum(cases) == Got(Expect(Members(cases, << >>), "}"), cases.node)
EnumBody(p) == CloseEnum(EnumCases(Skip(Expect(p, "{"), "|"), << >>))

\* Property accessors: `get() {..} set(v) {..}`, read and dropped.
RECURSIVE AccessorParams(_), AccessorMods(_), Accessors(_)
AccessorParams(p) ==
    IF Closed(p, ")") \/ ~(NameLike(Peek(p)) \/ At(p, "_")) THEN p
    ELSE LET q == Advance(p)
             r == IF At(q, ":") THEN Type(Advance(q)) ELSE q
         IN IF At(r, ",") THEN AccessorParams(Advance(r)) ELSE r
AccessorMods(p) == IF AtAny(p, {"mut", "static"}) THEN AccessorMods(Advance(p)) ELSE p
Accessors(p) ==
    IF Closed(p, "}") THEN p
    ELSE IF At(p, ";") THEN Accessors(Advance(p))
    ELSE LET q == AccessorMods(p)
             r == Advance(q)
             s == IF At(r, "(") THEN Expect(AccessorParams(Advance(r)), ")") ELSE r
         IN IF ~AtAny(q, {"get", "set", "init"}) THEN q
            ELSE Accessors(IF At(s, "{") THEN ParseBlock(s) ELSE s)
PropAccessors(p) == IF At(p, "{") THEN Expect(Accessors(Advance(p)), "}") ELSE p

\* One declaration each; `has` is the set of its modifiers.
Flags(has, kept) == has \cap kept

Constructor(p, name, has) ==
    LET params == AllParams(p)
    IN Into(<<"func", Flags(has, {"public", "static"}), name, << >>, params.node, << >>>>, ParseBody(params))

OperatorName(p) ==
    LET q == Advance(p)
        close == CASE At(p, "(") -> ")" [] At(p, "[") -> "]" [] OTHER -> ""
    IN Got(Skip(q, close), Peek(p))

FuncName(p, isOperator) ==
    IF NameLike(Peek(p)) THEN Got(Advance(p), Peek(p))
    ELSE IF isOperator /\ AtAny(p, OperatorLike \cup {"!", "~"}) THEN OperatorName(p)
    ELSE Got(Error(p, "EXPECTED_NAME"), "")

ReturnType(p) ==
    IF At(p, ":") /\ ~IsTypeStart(PeekAhead(p, 1)) THEN Got(Error(Advance(p), "EXPECTED_NAME"), << >>)
    ELSE Typed(p)

FuncBody(node, foreign, ret) ==
    LET untyped == foreign /\ ret.node = << >>
    IN Into(Append(node, ret.node),
            ParseBody(ParseWhere(ErrorIf(ret, untyped, "FOREIGN_FUNC_MUST_DECLARE_RETURN_TYPE"))))

Func(p, has) ==
    LET q == IF "operator" \in has THEN p ELSE Skip(p, "operator")
        name == FuncName(q, "operator" \in has \/ At(p, "operator"))
        tparams == ParseTypeParams(name)
        params == AllParams(tparams)
    IN FuncBody(<<"func", Flags(has, {"public", "static", "abstract"}), name.node, tparams.node, params.node>>,
                "foreign" \in has, ReturnType(params))

\* `: T = e` after what is declared.
TypeAndValue(node, p) ==
    LET type == Typed(p)
    IN Into(Append(node, type.node), Initializer(type))

VarRest(p, name, mutable, has) == TypeAndValue(<<"var", Flags(has, {"public", "static"}), name, mutable>>, p)

PatternVar(p, mutable) ==
    LET pattern == ParsePattern(p)
    IN TypeAndValue(<<"varpattern", Bound(pattern.node, mutable)>>, pattern)

Variable(p, var, has) ==
    LET mutable == var \/ "mut" \in has
        unnamed == ConsumeUntilNl(Error(p, "EXPECTED_ONE_OF_IDENTIFIER_OR_PATTERN"))
    IN IF At(p, "(") THEN PatternVar(p, var)
       ELSE IF NameLike(Peek(p)) \/ At(p, "_") THEN VarRest(Advance(p), Peek(p), mutable, has)
       ELSE Got(unnamed, <<"var", Flags(has, {"public", "static"}), "", mutable, << >>, << >>>>)

\* class, struct, interface: the tokens their body may start with; a class
\* and a struct need one.
TypeDecl(p, kind, has) ==
    LET name == Advance(p)
        tparams == ParseTypeParams(ExpectName(name))
        parents == ParseParents(tparams)
        starts == IF kind = "class" THEN {"{", ":"} ELSE {"{"}
        Body(q) == BodyIf(ErrorIf(q, kind # "interface" /\ ~AtAny(q, starts), "EXPECTED_LEFT_BRACE"), starts)
        kept == CASE kind = "class" -> {"public", "abstract", "open", "sealed"}
                  [] kind = "struct" -> {"public", "open"}
                  [] kind = "interface" -> {"public"}
    IN Into(<<kind, Flags(has, kept), Peek(name), tparams.node, parents.node>>, Body(ParseWhere(parents)))

EnumDecl(p, has) ==
    LET name == Advance(p)
        tparams == ParseTypeParams(ExpectName(name))
        parents == ParseParents(tparams)
    IN Into(<<"enum", Flags(has, {"public"}), Peek(name), tparams.node, parents.node>>,
            EnumBody(ParseWhere(parents)))

\* The type parameters of an extension become its first members.
Extend(p, has) ==
    LET tparams == ParseTypeParams(Advance(p))
        target == Type(tparams)
        body == ParseClassBody(ParseWhere(ParseParents(target)))
        generic == [i \in DOMAIN tparams.node |-> <<"generic", tparams.node[i]>>]
    IN Got(body, <<"extend", Flags(has, {"public"}), target.node, generic \o body.node>>)

TypeAlias(p, has) ==
    LET name == Advance(p)
        tparams == ParseTypeParams(ExpectName(name))
    IN Into(<<"alias", Flags(has, {"public"}), Peek(name), tparams.node>>, Type(Expect(tparams, "=")))

Prop(p, has) ==
    LET name == Advance(p)
        type == Type(Expect(ExpectName(name), ":"))
    IN Got(PropAccessors(type), <<"prop", Flags(has, {"public", "static"}), Peek(name), type.node>>)

Init(p, has) ==
    LET params == ParseParamList(Advance(p))
    IN Into(<<"init", Flags(has, {"public"}), params.node>>, ParseBody(params))

SkipType(p) == IF At(p, ":") THEN Type(Advance(p)) ELSE p

Macro(p, has) ==
    LET name == Advance(p)
        params == ParseParamList(ExpectName(name))
    IN Into(<<"macro", Flags(has, {"public"}), Peek(name), params.node>>, ParseBody(SkipType(params)))

Main(p) == Into(<<"main">>, ParseBody(SkipType(ParseParamList(Advance(p)))))

\* `@a.M(..)` or `@a.M[..]`: the first `)` ends the arguments in parentheses,
\* brackets nest.
RECURSIVE QualifiedName(_, _), UntilParen(_, _)
QualifiedName(p, name) ==
    IF At(p, ".") /\ NameLike(PeekAhead(p, 1))
    THEN QualifiedName(Advance(Advance(p)), Append(name, PeekAhead(p, 1)))
    ELSE Got(p, name)
UntilParen(p, args) ==
    IF Closed(p, ")") THEN Got(p, args) ELSE UntilParen(Advance(p), Append(args, Peek(p)))

MacroDecl(p) ==
    LET name == Advance(p)
        q == QualifiedName(Advance(name), <<Peek(name)>>)
        args == CASE At(q, "(") -> UntilParen(Advance(q), << >>)
                  [] At(q, "[") -> Delimited(Advance(q), "[", "]", 0, << >>)
                  [] OTHER -> Got(q, << >>)
    IN IF ~NameLike(Peek(name)) THEN Got(name, << >>)
       ELSE Got(IF At(q, "(") THEN Expect(args, ")") ELSE args, << <<"expand", q.node, args.node>> >>)

\* The declarations between the braces of `foreign { .. }`.
RECURSIVE SkipAll(_, _), ForeignDecls(_, _, _)
SkipAll(p, t) == IF At(p, t) THEN SkipAll(Advance(p), t) ELSE p
ForeignDecls(p, isMember, decls) ==
    IF Closed(p, "}") THEN Got(p, decls)
    ELSE LET q == ParseDecl(SkipAll(p, ";"), isMember)
         IN IF q.node = << >> THEN ForeignDecls(Advance(Error(q, "EXPECTED_DECL")), isMember, decls)
            ELSE ForeignDecls(q, isMember, decls \o q.node)

\* Of the block's declarations the first one is the result.
ForeignBlock(p, isMember) ==
    LET decls == ForeignDecls(Advance(p), isMember, << >>)
    IN Got(Expect(decls, "}"), IF decls.node = << >> THEN << <<"builtin">> >> ELSE <<decls.node[1]>>)

DeclOf(p, has) ==
    LET t == Peek(p)
        q == Advance(p)
    IN CASE t = "func" -> Func(q, has)
         [] t \in {"let", "var"} -> Variable(q, t = "var", has)
         [] t \in {"class", "struct", "interface"} -> TypeDecl(p, t, has)
         [] t = "enum" -> EnumDecl(p, has)
         [] t = "extend" -> Extend(p, has)
         [] t = "type" -> TypeAlias(p, has)
         [] t = "prop" -> Prop(p, has)
         [] t = "init" -> Init(p, has)
         [] t = "macro" -> Macro(p, has)
         [] t = "main" -> Main(p)
         [] t = "package" -> Got(Advance(q), <<"package", Peek(q)>>)
         [] OTHER -> VarRest(q, t, FALSE, has)

Keywords == {"func", "let", "var", "class", "struct", "interface", "enum", "extend", "type",
             "prop", "init", "macro", "main", "package"}

DeclAfter(q, has, isMember) ==
    LET t == Peek(q)
        One(r) == Got(r, <<r.node>>)
    IN CASE "foreign" \in has /\ t = "{" -> ForeignBlock(q, isMember)
         [] isMember /\ NameLike(t) /\ PeekAhead(q, 1) = "(" -> One(Constructor(Advance(q), t, has))
         [] isMember /\ t = "~" /\ PeekAhead(q, 1) = "init" ->
                One(Constructor(Advance(Advance(q)), "~init", has))
         [] t \in {"@", "@!"} -> MacroDecl(q)
         [] OTHER -> IF t \in Keywords \/ ("const" \in has /\ NameLike(t)) THEN One(DeclOf(q, has))
                     ELSE Got(q, << >>)

ADecl(p, isMember) ==
    LET mods == Modifiers(p, << >>)
        has == {mods.node[i][1] : i \in DOMAIN mods.node}
    IN DeclAfter(CheckModifierUsage(mods, mods.node, Peek(mods)), has, isMember)

Parse(what, p, how) ==
    CASE what = "type" -> ParseType(p)
      [] what = "expr" -> AnExpr(p, how[1], how[2], how[3])
      [] what = "pattern" -> APattern(p)
      [] what = "block" -> ABlock(p)
      [] what = "params" -> AParamList(p)
      [] what = "decl" -> ADecl(p, how)
=============================================================================
