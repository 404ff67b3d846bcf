------------------------------ MODULE MCParser -------------------------------
(***************************************************************************)
(* Programs as trees, the text each is written as, and what may happen to  *)
(* the text: a comment or a line break between two tokens, a bracket lost, *)
(* a stray token.  The printers are the grammar the parser is checked      *)
(* against.                                                                *)
(***************************************************************************)
EXTENDS ParseFile, SequencesExt

VARIABLES meant,  \* the file as a tree
          change  \* what happened to its text

Tree == INSTANCE Syntax
Fix == INSTANCE QuickFix
View == INSTANCE Outline

\* As the lexer reads it: two closing angles are one token.
RECURSIVE Angles(_)
Angles(text) ==
    LET Pair(i) == text[i] = ">" /\ text[i + 1] = ">"
        pairs == {i \in 1 .. Len(text) - 1 : Pair(i)}
        first == CHOOSE i \in pairs : \A j \in pairs : i <= j
    IN IF pairs = {} THEN text
       ELSE SubSeq(text, 1, first - 1) \o <<">>">> \o Angles(SubSeq(text, first + 2, Len(text)))

-----------------------------------------------------------------------------
\* Printers.

RECURSIVE Text(_, _)
PType(t) == Text("type", t)
PPattern(x) == Text("pattern", x)
PExpr(e) == Text("expr", e)
PDecl(d) == Text("decl", d)

\* The texts of a list's elements with `sep` between them; of an optional
\* part with `before` before it.
RECURSIVE List(_, _, _)
List(what, nodes, sep) ==
    IF nodes = << >> THEN << >>
    ELSE Text(what, nodes[1]) \o (IF Len(nodes) = 1 THEN << >> ELSE sep \o List(what, Tail(nodes), sep))
Maybe(before, what, nodes) == IF nodes = << >> THEN << >> ELSE before \o Text(what, nodes[1])

PTypeArgs(args) == IF args = << >> THEN << >> ELSE <<"<">> \o List("type", args, <<",">>) \o <<">">>
TypeText(t) ==
    CASE t[1] = "ref" -> List("word", t[2], <<".">>) \o PTypeArgs(t[3])
      [] t[1] = "qualified" -> List("word", t[2], <<".">>)
      [] t[1] = "primitive" -> <<t[2]>>
      [] t[1] = "option" -> IF t[2][1] = "func" THEN <<"?">> \o PType(t[2]) ELSE PType(t[2]) \o <<"?">>
      [] t[1] = "paren" -> <<"(">> \o PType(t[2]) \o <<")">>
      [] t[1] = "tuple" -> <<"(">> \o List("type", t[2], <<",">>) \o <<")">>
      [] t[1] = "func" -> <<"(">> \o List("type", t[2], <<",">>) \o <<")", "->">> \o PType(t[3])

PatternText(x) ==
    CASE x[1] = "wildcard" -> <<"_">>
      [] x[1] = "const" -> <<x[2]>>
      [] x[1] = "bind" -> x[2] \o Maybe(<<":">>, "type", x[4])
      [] x[1] = "constructor" -> x[2] \o <<"(">> \o List("pattern", x[3], <<",">>) \o <<")">>
      [] x[1] = "tuple" -> <<"(">> \o List("pattern", x[2], <<",">>) \o <<")">>

PStmts(stmts) == List("expr", stmts, <<";">>)
PArg(arg) == (IF arg[1] = << >> THEN << >> ELSE arg[1] \o <<":">>) \o PExpr(arg[2])
PParam(x) ==
    <<x[2]>> \o (IF x[3] THEN <<"!">> ELSE << >>)
             \o (IF x[4][1] = "invalid" THEN << >> ELSE <<":">> \o PType(x[4]))
             \o Maybe(<<"=">>, "expr", x[5])
PParams(params) == List("param", params, <<",">>)
PCase(c) == <<"case">> \o PPattern(c[1]) \o Maybe(<<"where">>, "expr", c[2]) \o <<"=>">> \o PExpr(c[3])
PCatch(c) ==
    <<"catch", "(">> \o c[1] \o Maybe(<<":">>, "type", c[2]) \o <<")">> \o PExpr(c[3])
PPart(x) ==
    CASE x[1] = "token" -> <<x[2]>>
      [] x[1] = "paren" -> <<"$">> \o PExpr(x)
      [] x[1] = "macro" -> <<"@", x[2], "(">> \o x[3]
KeywordOf(pattern) == IF pattern = SetMutable(pattern) THEN "var" ELSE "let"

ExprText(e) ==
    CASE e[1] = "name" -> <<e[2]>> \o PTypeArgs(e[3])
      [] e[1] = "literal" -> IF e[2] = "()" THEN <<"(", ")">> ELSE <<e[2]>>
      [] e[1] \in {"binary", "assign"} -> PExpr(e[3]) \o <<e[2]>> \o PExpr(e[4])
      [] e[1] \in {"is", "as"} -> PExpr(e[2]) \o <<e[1]>> \o PType(e[3])
      [] e[1] \in {"unary", "prefix"} -> <<e[2]>> \o PExpr(e[3])
      [] e[1] = "postfix" -> PExpr(e[3]) \o <<e[2]>>
      [] e[1] = "call" -> PExpr(e[2]) \o <<"(">> \o List("arg", e[3], <<",">>) \o <<")">>
      [] e[1] = "member" -> PExpr(e[2]) \o <<".", e[3]>>
      [] e[1] = "subscript" -> PExpr(e[2]) \o <<"[">> \o PExpr(e[3]) \o <<"]">>
      [] e[1] = "optional" -> PExpr(e[2]) \o <<"?">>
      [] e[1] = "closure" -> PExpr(e[2]) \o PExpr(e[3])
      [] e[1] = "paren" -> <<"(">> \o (IF e[2][1] = "let" THEN <<KeywordOf(e[2][2][1])>>
                                         \o List("pattern", e[2][2], <<"|">>) \o <<"<-">> \o PExpr(e[2][3])
                                       ELSE PExpr(e[2])) \o <<")">>
      [] e[1] = "tuple" -> <<"(">> \o List("expr", e[2], <<",">>) \o <<")">>
      [] e[1] = "array" -> <<"[">> \o List("expr", e[2], <<",">>) \o <<"]">>
      [] e[1] = "block" -> <<"{">> \o PStmts(e[2]) \o <<"}">>
      [] e[1] = "lambda" -> <<"{">> \o PParams(e[2]) \o <<"=>">> \o PStmts(e[3]) \o <<"}">>
      [] e[1] = "wildcard" -> <<"_">>
      [] e[1] = "let" -> <<KeywordOf(e[2][1])>> \o PPattern(e[2][1]) \o <<"=">> \o PExpr(e[3])
      [] e[1] = "if" -> <<"if">> \o PExpr(e[2]) \o PExpr(e[3]) \o Maybe(<<"else">>, "expr", e[4])
      [] e[1] = "while" -> <<"while">> \o PExpr(e[2]) \o PExpr(e[3])
      [] e[1] = "for" -> <<"for", "(">> \o PPattern(e[2]) \o <<"in">> \o PExpr(e[3]) \o <<")">> \o PExpr(e[4])
      [] e[1] = "match" -> <<"match">> \o PExpr(e[2]) \o <<"{">> \o List("case", e[3], <<"NL">>) \o <<"}">>
      [] e[1] = "try" -> <<"try">> \o PExpr(e[2]) \o List("catch", e[3], << >>)
                                  \o Maybe(<<"finally">>, "expr", e[4])
      [] e[1] = "return" -> <<"return">> \o Maybe(<< >>, "expr", e[2])
      [] e[1] \in {"throw", "spawn", "perform"} -> <<e[1]>> \o PExpr(e[2])
      [] e[1] = "resume" -> <<"resume", "with">> \o PExpr(e[2])
      [] e[1] \in {"break", "continue"} -> <<e[1]>>
      [] e[1] = "macro" -> <<"@", e[2], "(">> \o e[3] \o <<")">>
      [] e[1] = "quote" -> <<"quote", "(">> \o List("part", e[2], << >>) \o <<")">>
      [] e[1] = "decl" -> PDecl(e[2])

\* Modifiers in one of their orders.
PFlags(flags) == SelectSeq(<<"sealed", "public", "abstract", "open", "static">>, LAMBDA m : m \in flags)
PTypeParams(names) ==
    IF names = << >> THEN << >> ELSE <<"<">> \o List("word", names, <<",">>) \o <<">">>
PBody(body) == Maybe(<<"{">>, "stmts", body) \o (IF body = << >> THEN << >> ELSE <<"}">>)
PMembers(members) == <<"{">> \o List("decl", members, <<";">>) \o <<"}">>
PParents(types) == IF types = << >> THEN << >> ELSE <<"<:">> \o List("type", types, <<"&">>)
PEnumCase(c) == <<c[1]>> \o (IF c[2] = << >> THEN << >> ELSE <<"(">> \o List("type", c[2], <<",">>) \o <<")">>)
PTyped(type, init) == Maybe(<<":">>, "type", type) \o Maybe(<<"=">>, "expr", init)

DeclText(d) ==
    CASE d[1] = "func" ->
            PFlags(d[2]) \o (IF d[3] = "~init" THEN <<"~", "init">>
                             ELSE IF d[3] = "C" THEN <<"C">>  \* a constructor
                             ELSE IF d[3] = "+" THEN <<"operator", "func", "+">>
                             ELSE <<"func", d[3]>>)
                \o PTypeParams(d[4]) \o <<"(">> \o PParams(d[5]) \o <<")">>
                \o Maybe(<<":">>, "type", d[6]) \o PBody(d[7])
      [] d[1] = "var" -> PFlags(d[2]) \o <<IF d[4] THEN "var" ELSE "let", d[3]>> \o PTyped(d[5], d[6])
      [] d[1] = "varpattern" -> <<KeywordOf(d[2])>> \o PPattern(d[2]) \o PTyped(d[3], d[4])
      [] d[1] \in {"class", "struct", "interface"} ->
            PFlags(d[2]) \o <<d[1], d[3]>> \o PTypeParams(d[4]) \o PParents(d[5]) \o PMembers(d[6])
      [] d[1] = "enum" -> PFlags(d[2]) \o <<"enum", d[3]>> \o PTypeParams(d[4]) \o PParents(d[5])
                              \o <<"{">> \o List("enum case", d[6], <<"|">>) \o <<"}">>
      [] d[1] = "extend" ->
            LET own == SelectSeq(d[4], LAMBDA m : m[1] # "generic")
                generic == SelectSeq(d[4], LAMBDA m : m[1] = "generic")
            IN <<"extend">> \o PTypeParams([i \in DOMAIN generic |-> generic[i][2]]) \o PType(d[3])
                   \o PMembers(own)
      [] d[1] = "alias" -> <<"type", d[3]>> \o PTypeParams(d[4]) \o <<"=">> \o PType(d[5])
      [] d[1] = "prop" -> PFlags(d[2]) \o <<"prop", d[3], ":">> \o PType(d[4])
                              \o <<"{", "get", "(", ")", "{", "}", "set", "(", "a", ")", "{", "}", "}">>
      [] d[1] = "init" -> PFlags(d[2]) \o <<"init", "(">> \o PParams(d[3]) \o <<")">> \o PBody(d[4])
      [] d[1] = "macro" -> PFlags(d[2]) \o <<"macro", d[3], "(">> \o PParams(d[4]) \o <<")", ":", "A">> \o PBody(d[5])
      [] d[1] = "main" -> <<"main", "(", ")">> \o PBody(d[2])
      [] d[1] = "expand" -> <<"@">> \o List("word", d[2], <<".">>) \o <<"[">> \o d[3] \o <<"]">>

PImport(i) ==
    <<"public", "import">> \o List("word", i.path, <<".">>)
        \o (IF i.glob THEN <<".", "*">>
            ELSE IF i.selected = << >> THEN << >>
            ELSE <<".", "{">> \o List("word", i.selected, <<",">>) \o <<"}">>)
Text(what, node) ==
    CASE what = "word" -> <<node>>
      [] what = "type" -> TypeText(node)
      [] what = "pattern" -> PatternText(node)
      [] what = "expr" -> ExprText(node)
      [] what = "stmts" -> PStmts(node)
      [] what = "arg" -> PArg(node)
      [] what = "param" -> PParam(node)
      [] what = "case" -> PCase(node)
      [] what = "catch" -> PCatch(node)
      [] what = "part" -> PPart(node)
      [] what = "enum case" -> PEnumCase(node)
      [] what = "decl" -> DeclText(node)
      [] what = "import" -> PImport(node)

PFile(f) ==
    Angles((IF f.package = << >> THEN << >>
            ELSE <<"package">> \o List("word", f.package, <<".">>) \o <<"NL">>)
           \o List("import", f.imports, <<"NL">>) \o (IF f.imports = << >> THEN << >> ELSE <<"NL">>)
           \o List("decl", f.decls, <<"NL">>)) \o <<"END">>

-----------------------------------------------------------------------------
\* Expressions of one operation over names, and of two.

Name(n) == <<"name", n, << >>>>
a == Name("a")
b == Name("b")
A == Ref(<<"A">>, << >>)
Int64 == <<"primitive", "Int64">>
One == <<"literal", "INTEGER">>
Bind(n) == <<"bind", <<n>>, FALSE, << >>>>
Block(stmts) == <<"block", stmts>>
P(n, type) == <<"param", n, FALSE, type, << >>>>
Arg(e) == <<<< >>, e>>

BinaryOps == {"*", "**", "+", "<<", "..", "<", ">", "==", "&", "^", "|", "&&", "||", "??", "|>"}
RightAssociative == {"??", "**"}

\* What may be an operand without parentheses.  A name with type arguments
\* may only be called or selected from.
Generic(e) == e[1] = "name" /\ e[3] # << >>
IsOperand(e) ==
    /\ e[1] \in {"name", "call", "member", "subscript", "closure", "paren", "tuple", "array", "literal"}
    /\ ~Generic(e)
Level(e) ==
    IF e[1] = "binary" THEN Precedence(e[2]) ELSE IF e[1] \in {"is", "as"} THEN 10
    ELSE IF e[1] \in {"unary", "prefix", "postfix"} \/ IsOperand(e) THEN 17 ELSE 0
LeftOf(op, e) ==
    /\ IF op \in RightAssociative THEN Level(e) > Precedence(op) ELSE Level(e) >= Precedence(op)
    /\ ~(e[1] \in {"is", "as"} /\ op = "<")
RightOf(op, e) ==
    IF op \in RightAssociative THEN Level(e) >= Precedence(op) ELSE Level(e) > Precedence(op)

Binaries(e) ==
    {<<"binary", op, e, b>> : op \in {o \in BinaryOps : LeftOf(o, e)}} \cup
    {<<"binary", op, b, e>> : op \in {o \in BinaryOps : RightOf(o, e)}} \cup
    {<<k, e, A>> : k \in {o \in {"is", "as"} : Level(e) >= 10}}
Units(e) ==
    IF Level(e) < 17 THEN {}
    ELSE {<<"unary", op, e>> : op \in {"-", "!"}} \cup
         (IF IsIncDecTarget(e) THEN {<<"prefix", "++", e>>, <<"postfix", "--", e>>} ELSE {})
Postfixes(e) ==
    (IF IsOperand(e) \/ Generic(e)
     THEN {<<"call", e, <<Arg(b), <<<<"x">>, One>>>>>>, <<"member", e, "x">>, <<"member", <<"optional", e>>, "x">>}
     ELSE {}) \cup
    IF ~IsOperand(e) THEN {}
    ELSE {<<"subscript", e, b>>, <<"call", <<"optional", e>>, << >>>>} \cup
         (IF e[1] \in ClosureBases
          THEN {<<"closure", e, <<"lambda", <<P("x", <<"invalid">>)>>, <<b>>>>>>} ELSE {})

\* Wherever any expression may stand.
Anywhere(e) ==
    {<<"paren", e>>, <<"tuple", <<b, e>>>>, Block(<<e, b>>), <<"lambda", << >>, <<e>>>>,
     <<"while", <<"paren", e>>, Block(<< >>)>>, <<"while", <<"paren", b>>, Block(<<e>>)>>,
     <<"if", <<"paren", e>>, Block(<<a>>), <<Block(<<b>>)>>>>, <<"perform", e>>, <<"resume", e>>,
     <<"match", <<"paren", e>>, <<<<<<"wildcard">>, << >>, b>>>>>>,
     <<"match", <<"paren", b>>, <<<<<<"constructor", <<"C">>, <<Bind("x")>>>>, << >>, e>>, <<<<"const", "INTEGER">>, <<a>>, b>>>>>>,
     <<"quote", <<<<"token", "(">>, <<"paren", e>>, <<"token", ")">>, <<"macro", "M", <<"a", ")">>>>>>>>}
\* ... any but an assignment.
InList(e) ==
    IF e[1] \in {"assign", "let"} THEN {}
    ELSE {<<"let", <<Bind("x")>>, e>>, <<"call", a, <<Arg(e)>>>>, <<"array", <<e, b>>>>, <<"subscript", a, e>>, <<"throw", e>>, <<"for", <<"tuple", <<Bind("x"), <<"wildcard">>>>>>, e, Block(<<b>>)>>,
          <<"if", <<"paren", <<"let", <<<<"constructor", <<"C">>, <<Bind("x")>>>>, <<"const", "INTEGER">>>>, e>>>>, Block(<<b>>), << >>>>} \cup
         (IF PExpr(e)[1] \in ExprStart THEN {<<"return", <<e>>>>} ELSE {}) \cup
         {<<"assign", op, b, e>> : op \in {"=", "+="}}

Operation(e) == Binaries(e) \cup Units(e) \cup Postfixes(e) \cup Anywhere(e) \cup InList(e)

\* Expressions with nothing to vary.
Fixed ==
    {<<"literal", "()">>, <<"literal", "STRING">>, <<"name", "A", <<Ref(<<"A">>, <<A>>)>>>>,
     <<"call", <<"name", "A", <<A, Int64>>>>, << >>>>, <<"return", << >>>>, <<"break">>, <<"continue">>,
     <<"macro", "M", <<"a", "(", "b", ")">>>>,
     <<"assign", "=", <<"tuple", <<a, <<"wildcard">>>>>>, b>>, <<"assign", "=", <<"wildcard">>, b>>,
     <<"lambda", <<P("x", A), P("y", Int64)>>, <<a, b>>>>, <<"spawn", <<"lambda", << >>, <<a>>>>>>,
     <<"let", <<<<"tuple", <<<<"bind", <<"x">>, TRUE, << >>>>, <<"bind", <<"y">>, TRUE, << >>>>>>>>>>, a>>,
     <<"let", <<<<"bind", <<"x">>, FALSE, <<<<"option", A>>>>>>>>, a>>,
     <<"try", Block(<<a>>), <<<<<<"x">>, <<A>>, Block(<<b>>)>>>>, <<Block(<<a>>)>>>>,
     <<"decl", <<"func", {}, "g", << >>, <<P("x", Int64)>>, <<A>>, <<<<a>>>>>>>>}

Body(stmts) == <<"func", {}, "f", << >>, << >>, << >>, <<stmts>>>>
Simple == Operation(a) \cup Fixed

\* Declarations.
Types0 == {A, Int64, <<"option", A>>, Ref(<<"A">>, <<Ref(<<"A">>, <<A>>), Int64>>), <<"qualified", <<"a", "A">>>>,
           <<"tuple", <<A, Int64>>>>, <<"paren", A>>, <<"func", <<A, <<"option", Int64>>>>, <<"option", A>>>>,
           <<"option", <<"func", << >>, A>>>>}
Var(flags, n, mutable, type, init) == <<"var", flags, n, mutable, type, init>>
Method(flags, name) == <<"func", flags, name, << >>, <<P("a", A)>>, << >>, <<<<a>>>>>>
Members0 == <<Var({"public", "static"}, "x", FALSE, <<Int64>>, << >>), Method({"public"}, "C"), Method({}, "~init"),
              <<"init", {"public"}, <<P("a", A)>>, <<<<b>>>>>>, <<"prop", {"static"}, "y", A>>, Method({"public"}, "+")>>
Decls ==
    {Var({}, "x", FALSE, <<t>>, << >>) : t \in Types0} \cup
    {Var({"public"}, "x", TRUE, << >>, <<One>>), <<"varpattern", <<"tuple", <<Bind("x"), <<"wildcard">>>>>>, << >>, <<a>>>>,
     <<"func", {"public"}, "f", <<"A">>, <<P("a", A), <<"param", "b", TRUE, Int64, <<One>>>>>>, <<A>>, <<<<a, b>>>>>>,
     <<"func", {}, "f", << >>, <<P("public", A), P("_", Int64)>>, <<Int64>>, << >>>>,
     <<"class", {"public", "abstract"}, "C", <<"A">>, <<A, Ref(<<"A">>, <<A>>)>>, Members0>>,
     <<"class", {"open"}, "C", << >>, << >>, << >>>>,
     <<"struct", {}, "C", << >>, <<A>>, SubSeq(Members0, 1, 2)>>,
     <<"interface", {"public"}, "C", << >>, <<A>>, <<<<"func", {"static"}, "f", << >>, << >>, <<A>>, << >>>>>>>>,
     <<"interface", {}, "C", << >>, << >>, << >>>>,
     <<"enum", {"public"}, "C", <<"A">>, <<A>>, <<<<"a", << >>>>, <<"public", <<Int64>>>>, <<"b", <<A, Int64>>>>>>>>,
     <<"extend", {}, Ref(<<"C">>, <<A>>), <<<<"generic", "A">>, Method({}, "f")>>>>,
     <<"alias", {}, "C", <<"A">>, <<"tuple", <<A, Int64>>>>>>,
     <<"macro", {"public"}, "M", <<P("a", A)>>, <<<<a>>>>>>, <<"main", <<<<a>>>>>>,
     <<"expand", <<"a", "M">>, <<"x", "[", "y", "]">>>>}

\* What is read and left out of the tree, or written in a second way.
Paren_(e) == <<"paren", e>>
OtherStatements ==
    {<<<<"while", Paren_(b), Block(<<a>>)>>, <<"do", "{", "a", "}", "while", "(", "b", ")">>>>,
     <<<<"match", Unit, <<<<<<"const", <<"binary", "<", a, b>>>>, << >>, Block(<<a, b>>)>>, <<<<"wildcard">>, << >>, a>>>>>>,
       <<"match", "{", "case", "a", "<", "b", "=>", "a", ";", "b", "case", "_", "=>", "a", ";", "}">>>>,
     <<<<"match", Paren_(a), <<<<<<"tuple", <<<<"const", "INTEGER">>, <<"wildcard">>>>>>, <<b>>, a>>>>>>,
       <<"match", "(", "a", ")", "{", "case", "(", "INTEGER", "|", "STRING", ",", "_", ")", "|", "_", "if", "b", "=>", "a", "}">>>>,
     <<<<"match", Paren_(a), <<<<<<"constructor", <<"A", "<", "A", "<", "A", ">>", ".", "C">>, <<<<"const", "INTEGER">>>>>>, << >>, a>>>>>>,
       <<"match", "(", "a", ")", "{", "case", "A", "<", "A", "<", "A", ">>", ".", "C", "(", "-", "INTEGER", ")", "=>", "a", "}">>>>,
     <<<<"try", Block(<<a>>), <<<<<< >>, <<A>>, Block(<< >>)>>>>, << >>>>,
       <<"try", "(", "x", "=", "b", ",", "y", "=", "b", ")", "{", "a", "}", "catch", "_", ":", "A", "{", "}",
         "handle", "(", "x", ":", "A", "|", "A", ")", "{", "b", "}">>>>,
     <<<<"for", Bind("x"), a, Block(<<b>>)>>, <<"for", "(", "x", "in", "a", "where", "b", ")", "{", "b", "}">>>>,
     <<<<"if", Paren_(a), Block(<< >>), <<<<"if", Paren_(b), Block(<<b>>), << >>>>>>>>,
       <<"if", "(", "a", ")", "{", "}", "else", "if", "(", "b", ")", "{", "b", "}">>>>,
     <<<<"subscript", a, b>>, <<"a", "[", "b", ",", "a", "]">>>>,
     <<<<"call", <<"member", a, "x">>, <<Arg(b)>>>>, <<"a", ".", "x", "<", "A", ">", "(", "inout", "b", ")">>>>,
     <<<<"closure", <<"optional", a>>, Block(<<b>>)>>, <<"a", "?", "{", "b", "}">>>>,
     <<Block(<<a>>), <<"unsafe", "{", "a", "}">>>>, <<<<"name", "$a", << >>>>, <<"$", "a">>>>,
     <<<<"call", <<"name", "Int64", << >>>>, <<Arg(a)>>>>, <<"Int64", "(", "a", ")">>>>,
     <<<<"let", <<<<"constructor", <<"C">>, <<Bind("x")>>>>>>, a>>, <<"let", "C", "(", "x", ")", "<-", "a">>>>,
     <<<<"let", <<Bind("x")>>, Unit>>, <<"const", "x">>>>,
     <<<<"decl", <<"func", {}, "f", << >>, << >>, << >>, <<<< >>>>>>>>, <<"const", "func", "f", "(", ")", "{", "}">>>>,
     <<<<"resume", <<"invalid">>>>, <<"resume">>>>, <<<<"binary", "..", a, b>>, <<"a", "..", "b", ":", "INTEGER">>>>,
     <<<<"assign", "=", <<"tuple", <<a, <<"tuple", <<b, <<"wildcard">>>>>>>>>>, a>>,
       <<"(", "a", ",", "(", "b", ",", "_", ")", ")", "=", "a">>>>}

OtherDecls ==
    {<<Var({}, "x", FALSE, <<Ref(<<"VArray">>, <<A>>)>>, << >>), <<"let", "x", ":", "VArray", "<", "A", ">">>>>,
     <<Var({}, "x", FALSE, <<<<"option", <<"option", Int64>>>>>>, << >>), <<"let", "x", ":", "??", "Int64">>>>,
     <<Var({}, "x", FALSE, <<<<"tuple", <<Int64, Ref(<<"$", "A">>, << >>)>>>>>>, << >>),
       <<"let", "x", ":", "(", "a", ":", "Int64", ",", "b", ":", "$", "A", ")">>>>,
     <<Var({"public"}, "x", FALSE, << >>, <<One>>), <<"public", "const", "x", "=", "INTEGER">>>>,
     <<Var({}, "x", TRUE, << >>, <<One>>), <<"mut", "let", "x", "=", "INTEGER">>>>,
     <<<<"func", {"public"}, "f", <<"A">>, <<P("a", A)>>, << >>, <<<<a>>>>>>,
       <<"public", "unsafe", "func", "f", "<", "A", ">", "(", "public", "let", "a", ":", "A", ")", "where", "A", "<:", "A", "&", "C",
         ",", "A", "<:", "C", "{", "a", "}">>>>,
     <<<<"func", {}, "[", << >>, <<P("a", A)>>, <<A>>, << >>>>,
       <<"foreign", "func", "operator", "[", "]", "(", "...", "@", "A", "[", "[", "a", "]", "]", "a", ":", "A", ")", ":", "A">>>>,
     <<<<"func", {}, "f", << >>, << >>, <<A>>, << >>>>, <<"foreign", "{", ";", "func", "f", "(", ")", ":", "A", "}">>>>,
     <<<<"builtin">>, <<"foreign", "{", "}">>>>, <<<<"package", "a">>, <<";", "package", "a">>>>,
     <<<<"enum", {}, "C", << >>, << >>, <<<<"a", <<A>>>>, <<"b", << >>>>>>>>,
       <<"enum", "C", "{", "|", "@", "A", "(", "x", ")", "a", "(", "A", ")", "|", "b", "func", "f", "(", ")", "{", "}", "}">>>>,
     <<<<"enum", {}, "C", << >>, << >>, <<<<"a", << >>>>>>>>, <<"enum", "C", "{", "a", "|", "...", "}">>>>,
     <<<<"class", {}, "C", << >>, <<A, A>>, <<Method({"public"}, "public")>>>>,
       <<"class", "C", ":", "A", ",", "A", "{", "public", "public", "(", "a", ":", "A", ")", "{", "a", "}", "}">>>>,
     <<<<"expand", <<"M">>, <<"a", ",", "b">>>>, <<"@!", "M", "(", "a", ",", "b", ")">>>>,
     <<<<"expand", <<"M">>, << >>>>, <<"@", "M">>>>}

OtherFiles ==
    {<<[package |-> <<"a", "b">>, imports |-> <<Import(<<"a">>, FALSE, << >>)>>, decls |-> << >>],
       <<"macro", "package", "a", ".", "b", "NL", "import", "a", "as", "x">>>>,
     <<[package |-> <<"a">>, decls |-> << >>,
        imports |-> <<Import(<<"b">>, FALSE, <<"A", "C">>), Import(<<"a", "b">>, FALSE, <<"C">>), Import(<<"a">>, FALSE, <<"x">>),
                      Import(<<"a">>, FALSE, <<"A", "C">>)>>],
       <<"package", "a", "NL", "internal", "import", "b", ":", "A", ",", "C", "NL", "import", "{", "a", ".", "b", ".", "C", "as", "x", "}", "NL",
         "import", "a", ".", "{", "x", "}", "NL", "import", "a", ".", "{", "A", "as", "x", ",", "C", "as", "y", "}">>>>}

-----------------------------------------------------------------------------
File(decls) == [package |-> << >>, imports |-> << >>, decls |-> decls]
Headed(decls) ==
    [package |-> <<"a", "b">>, decls |-> decls,
     imports |-> <<Import(<<"a">>, TRUE, << >>), Import(<<"b", "a">>, FALSE, <<"A", "C">>), Import(<<"a">>, FALSE, << >>)>>]

Insert(text, i, t) == SubSeq(text, 1, i - 1) \o <<t>> \o SubSeq(text, i, Len(text))
Changed(text, c) ==
    CASE c.kind = "none" -> text
      [] c.kind = "extra" -> Insert(text, c.at, c.token)
      [] c.kind = "lost" -> SubSeq(text, 1, c.at - 1) \o SubSeq(text, c.at + 1, Len(text))

\* A line break before `(` ends an expression.
Allowed(text, c) ==
    CASE c.kind = "extra" -> c.token = "NL" => text[c.at] # "("
      [] c.kind = "lost" -> text[c.at] \in Openers \cup Closers

Written(f, c) ==
    /\ meant = f
    /\ change = c
    /\ InitWith(Changed(PFile(f), c))
Intact == [kind |-> "none"]

As(f, text) ==
    /\ meant = f
    /\ change = [kind |-> "other"]
    /\ InitWith(text \o <<"END">>)

\* Functions of two parameters; none without `!` has a default or follows one.
Parameters(n, kinds) ==
    {<<"param", n, kind # "plain", type, IF kind = "default" THEN <<<<"call", a, <<Arg(a), Arg(b)>>>>>> ELSE << >>>> :
        kind \in kinds,
        type \in {A, Ref(<<"A">>, <<A, Int64>>), Ref(<<"A">>, <<Ref(<<"A">>, <<A>>)>>), <<"tuple", <<A, Int64>>>>,
                  <<"func", <<A, A>>, <<"option", A>>>>}}
Binary(x, y) == <<"func", {"public"}, "f", << >>, <<x, y>>, <<A>>, <<<<a>>>>>>

Strays == Closers \cup {"@", "|", "public", "const", ";", ",", "=", "func"}

MCInit ==
    \/ \E e \in Simple : \E x \in Operation(e) : Written(File(<<Body(<<x>>)>>), Intact)
    \/ \E x \in Decls, y \in Decls : Written(Headed(<<x, y>>), Intact)
    \/ \E x \in Parameters("a", {"plain", "named", "default"}) :
          \E y \in Parameters("b", IF x[3] THEN {"named", "default"} ELSE {"plain", "named", "default"}) :
              Written(File(<<Binary(x, y), Body(<< >>)>>), Intact)
    \/ \E x \in OtherStatements : As(File(<<Body(<<x[1], b>>)>>), <<"func", "f", "(", ")", "{">> \o x[2] \o <<";", "b", "}">>)
    \/ \E x \in OtherDecls : As(File(<<x[1], Body(<< >>)>>), x[2] \o <<"NL">> \o PDecl(Body(<< >>)))
    \/ \E x \in OtherFiles : As(x[1], x[2])
    \/ \E f \in {File(<<Body(<<e>>)>>) : e \in Simple} \cup {Headed(<<d>>) : d \in Decls} :
          LET text == PFile(f)
          IN \E i \in DOMAIN text :
                \E c \in {[kind |-> "extra", at |-> i, token |-> t] : t \in Trivia \cup Strays}
                           \cup {[kind |-> "lost", at |-> i]} :
                    Allowed(text, c) /\ Written(f, c)

MCSpec == MCInit /\ [][Next /\ UNCHANGED <<meant, change>>]_<<vars, meant, change>>

-----------------------------------------------------------------------------
(***************************************************************************)
(* A program reads back as the tree it was written from, without an error, *)
(* whatever comments and line breaks stand between its tokens: precedence  *)
(* and associativity, braces that are a block or a lambda, `<` that is a   *)
(* comparison or opens type arguments, the closing `>>` of two lists.      *)
(***************************************************************************)
ReadsBack ==
    phase = "done" /\ change.kind # "lost" /\ (change.kind = "extra" => change.token \in Trivia)
        => file = meant /\ p.errors = << >>

(***************************************************************************)
(* A bracket lost or one too many is reported, whichever construct it is   *)
(* in (the arguments of an annotation are not read: `@A[` may take the     *)
(* rest of the file), and whatever the text, the tree that is read is well *)
(* formed: a construct broken in the middle leaves no node with a part     *)
(* missing, which the passes over the tree would take for granted.         *)
(***************************************************************************)
TreeOK == \A i \in DOMAIN file.decls : Tree!IsDecl(file.decls[i])
UnbalancedIsReported ==
    /\ TreeOK
    /\ phase = "done" /\ change.kind \in {"lost", "extra"} /\ (change.kind = "extra" => change.token \in Closers)
          => p.errors # << >> \/ \E i \in DOMAIN source : source[i] = "@"

(***************************************************************************)
(* Whatever the tokens are, the parser gets on: each declaration, each     *)
(* recovery reads at least one, so that no text keeps it for ever.         *)
(***************************************************************************)
EveryStepReads == [][phase = "decls" /\ phase' = "decls" => p'.at > p.at]_vars

(***************************************************************************)
(* The fix of an unused declaration or parameter deletes it, with its      *)
(* modifiers and body, and nothing else; of a parameter with a comma, but  *)
(* the comma before one with a default stays.  Left out are what the       *)
(* ranges are known not to fit: functions without a body, for which the    *)
(* next one's is taken, and parameters in whose type two lists close with  *)
(* `>>`, which take what follows with them.                                *)
(***************************************************************************)
FixKind(d) ==
    CASE d[1] = "func" /\ d[3] \notin {"C", "~init", "+"} /\ d[7] # << >> -> "func"
      [] d[1] \in {"class", "interface", "struct", "enum", "var"} -> d[1]
      [] OTHER -> "none"
FixKeywords == {"func", "let", "var", "class", "interface", "struct", "enum"}
Without(s, i) == SubSeq(s, 1, i - 1) \o SubSeq(s, i + 1, Len(s))
DeclAt(i) == Len(PFile([meant EXCEPT !.decls = SubSeq(@, 1, i - 1)])) - 1 + IF i = 1 THEN 0 ELSE 1
Anchor(i) == CHOOSE k \in (DeclAt(i) + 1) .. Len(source) :
                source[k] \in FixKeywords /\ \A j \in (DeclAt(i) + 1) .. (k - 1) : source[j] \notin FixKeywords
Kept(text) == SelectSeq(text, LAMBDA t : t \notin {"NL", "END"})

DeclFixed(i) ==
    LET range == Fix!ComputeRemoveRange(source, FixKind(meant.decls[i]), Anchor(i))
    IN Kept(Fix!Removed(source, range)) = Kept(PFile([meant EXCEPT !.decls = Without(@, i)]))

ParamFixed(i, j) ==
    LET params == meant.decls[i][5]
        before == Len(Angles(PParams(SubSeq(params, 1, j - 1)))) + IF j = 1 THEN 0 ELSE 1
        open == CHOOSE k \in (DeclAt(i) + 1) .. Len(source) :
                    source[k] = "(" /\ \A l \in (DeclAt(i) + 1) .. (k - 1) : source[l] # "("
        at == open + before + 1
        range == Fix!ComputeRemoveRange(source, "param", at)
        comma == IF j > 1 /\ params[j][5] # << >> THEN <<",">> ELSE << >>
    IN Fix!Removed(source, range) =
          SubSeq(source, 1, open) \o Angles(PParams(SubSeq(params, 1, j - 1))) \o comma
            \o Angles(PParams(SubSeq(params, j + 1, Len(params))))
            \o SubSeq(source, open + Len(Angles(PParams(params))) + 1, Len(source))

FixRemovesWhatItNames ==
    phase = "done" /\ change.kind = "none" =>
        \A i \in DOMAIN meant.decls :
            /\ FixKind(meant.decls[i]) # "none" => DeclFixed(i)
            /\ meant.decls[i][1] = "func" =>
                  \A j \in DOMAIN meant.decls[i][5] :
                     ">>" \notin Tree!Range_(Angles(PParam(meant.decls[i][5][j]))) => ParamFixed(i, j)

(***************************************************************************)
(* Where each declaration of the tree is in the text, and the outline of   *)
(* the file: a symbol's selection lies in its range, what is declared in a *)
(* type lies in the type's range, symbols side by side do not overlap (an  *)
(* editor folds and navigates by this), and the symbols of the workspace   *)
(* are at the outline's selections, but for those only one of them has.    *)
(* Out of the text of a whole, unchanged program: a comment or line break  *)
(* after `prop`, `type` or `func` is taken for the name.                   *)
(***************************************************************************)
Size(text) == Len(Angles(text))
RECURSIVE Places(_, _, _)
Place(d, start) ==
    LET key == start + IF d[1] \in {"extend", "alias", "varpattern", "main", "expand", "case"} THEN 0
                       ELSE Len(PFlags(d[2])) + IF d[1] = "func" /\ d[3] = "+" THEN 1 ELSE 0
        name == IF d[1] \in {"init", "varpattern", "main", "expand", "case"} \/ (d[1] = "func" /\ d[3] \in {"~init", "C"})
                THEN key ELSE key + 1
    IN CASE d[1] \in View!TypeDecls \cup {"enum"} ->
              View!Placed(d, key, <<name, name>>,
                          Places(IF d[1] = "enum" THEN [i \in DOMAIN d[6] |-> <<"case", d[6][i][1], d[6][i][2]>>] ELSE d[6],
                                 name + Size(PTypeParams(d[4]) \o PParents(d[5])) + 2, << >>))
         [] d[1] = "extend" ->
              LET own == SelectSeq(d[4], LAMBDA m : m[1] # "generic")
                  generic == SelectSeq(d[4], LAMBDA m : m[1] = "generic")
                  target == key + 1 + Size(PTypeParams([i \in DOMAIN generic |-> generic[i][2]]))
                  after == target + Size(PType(d[3]))
              IN View!Placed(d, key, <<target, after - 1>>, Places(own, after + 1, << >>))
         [] OTHER -> View!Placed(d, key, <<name, name>>, << >>)
Places(decls, start, placed) ==
    IF decls = << >> THEN placed
    ELSE LET d == Head(decls)
             text == IF d[1] = "case" THEN PEnumCase(Tail(d)) ELSE PDecl(d)
         IN Places(Tail(decls), start + Size(text) + 1, Append(placed, Place(d, start)))

Within(x, y) == y[1] <= x[1] /\ x[2] <= y[2]
RECURSIVE Nested(_), Selections(_)
Nested(symbols) ==
    \A i \in DOMAIN symbols :
        /\ Within(symbols[i].selection, symbols[i].range)
        /\ i > 1 => symbols[i - 1].range[2] < symbols[i].range[1]
        /\ \A j \in DOMAIN symbols[i].children : Within(symbols[i].children[j].range, symbols[i].range)
        /\ Nested(symbols[i].children)
Selections(symbols) ==
    UNION {{symbols[i].selection[1]} \cup Selections(symbols[i].children) : i \in DOMAIN symbols}
OnlyInOutline(x) == x.decl[1] \in {"extend", "varpattern", "init"}
RECURSIVE Starts(_)
Starts(placed) ==
    UNION {(IF OnlyInOutline(placed[i]) THEN {placed[i].name[1]} ELSE {}) \cup Starts(placed[i].inner) : i \in DOMAIN placed}

OutlineNests ==
    phase = "done" /\ change.kind = "none" =>
        LET placed == Places(meant.decls, DeclAt(1) + 1, << >>)
            symbols == View!DocumentSymbols(source, placed)
            found == Tree!Range_(View!CollectDecls(source, placed))
            macros == {placed[i].pos + 1 : i \in {k \in DOMAIN placed : placed[k].decl[1] = "macro"}}
        IN Nested(symbols) /\ found \ macros = Selections(symbols) \ Starts(placed)
=============================================================================
