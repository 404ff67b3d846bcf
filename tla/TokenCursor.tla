---------------------------- MODULE TokenCursor -----------------------------
(***************************************************************************)
(* The parser's cursor over the tokens of a file                           *)
(* (crates/cj-parser/src/parser.rs) and the classes of tokens it asks for  *)
(* (crates/cj-lexer/src/token.rs).                                         *)
(*                                                                         *)
(* A token is its text: an identifier is a member of Names, a literal is   *)
(* the name of its kind ("INTEGER", "STRING", ...), and so are line        *)
(* breaks, comments and the end of the file.  A parser is a record of the  *)
(* tokens, the index of the next one, the errors reported so far and the   *)
(* node parsed last; a parse function maps a parser to the parser it       *)
(* leaves.  Positions of nodes are left out; an error keeps the index of   *)
(* the token it is reported at.                                            *)
(***************************************************************************)
EXTENDS Naturals, Sequences

CONSTANT Names \* the identifiers of a file

Trivia == {"NL", "COMMENT"}

Primitives == {"Int8", "Int16", "Int32", "Int64", "IntNative", "UInt8", "UInt16", "UInt32",
               "UInt64", "UIntNative", "Float16", "Float32", "Float64", "Rune", "Bool",
               "Nothing", "Unit", "VArray"}
Strings == {"STRING", "MULTILINE_STRING", "MULTILINE_RAW_STRING"}
Runes == {"RUNE", "RUNE_BYTE"}
Literals == {"INTEGER", "FLOAT", "BOOL"} \cup Strings \cup Runes

Access == {"public", "private", "protected", "internal"}

\* Keywords that can be a name.
NameKeywords == Access \cup
    {"main", "is", "as", "in", "!in", "match", "where", "extend", "with", "prop", "static",
     "override", "redef", "abstract", "sealed", "open", "foreign", "inout", "mut", "unsafe",
     "operator", "spawn", "synchronized", "<:", "common", "specific", "features"}
NameLike(t) == t \in Names \cup NameKeywords

DeclStart == {"struct", "enum", "class", "interface", "func", "macro", "let", "var", "type",
              "init", "extend", "prop", "main"}

ArithmeticOps == {"+", "-", "*", "/", "%", "**"}
AssignOps == {"=", "+=", "-=", "*=", "/=", "%=", "**=", "&&=", "||=", "&=", "|=", "^=", "<<=", ">>="}
OperatorLike == ArithmeticOps \cup
    {"==", "!=", "<", ">", "<=", ">=", "&&", "||", "&", "|", "^", "<<", ">>", "[", "]", "(", ")",
     "++", "--"} \cup (AssignOps \ {"&&=", "||="})

Precedence(t) ==
    CASE t = "**" -> 16
      [] t \in {"*", "/", "%"} -> 15
      [] t \in {"+", "-"} -> 14
      [] t \in {"<<", ">>"} -> 13
      [] t \in {"..", "..="} -> 11
      [] t \in {"<", ">", "<=", ">=", "is", "as"} -> 10
      [] t \in {"==", "!="} -> 9
      [] t = "&" -> 8
      [] t = "^" -> 7
      [] t = "|" -> 6
      [] t = "&&" -> 5
      [] t = "||" -> 3
      [] t = "??" -> 2
      [] t \in {"|>", "~>", "?"} -> 1
      [] OTHER -> 0

-----------------------------------------------------------------------------

Parser(tokens) == [tokens |-> tokens, at |-> 1, errors |-> << >>, node |-> << >>]

\* The first token from i on that is not trivia: END when there is none.
RECURSIVE Significant(_, _)
Significant(tokens, i) ==
    IF i >= Len(tokens) THEN Len(tokens)
    ELSE IF tokens[i] \in Trivia THEN Significant(tokens, i + 1)
    ELSE i

Here(p) == Significant(p.tokens, p.at)
Peek(p) == p.tokens[Here(p)]

RECURSIVE IndexAhead(_, _)
IndexAhead(p, k) == IF k = 0 THEN Here(p) ELSE Significant(p.tokens, IndexAhead(p, k - 1) + 1)
PeekAhead(p, k) == p.tokens[IndexAhead(p, k)]

At(p, t) == Peek(p) = t
AtAny(p, S) == Peek(p) \in S
Closed(p, close) == Peek(p) \in {close, "END"}

Advance(p) == [p EXCEPT !.at = Here(p) + 1]
Skip(p, t) == IF At(p, t) THEN Advance(p) ELSE p

Got(p, node) == [p EXCEPT !.node = node]
\* What was parsed last completes a node.
Into(node, p) == Got(p, Append(node, p.node))

ErrorAt(p, i, id) == [p EXCEPT !.errors = Append(@, [id |-> id, at |-> i])]
Error(p, id) == ErrorAt(p, Here(p), id)
ErrorIf(p, cond, id) == IF cond THEN Error(p, id) ELSE p

Expect(p, t) == IF At(p, t) THEN Advance(p) ELSE Error(p, "EXPECTED")
CloseQuietly(p, t, open) == Skip(p, t) \* mutant
ExpectClose(p, t, open) ==
    IF At(p, t) THEN Advance(p) ELSE ErrorAt(p, open, "EXPECTED_RIGHT_DELIMITER")
ExpectName(p) == IF NameLike(Peek(p)) THEN Advance(p) ELSE Error(p, "EXPECTED_NAME")

\* The end of a list of type arguments: one `>`, or the first half of a `>>`.
EatGtClose(p) ==
    CASE At(p, ">") -> Advance(p)
      [] At(p, ">>") ->
            LET i == Here(p)
                split == SubSeq(p.tokens, 1, i - 1) \o <<">", ">">>
                             \o SubSeq(p.tokens, i + 1, Len(p.tokens))
            IN Advance([p EXCEPT !.tokens = split])
      [] OTHER -> p

\* The rest of the line, up to and with its line break.
RECURSIVE ConsumeUntilNl(_)
ConsumeUntilNl(p) ==
    IF p.at > Len(p.tokens) THEN p
    ELSE LET q == [p EXCEPT !.at = @ + 1]
         IN IF p.tokens[p.at] \in {"NL", "END"} THEN q ELSE ConsumeUntilNl(q)

\* A line break before the next token.
LineBreakBefore(p) == \E i \in p.at .. Here(p) - 1 : p.tokens[i] = "NL"

\* Error recovery between declarations.  A line break is trivia to Peek and
\* ends nothing.
RECURSIVE SyncToDeclBoundary(_)
SyncBeforeBrace(p) == \* mutant
    IF AtAny(p, DeclStart \cup {"END", "}"}) THEN p ELSE SyncToDeclBoundary(Advance(p))
SyncToDeclBoundary(p) ==
    CASE At(p, "END") \/ AtAny(p, DeclStart) -> p
      [] AtAny(p, {";", "}"}) -> Advance(p)
      [] OTHER -> SyncToDeclBoundary(Advance(p))
=============================================================================
