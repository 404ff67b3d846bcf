------------------------------- MODULE Outline -------------------------------
(***************************************************************************)
(* The symbols of a document and of the workspace (document_symbol.rs and  *)
(* workspace_symbol.rs of crates/cj-lsp).  Both walk the tree; the outline *)
(* finds where a declaration ends by scanning the tokens, and each finds   *)
(* the names the tree has no position for in its own way.  A declaration   *)
(* comes with the token of its keyword, the range of its name and what is   *)
(* declared in it; a range is a pair of tokens, as in QuickFix.  Names,    *)
(* details and the query a workspace symbol must match are left out.       *)
(***************************************************************************)
EXTENDS QuickFix, SequencesExt

Placed(d, pos, name, inner) == [decl |-> d, pos |-> pos, name |-> name, inner |-> inner]
TypeDecls == {"class", "struct", "interface"}

Modifiers == {"static", "public", "private", "internal", "protected", "override", "redef", "abstract", "sealed",
              "open", "mut", "common", "specific", "features"}
RECURSIVE DeclStart(_, _)
DeclStart(toks, pos) == IF pos > 1 /\ toks[pos - 1] \in Modifiers THEN DeclStart(toks, pos - 1) ELSE pos

\* Without a body or an end: the keyword's own place.
BracedRange(toks, pos) ==
    LET close == BracedEnd(toks, pos) IN <<DeclStart(toks, pos), IF close <= Len(toks) THEN close ELSE pos>>
SignatureRange(toks, pos) ==
    LET last == VarEnd(toks, pos + 1, 0, 0) IN <<DeclStart(toks, pos), IF last = 0 THEN pos ELSE last>>

\* Mutant of FuncRange: every function is taken to have a body.
BracedFuncRange(toks, pos, body) == BracedRange(toks, pos)

FuncRange(toks, pos, body) == IF body = << >> THEN SignatureRange(toks, pos) ELSE BracedRange(toks, pos)

RECURSIVE ParenEnd(_, _, _)
ParenEnd(toks, i, depth) ==
    IF i > Len(toks) \/ (i <= Len(toks) /\ toks[i] = ")" /\ depth = 1) THEN i
    ELSE ParenEnd(toks, i + 1, CASE toks[i] = "(" -> depth + 1 [] toks[i] = ")" -> depth - 1 [] OTHER -> depth)

Symbol(range, selection, children) == [range |-> range, selection |-> selection, children |-> children]
Leaf(range, selection) == <<Symbol(range, selection, << >>)>>

EnumCaseSymbol(toks, name, payloads) ==
    LET close == ParenEnd(toks, name[1] + 1, 0)
    IN Leaf(IF payloads = << >> \/ close > Len(toks) THEN name ELSE <<name[1], close>>, name)

RECURSIVE DeclToSymbol(_, _)
DeclToSymbol(toks, x) ==
    LET d == x.decl
        name == x.name
        next == <<x.pos + 1, x.pos + 1>>
        keyword == <<x.pos, x.pos>>
    IN CASE d[1] \in TypeDecls \cup {"enum", "extend"} ->
              <<Symbol(BracedRange(toks, x.pos), name, FlattenSeq([i \in DOMAIN x.inner |-> DeclToSymbol(toks, x.inner[i])]))>>
         [] d[1] = "func" -> Leaf(FuncRange(toks, x.pos, d[7]), name)
         [] d[1] = "main" -> Leaf(FuncRange(toks, x.pos, d[2]), keyword)
         [] d[1] = "init" -> Leaf(BracedRange(toks, x.pos), keyword)
         [] d[1] = "prop" -> Leaf(BracedRange(toks, x.pos), next)
         [] d[1] = "alias" -> Leaf(next, next)
         [] d[1] = "var" -> Leaf(name, name)
         [] d[1] = "varpattern" -> Leaf(keyword, keyword)
         [] d[1] = "case" -> EnumCaseSymbol(toks, name, d[3])
         [] OTHER -> << >>

DocumentSymbols(toks, decls) == FlattenSeq([i \in DOMAIN decls |-> DeclToSymbol(toks, decls[i])])

-----------------------------------------------------------------------------
\* The text after the keyword and white space.
RECURSIVE AfterKeyword(_, _)
AfterKeyword(toks, pos) == IF toks[pos + 1] = "NL" THEN AfterKeyword(toks, pos + 1) ELSE pos + 1

\* Where each workspace symbol starts.
RECURSIVE CollectDecls(_, _)
CollectDecls(toks, decls) ==
    LET Of(x) ==
            CASE x.decl[1] \in TypeDecls \cup {"enum"} -> <<x.name[1]>> \o CollectDecls(toks, x.inner)
              [] x.decl[1] = "extend" -> CollectDecls(toks, x.inner)
              [] x.decl[1] \in {"func", "var", "case"} -> <<x.name[1]>>
              [] x.decl[1] = "main" -> <<x.pos>>
              [] x.decl[1] \in {"macro", "alias", "prop"} -> <<AfterKeyword(toks, x.pos)>>
              [] OTHER -> << >>
    IN FlattenSeq([i \in DOMAIN decls |-> Of(decls[i])])
=============================================================================
