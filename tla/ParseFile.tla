------------------------------ MODULE ParseFile ------------------------------
(***************************************************************************)
(* The parse of a file (crates/cj-parser/src/parser.rs, parse_file): a     *)
(* package header, imports, then declarations one at a time, with recovery *)
(* where none starts.  One step is one iteration of those loops.           *)
(***************************************************************************)
EXTENDS Parser

VARIABLES source,   \* the tokens of the file
          phase,    \* "package", "macro package", "imports", "decls" or "done"
          p,        \* the cursor
          file      \* the package, imports and declarations read so far
vars == <<source, phase, p, file>>

-----------------------------------------------------------------------------
\* Names between dots; a trailing dot is read.
RECURSIVE Path(_, _)
Path(q, path) ==
    IF Peek(q) \notin Names THEN Got(q, path)
    ELSE LET r == Advance(q)
             more == Append(path, Peek(q))
         IN IF At(r, ".") THEN Path(Advance(r), more) ELSE Got(r, more)

\* The header ends at a line break, a semicolon or the end of the file.
HeaderEnds(q) ==
    LET i == AfterComments(q.tokens, q.at)
    IN i > Len(q.tokens) \/ q.tokens[i] \in {"NL", ";", "END"}

PackageHeader(q) ==
    LET name == Path(Advance(q), << >>)
        broken == Got(ConsumeUntilNl(Error(name, "EXPECTED_NAME")), << >>)
    IN IF name.node = << >> THEN broken
       ELSE ErrorIf(name, ~HeaderEnds(name), "EXPECTED_CHARACTER")

\* `as alias`: read and dropped.
Alias(q) ==
    LET r == Advance(q)
    IN IF ~At(q, "as") THEN q ELSE IF NameLike(Peek(r)) THEN Advance(r) ELSE r

IsSelector(t) == NameLike(t) \/ t = "*"

RECURSIVE DottedSelector(_, _), CommaSelectors(_, _), ColonSelectors(_, _)
DottedSelector(q, names) ==
    LET r == Advance(q)
        more == Append(names, Peek(q))
    IN IF Closed(q, "}") THEN Got(q, names)
       ELSE IF ~IsSelector(Peek(q)) THEN Got(Error(q, "EXPECTED_NAME"), names)
       ELSE IF At(r, ".") THEN DottedSelector(Advance(r), more)
       ELSE Got(Alias(r), more)

CommaSelectors(q, names) ==
    LET r == Advance(q)
    IN IF ~At(q, ",") THEN Got(q, names)
       ELSE IF ~IsSelector(Peek(r)) THEN Got(Error(r, "EXPECTED_NAME"), names)
       ELSE CommaSelectors(Alias(Advance(r)), Append(names, Peek(r)))

ColonSelectors(q, names) ==
    LET r == Advance(q)
        more == Append(names, Peek(q))
    IN IF Peek(q) \notin Names THEN Got(q, names)
       ELSE IF At(r, ",") THEN ColonSelectors(Advance(r), more)
       ELSE Got(r, more)

Import(path, glob, selected) == [path |-> path, glob |-> glob, selected |-> selected]

\* `{a.b.C}` names one declaration of package a.b, `{X, Y}` two of the path.
BraceImport(q, path) ==
    LET first == DottedSelector(Advance(q), << >>)
        all == CommaSelectors(first, first.node)
        n == Len(all.node)
        import == IF At(first, ",") \/ n = 0 THEN Import(path, FALSE, all.node)
                  ELSE Import(path \o SubSeq(all.node, 1, n - 1), FALSE, <<all.node[n]>>)
    IN Got(Expect(all, "}"), import)

ParseImport(q) ==
    LET path == Path(Expect(q, "import"), << >>)
        selected == ColonSelectors(Advance(path), << >>)
    IN CASE At(path, "*") -> Got(Advance(path), Import(path.node, TRUE, << >>))
         [] At(path, "{") -> BraceImport(path, path.node)
         [] At(path, ":") -> Got(selected, Import(path.node, FALSE, selected.node))
         [] OTHER -> Got(Alias(path), Import(path.node, FALSE, << >>))

RECURSIVE PastAccess(_)
PastAccess(q) == IF AtAny(q, Access) THEN PastAccess(Advance(q)) ELSE q

-----------------------------------------------------------------------------
NoFile == [package |-> << >>, imports |-> << >>, decls |-> << >>]

\* The parse of a file whose tokens are given.
InitWith(tokens) ==
    /\ source = tokens
    /\ phase = "package"
    /\ p = Parser(tokens)
    /\ file = NoFile

Package ==
    LET q == PackageHeader(p)
    IN /\ phase = "package"
       /\ phase' = "macro package"
       /\ IF At(p, "package") THEN p' = q /\ file' = [file EXCEPT !.package = q.node]
          ELSE UNCHANGED <<p, file>>
       /\ UNCHANGED source

MacroPackage ==
    LET q == Path(Advance(Advance(p)), << >>)
    IN /\ phase = "macro package"
       /\ phase' = "imports"
       /\ IF At(p, "macro") /\ PeekAhead(p, 1) = "package"
          THEN /\ p' = q
               /\ file' = IF q.node = << >> THEN file ELSE [file EXCEPT !.package = q.node]
          ELSE UNCHANGED <<p, file>>
       /\ UNCHANGED source

\* Access words before `import` are read with it.
OneImport ==
    LET q == ParseImport(PastAccess(p))
    IN /\ phase = "imports"
       /\ At(PastAccess(p), "import")
       /\ p' = q
       /\ file' = [file EXCEPT !.imports = Append(@, q.node)]
       /\ UNCHANGED <<source, phase>>

ImportsEnd ==
    /\ phase = "imports"
    /\ ~At(PastAccess(p), "import")
    /\ phase' = "decls"
    /\ UNCHANGED <<source, p, file>>

Separator ==
    /\ phase = "decls"
    /\ At(p, ";")
    /\ p' = Advance(p)
    /\ UNCHANGED <<source, phase, file>>

Declaration(q) ==
    /\ q.node # << >>
    /\ p' = q
    /\ file' = [file EXCEPT !.decls = @ \o q.node]
    /\ UNCHANGED <<source, phase>>

\* No declaration starts here: an error, and on to where one may.
Recover(q) ==
    /\ q.node = << >>
    /\ p' = SyncToDeclBoundary(Error(q, "EXPECTED_DECL"))
    /\ UNCHANGED <<source, phase, file>>

DeclStep(q) == Declaration(q) \/ Recover(q)

OneDecl ==
    /\ phase = "decls"
    /\ ~AtAny(p, {";", "END"})
    /\ DeclStep(ParseDecl(p, FALSE))

End ==
    /\ phase = "decls"
    /\ At(p, "END")
    /\ phase' = "done"
    /\ UNCHANGED <<source, p, file>>

Next == Package \/ MacroPackage \/ OneImport \/ ImportsEnd \/ Separator \/ OneDecl \/ End
=============================================================================
