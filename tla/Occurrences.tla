----------------------------- MODULE Occurrences -----------------------------
(***************************************************************************)
(* Where a name occurs in a document: references, code lenses, highlights  *)
(* and renaming (references.rs, code_lens.rs, document_highlight.rs and    *)
(* rename.rs of crates/cj-lsp).  Each walks the tree in its own way and    *)
(* knows names by their text.  A position is the way to it from the root;  *)
(* a cursor is the position it is at.  A site is a position and its name.  *)
(***************************************************************************)
EXTENDS Syntax

TypePart == 20   \* where the parts of a node begin that are not its first
PatternPart == 40
CodePart == 60
KeywordPart == 80

Site(at, n) == [at |-> at, name |-> n]
SitesOf(sites, n) == {s.at : s \in {x \in Range_(sites) : x.name = n}}
Sub(F(_, _), nodes, at, base) == FlattenSeq([i \in DOMAIN nodes |-> F(nodes[i], Append(at, base + i))])
InFile(F(_, _), file) == Sub(F, file.decls, << >>, 0)

NamedKinds == TypeKinds \cup {"func", "enum", "var", "macro", "prop", "alias"}
ContainerKinds == TypeKinds \cup {"extend"}

\* Macros and properties are found at their keyword.
DeclSites(d, at) ==
    IF d[1] \notin NamedKinds THEN << >>
    ELSE <<Site(IF d[1] \in {"macro", "prop"} THEN Append(at, KeywordPart) ELSE at, d[3])>>

BodyOf(d) == CASE d[1] \in {"func", "macro", "main"} -> Statements(d) [] d[1] = "var" -> Initial(d) [] OTHER -> << >>
Bindings(e, at) ==
    IF e[1] # "let" THEN << >>
    ELSE Sub(LAMBDA x, there : IF x[1] = "bind" /\ Len(x[2]) = 1 THEN <<Site(there, x[2][1])>> ELSE << >>, e[2], at, PatternPart)

-----------------------------------------------------------------------------
\* References: names in the file's functions and variables, not in members.
CursorKinds == {"call", "binary", "unary", "paren", "subscript", "member", "block", "if", "let", "return", "assign", "as", "is"}
LensKindsBut == CursorKinds \ {"as", "is", "return"} \* mutant
LensKinds == CursorKinds \ {"as", "is"}
RefKindsFlat == CursorKinds \ {"subscript"} \* mutant
RefKinds == CursorKinds

RECURSIVE NameSites(_, _, _)
NameSites(kinds, e, at) ==
    IF e[1] = "name" THEN <<Site(at, e[2])>>
    ELSE IF e[1] \notin kinds THEN << >>
    ELSE Sub(LAMBDA c, there : NameSites(kinds, c, there), Children(e), at, 0)
NameRefs(kinds, d, at) == Sub(LAMBDA e, there : NameSites(kinds, e, there), BodyOf(d), at, CodePart)

RECURSIVE BoundSites(_, _)
BoundSites(e, at) ==
    IF e[1] \notin CursorKinds THEN << >> ELSE Bindings(e, at) \o Sub(BoundSites, Children(e), at, 0)
CursorSites(d, at) ==
    Sub(LAMBDA e, there : NameSites(CursorKinds, e, there) \o BoundSites(e, there),
        IF d[1] = "varpattern" THEN Initial(d) ELSE BodyOf(d), at, CodePart)

At(sites, cursor) == SelectSeq(sites, LAMBDA s : s.at = cursor)
NameAt(file, cursor) == At(InFile(DeclSites, file) \o InFile(CursorSites, file), cursor)

RefsIn(file) == InFile(LAMBDA d, at : NameRefs(RefKinds, d, at), file)
ReferencesAt(file, cursor, withDecl) ==
    LET hit == NameAt(file, cursor)
    IN IF hit = << >> THEN {}
       ELSE SitesOf(RefsIn(file), hit[1].name) \cup IF withDecl THEN SitesOf(InFile(DeclSites, file), hit[1].name) ELSE {}

\* Above each declaration of the file: how often its name occurs, and where.
Lenses(file) ==
    LET decls == InFile(DeclSites, file)
        uses == InFile(LAMBDA d, at : NameRefs(LensKinds, d, at), file)
        Of(n) == SelectSeq(decls \o uses, LAMBDA s : s.name = n)
    IN MapSeq(LAMBDA s : [at |-> s.at, count |-> Len(Of(s.name)), shown |-> {x.at : x \in Range_(Of(s.name))}], decls)

-----------------------------------------------------------------------------
\* Types. A binding counts as one, wherever types are looked for.
RECURSIVE TypeSites(_, _)
TypeSites(t, at) ==
    (IF t[1] \in {"ref", "qualified"} THEN <<Site(at, Last(t[2]))>> ELSE << >>)
      \o Sub(TypeSites, TypeParts(t), at, 0)

SignatureTypes(d) ==
    CASE d[1] \in TypeKinds -> d[5]
      [] d[1] = "enum" -> d[5] \o FlatMap(LAMBDA c : c[2], d[6])
      [] d[1] \in {"func", "macro", "init"} -> ParamTypes(Params(d)) \o IF d[1] = "func" THEN d[6] ELSE << >>
      [] d[1] = "extend" -> <<d[3]>>
      [] d[1] \in {"alias", "prop"} -> <<Last(d)>>
      [] d[1] = "var" -> d[5]
      [] d[1] = "varpattern" -> d[3]
      [] OTHER -> << >>

TypeAtKinds == {"block", "call", "let", "paren", "unary", "binary"}
TypeRefKinds == TypeAtKinds \cup {"is", "as", "if", "return", "assign"}

RECURSIVE CodeTypes(_, _, _)
CodeTypes(kinds, e, at) ==
    LET types == IF e[1] \in {"is", "as"} THEN <<e[3]>>
                 ELSE IF e[1] = "let" THEN FlatMap(LAMBDA x : IF x[1] = "bind" THEN x[4] ELSE << >>, e[2]) ELSE << >>
    IN Bindings(e, at) \o Sub(TypeSites, types, at, TypePart)
         \o IF e[1] \in kinds THEN Sub(LAMBDA c, there : CodeTypes(kinds, c, there), Children(e), at, 0) ELSE << >>

\* A pattern's types are among the references, but not found at the cursor.
RECURSIVE DeclTypeSites(_, _, _)
DeclTypeSites(kinds, d, at) ==
    IF d[1] = "varpattern" /\ kinds = TypeAtKinds THEN << >>
    ELSE LET code == IF d[1] = "varpattern" THEN Initial(d) ELSE BodyOf(d)
         IN Sub(TypeSites, SignatureTypes(d), at, TypePart)
              \o Sub(LAMBDA e, there : CodeTypes(kinds, e, there), code, at, CodePart)
              \o Sub(LAMBDA m, there : DeclTypeSites(kinds, m, there), Members(d), at, 0)
TypesAt(file) == InFile(LAMBDA d, at : DeclTypeSites(TypeAtKinds, d, at), file)
TypeRefsIn(file) == InFile(LAMBDA d, at : DeclTypeSites(TypeRefKinds, d, at), file)

OccurrencesOf(file, n) == SitesOf(InFile(DeclSites, file) \o RefsIn(file) \o TypeRefsIn(file), n)

-----------------------------------------------------------------------------
\* Members: a site has the container the cursor finds it in, and those whose
\* member it may be a use of.
NoContainer == << >>
ScopedSite(s, container, owners) == [at |-> s.at, name |-> s.name, container |-> container, owners |-> owners]

TypeIndex(file) ==
    SelectSeq([i \in DOMAIN file.decls |-> <<file.decls[i], <<i>>>>], LAMBDA t : t[1][1] \in TypeKinds \cup {"enum"})
Typed(file, n) == MapSeq(LAMBDA t : t[2], SelectSeq(TypeIndex(file), LAMBDA t : t[1][3] = n))

OwnersUnguarded(file, object, enclosing) == IF object[1] = "name" THEN Range_(Typed(file, object[2])) \cup {enclosing} ELSE {} \* mutant
Owners(file, object, enclosing) ==
    IF object[1] # "name" THEN {}
    ELSE Range_(Typed(file, object[2])) \cup IF object[2] \in {"this", "self"} THEN {enclosing} ELSE {}

ReceiverContainer(file, object, enclosing) ==
    LET types == IF object[1] = "name" THEN Typed(file, object[2]) ELSE << >>
    IN IF types # << >> THEN types[1] ELSE enclosing

\* The name of a member access is found apart from the receiver's.
RECURSIVE UsageSites(_, _, _, _)
UsageSites(file, e, at, enclosing) ==
    LET Here(s) == ScopedSite(s, enclosing, {enclosing})
    IN CASE e[1] = "name" -> <<Here(Site(at, e[2]))>>
         [] e[1] \in CursorKinds ->
              (IF e[1] = "member"
               THEN <<ScopedSite(Site(at, e[3]), ReceiverContainer(file, e[2], enclosing), Owners(file, e[2], enclosing))>>
               ELSE MapSeq(Here, Bindings(e, at)))
                \o Sub(LAMBDA c, there : UsageSites(file, c, there, enclosing), Children(e), at, 0)
         [] OTHER -> << >>

Inside(d, at, enclosing) == IF d[1] \in ContainerKinds THEN at ELSE enclosing

RECURSIVE DeclUsages(_, _, _, _)
DeclUsages(file, d, at, enclosing) ==
    Sub(LAMBDA e, there : UsageSites(file, e, there, enclosing),
        IF d[1] = "varpattern" THEN Initial(d) ELSE BodyOf(d), at, CodePart)
      \o Sub(LAMBDA m, there : DeclUsages(file, m, there, Inside(d, at, enclosing)), Members(d), at, 0)
Usages(file) == InFile(LAMBDA d, at : DeclUsages(file, d, at, NoContainer), file)

RECURSIVE MemberDecls(_, _, _)
MemberDecls(d, at, parent) ==
    MapSeq(LAMBDA s : ScopedSite(s, parent, {parent}), DeclSites(d, at))
      \o Sub(LAMBDA m, there : MemberDecls(m, there, Inside(d, at, parent)), Members(d), at, 0)
Declared(file) == InFile(LAMBDA d, at : MemberDecls(d, at, NoContainer), file)

\* At the cursor: a type, then a declaration, then a use.
TargetAt(file, cursor) ==
    At(MapSeq(LAMBDA s : ScopedSite(s, NoContainer, {}), TypesAt(file)) \o Declared(file) \o Usages(file), cursor)

MemberOccurrences(file, n, container) ==
    SitesOf(SelectSeq(Declared(file) \o Usages(file), LAMBDA s : container \in s.owners), n)

\* Highlights stay with the container; a renaming is of the file's.
HighlightsAt(file, cursor) ==
    LET hit == TargetAt(file, cursor)
    IN IF hit = << >> THEN {}
       ELSE IF hit[1].container = NoContainer THEN OccurrencesOf(file, hit[1].name)
       ELSE MemberOccurrences(file, hit[1].name, hit[1].container)

RenameEdits(file, cursor, newName) ==
    LET hit == TargetAt(file, cursor)
    IN IF hit = << >> \/ newName = "" THEN {} ELSE OccurrencesOf(file, hit[1].name)
=============================================================================
