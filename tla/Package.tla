------------------------------ MODULE Package -------------------------------
(***************************************************************************)
(* A file's package clause and imports (crates/cj-sema/src/package.rs).    *)
(* Names of packages are sequences of names; a file without a package      *)
(* clause has the empty one.                                               *)
(***************************************************************************)
EXTENDS Checks

NoPackage == << >>
Std == "std"

\* A file in the root package may leave its clause out.
NameMismatch(file, expected) ==
    IF file.package = NoPackage THEN Len(expected) > 1
    ELSE expected # NoPackage /\ file.package # expected

IsKnownPackage(package, own) == package = own \/ package[1] = Std

\* A glob is used when a name is one of its path's, another import when one is
\* the member's.
ImportIsUsed(import, names) ==
    \/ import.path = << >>
    \/ IF import.glob THEN names \cap Range_(import.path) # {} ELSE Last(import.path) \in names

\* References in the bodies of main are not counted, nor those in types.
ImportReports(import, own, names) ==
    LET from == ImportedPackage(import)
        self == own # NoPackage /\ from = own
    IN (IF ~self /\ ~ImportIsUsed(import, names) THEN << <<"unused import", import>> >> ELSE << >>)
         \o (IF from # << >> /\ ~IsKnownPackage(from, own) THEN << <<"no package", from>> >> ELSE << >>)

\* A name imported before: by another import, or by the same one.
ImportConflicts(file) ==
    LET members == FlatMap(ImportedMembers, file.imports)
        again == SelectSeq([i \in DOMAIN members |-> i], LAMBDA i : \E j \in 1 .. (i - 1) : members[j] = members[i])
    IN MapSeq(LAMBDA i : <<"import conflict", members[i]>>, again)

\* A way from one package over the imports back to it. A node is left out only
\* while the search is below it.
RECURSIVE CycleFrom(_, _, _, _)
CycleFrom(edges, start, node, path) ==
    LET next == {e[2] : e \in {x \in edges : x[1] = node}}
    IN IF node = start /\ path # << >> THEN TRUE
       ELSE node \notin Range_(path) /\ \E n \in next : CycleFrom(edges, start, n, Append(path, node))

Edges(file) ==
    {<<file.package, ImportedPackage(i)>> : i \in {x \in Range_(file.imports) : x.path # << >>}}

Circular(file) ==
    IF file.package # NoPackage /\ CycleFrom(Edges(file), file.package, file.package, << >>)
    THEN << <<"circular", file.package>> >> ELSE << >>

CheckPackage(file, expected) ==
    LET names == JoinAll(MapSeq(CollectDeclRefs, file.decls)).names
    IN (IF NameMismatch(file, expected) THEN << <<"package name", expected>> >> ELSE << >>)
         \o FlatMap(LAMBDA i : ImportReports(i, file.package, names), file.imports)
         \o ImportConflicts(file)
         \o Circular(file)
=============================================================================
