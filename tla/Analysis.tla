------------------------------ MODULE Analysis ------------------------------
(***************************************************************************)
(* From syntax trees to diagnostics: analyze_files collects the files of a *)
(* package in parallel (crates/cj-sema/src/parallel.rs); analyze_source    *)
(* takes one document through all passes (crates/cj-lsp/src/server.rs; the *)
(* command line's pipeline in crates/cj-frontend/src/lib.rs is the same    *)
(* without a project).  Workers finish in any order; the search for cycles *)
(* of initializers depends on the order of a hash map, and is taken here   *)
(* by what DepGraph promises of it.                                        *)
(***************************************************************************)
EXTENDS Expander, FiniteSets

VARIABLES
    files,     \* the document first, then the files of its project on disk
    entry,     \* "package": analyze_files; "document": analyze_source
    project,   \* what the macro library does, the name the package should have
    finished,  \* the files collected, in the order the workers finished
    results,   \* file -> what was collected from it
    table,     \* the package table
    resolved,  \* declaration of the document -> diagnostics of its names
    reports,   \* pass -> its diagnostics
    phase      \* "collect", "resolve", "check", "done"

vars == <<files, entry, project, finished, results, table, resolved, reports, phase>>

Passes == {"collect", "resolve", "dep", "unused", "calls", "lit", "package", "overload", "checks", "macro"}

Document == files[1]
Workers == IF entry = "package" THEN DOMAIN files ELSE {1}

NoTable == EmptyTable
Nothing == << >>
InitWith(givenFiles, givenEntry, givenProject) ==
    /\ files = givenFiles
    /\ entry = givenEntry
    /\ project = givenProject
    /\ finished = << >>
    /\ results = Nothing
    /\ table = NoTable
    /\ resolved = Nothing
    /\ reports = [pass \in Passes |-> << >>]
    /\ phase = "collect"

With(function, x, value) == [y \in DOMAIN function \cup {x} |-> IF y = x THEN value ELSE function[y]]

-----------------------------------------------------------------------------
\* Collection: each worker has a file to itself.
Collect(i) ==
    /\ phase = "collect"
    /\ i \in Workers \ DOMAIN results
    /\ results' = With(results, i, CollectFile(files[i]))
    /\ finished' = Append(finished, i)
    /\ UNCHANGED <<files, entry, project, table, resolved, reports, phase>>

\* Mutant: results are taken as they come.
InOrderOfArrival == MapSeq(LAMBDA i : results[i], finished)
InOrder == [i \in 1 .. Len(finished) |-> results[i]]

MergeResults ==
    /\ phase = "collect"
    /\ DOMAIN results = Workers
    /\ table' = MergeAll(InOrder)
    /\ reports' = [reports EXCEPT !["collect"] = FlatMap(LAMBDA r : r.diags, InOrder)]
    /\ phase' = IF entry = "package" THEN "done" ELSE "resolve"
    /\ UNCHANGED <<files, entry, project, finished, results, resolved>>

-----------------------------------------------------------------------------
\* Declarations are resolved in parallel too; their diagnostics are put
\* together in the order of the declarations.
Resolve(i) ==
    /\ phase = "resolve"
    /\ i \in DOMAIN Document.decls \ DOMAIN resolved
    /\ resolved' = With(resolved, i, ResolveDecl(table, Document.decls[i]))
    /\ UNCHANGED <<files, entry, project, finished, results, table, reports, phase>>

Resolved ==
    /\ phase = "resolve"
    /\ DOMAIN resolved = DOMAIN Document.decls
    /\ reports' = [reports EXCEPT !["resolve"] = FlatMap(LAMBDA i : resolved[i], [i \in DOMAIN resolved |-> i])]
    /\ phase' = "check"
    /\ UNCHANGED <<files, entry, project, finished, results, table, resolved>>

-----------------------------------------------------------------------------
\* The graph of initializers: names of top-level variables, of several the last.
DepKinds == ResolvedKinds
VarDeps(file) ==
    LET vars_ == OfKind(file.decls, "var")
        LastOf(n) == vars_[Max({i \in DOMAIN vars_ : vars_[i][3] = n})]
        Names(d) == Range_(NamesIn(ReachedIn(DepKinds, Initial(d))))
    IN [n \in {vars_[i][3] : i \in DOMAIN vars_} |-> Names(LastOf(n))]

\* Cycles without a repeated name, each as often as it has names to start from.
Cycles(deps) ==
    LET names == DOMAIN deps
        Closed(c) == \A i \in DOMAIN c : c[(i % Len(c)) + 1] \in deps[c[i]]
        Distinct(c) == \A i, j \in DOMAIN c : c[i] = c[j] => i = j
    IN {c \in UNION {[1 .. k -> names] : k \in 1 .. Cardinality(names)} : Distinct(c) /\ Closed(c)}

\* DepGraph: what is reported are cycles, and each cycle has an edge that
\* closes a reported one.
DetectCycles(deps, reported) ==
    LET Closes(c, i) == \E r \in reported : r[Len(r)] = c[i] /\ r[1] = c[(i % Len(c)) + 1]
    IN reported \subseteq Cycles(deps) /\ \A c \in Cycles(deps) : \E i \in DOMAIN c : Closes(c, i)

-----------------------------------------------------------------------------
\* Signatures of the files on disk that are in the document's package: of
\* several of one name that of any file, as the cache's order has it.
Siblings == {i \in 2 .. Len(files) : files[i].package = Document.package}
DiskSigs(i) == FuncSigs(files[i].decls)
DiskNames == UNION {DOMAIN DiskSigs(i) : i \in Siblings}
IsSiblingSigs(sigs) ==
    /\ DOMAIN sigs = DiskNames
    /\ \A n \in DiskNames : \E i \in Siblings : n \in DOMAIN DiskSigs(i) /\ sigs[n] = DiskSigs(i)[n]
SiblingSigs == {sigs \in [DiskNames -> UNION {Range_(DiskSigs(i)) : i \in Siblings}] : IsSiblingSigs(sigs)}

\* Mutant of CallSigs: what is on disk goes first.
CallSigsFromDisk(own, siblings) == Under(siblings, own)
\* The document's own signatures go first.
CallSigs(own, siblings) == Under(own, siblings)

\* The rest of analyze_source, which nothing interrupts.
Check ==
    /\ phase = "check"
    /\ \E reported \in SUBSET Cycles(VarDeps(Document)), siblings \in SiblingSigs :
          /\ DetectCycles(VarDeps(Document), reported)
          /\ reports' =
                [reports EXCEPT
                    !["dep"] = MapSeq(LAMBDA c : <<"circular reference", c>>, SetToSeq(reported)),
                    !["unused"] = DetectUnused(Document),
                    !["lit"] = CheckDecls(Document),
                    !["macro"] = ExpandFile(Document, project.library).diags,
                    !["calls"] = CheckCalls(Document, CallSigs(results[1].sigs, siblings)),
                    !["package"] = CheckPackage(Document, project.expected),
                    !["overload"] = OverloadConflicts(Document),
                    !["checks"] = CheckSemantics(Document, table)]
    /\ phase' = "done"
    /\ UNCHANGED <<files, entry, project, finished, results, table, resolved>>

Finished == phase = "done" /\ UNCHANGED vars

Next ==
    \/ \E i \in DOMAIN files : Collect(i)
    \/ MergeResults
    \/ \E i \in DOMAIN Document.decls : Resolve(i)
    \/ Resolved
    \/ Check
    \/ Finished
=============================================================================
