---------------------------- MODULE MCScanCache ----------------------------
(* Two files, two packages, and contents that differ in what matters. *)
EXTENDS ScanCache, TLC

CONSTANTS f1, f2, here, elsewhere, broken

MCPackageOf == (here :> "p") @@ (elsewhere :> "q") @@ (broken :> "p")
MCFuncsOf == (here :> {"g"}) @@ (elsewhere :> {"g"}) @@ (broken :> {})

\* The second path ends with the relative uri of the first (a.cj, data.cj).
MCEndings == (f1 :> {"root/a.cj", "a.cj"}) @@ (f2 :> {"a.cj"})

\* Diagnostics of a file of package p; completion in f1, named by its path or by
\* a part of it, with an import of q; a file without a package declaration.
MCRequests ==
    {[package |-> "p", imported |-> {}, self |-> NoFile],
     [package |-> "p", imported |-> {"q"}, self |-> "root/a.cj"],
     [package |-> "p", imported |-> {"q"}, self |-> "a.cj"],
     [package |-> NoFile, imported |-> {}, self |-> NoFile]}
=============================================================================
