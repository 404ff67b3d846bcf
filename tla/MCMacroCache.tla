---------------------------- MODULE MCMacroCache ----------------------------
(* Two files with two contents each.  The file "b" has the line of "a" twice, so *)
(* <<"a", "b">> and <<"b", "a">> have one key; a package of two "b" does not compile. *)
EXTENDS MacroCache, TLC

MCBroken == {[f \in 1 .. NFiles |-> "b"]}
MCLines == [c \in Contents |-> IF c = "a" THEN <<"x">> ELSE <<"x", "x">>]

\* The servers run the same program and nothing tells them apart.
MCSymmetry == Permutations(Servers)
=============================================================================
