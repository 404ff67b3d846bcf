----------------------------- MODULE MCDepGraph -----------------------------
(* Every program of three variables with at most two references each, to each *)
(* other or to themselves; and programs of two names, redeclared or external. *)
EXTENDS DepGraph

CONSTANTS a, b, c

Refs(names) == UNION {[1 .. k -> names] : k \in 0 .. 2}
Declares(name, names) == [name : {name}, refs : Refs(names)]

MCPrograms ==
    {<<x, y, z>> : x \in Declares(a, {a, b, c}), y \in Declares(b, {a, b, c}),
                   z \in Declares(c, {a, b, c})}
    \cup {<<x, y>> : x \in Declares(a, {a, b, c}), y \in Declares(b, {a, b, c})}
    \cup {<<x, y>> : x \in Declares(a, {a, b}), y \in Declares(a, {a, b})}
=============================================================================
