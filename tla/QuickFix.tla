------------------------------ MODULE QuickFix -------------------------------
(***************************************************************************)
(* The range a quick fix deletes (crates/cj-lsp/src/server.rs,             *)
(* compute_remove_range), over the tokens of a file as TokenCursor has     *)
(* them.  A fix has a kind and the index of the token it starts from, the  *)
(* keyword of a declaration or the name of a parameter; a range is the     *)
(* indices of its first and last token, or is missing.  White space next   *)
(* to a comma goes with it and is left out.                                *)
(***************************************************************************)
EXTENDS Naturals, Sequences

DeclModifiers ==
    {"public", "private", "protected", "internal", "static", "abstract", "open", "sealed", "mut", "operator"}
Missing == << >>

Up(t, depth, openers, closers) ==
    CASE t \in openers -> depth + 1
      [] t \in closers -> IF depth = 0 THEN 0 ELSE depth - 1
      [] OTHER -> depth

RECURSIVE DeclStartIndex(_, _)
DeclStartIndex(toks, i) ==
    IF i > 1 /\ toks[i - 1] \in DeclModifiers THEN DeclStartIndex(toks, i - 1) ELSE i

\* The previous token that is neither a line break nor a comment.
RECURSIVE IsFirstParam(_, _)
IsFirstParam(toks, name) ==
    \/ name = 1
    \/ IF toks[name - 1] \in {"NL", "COMMENT"} THEN IsFirstParam(toks, name - 1) ELSE toks[name - 1] = "("

\* Mutant of ParamEnd: brackets are not counted.
RECURSIVE ParamEndFlat(_, _, _)
ParamEndFlat(toks, i, depth) ==
    IF i > Len(toks) \/ (i <= Len(toks) /\ toks[i] \in {",", ")"}) THEN i - 1 ELSE ParamEndFlat(toks, i + 1, depth)

\* The last token before a comma or parenthesis that is in no bracket. Two
\* angles written as one token are no bracket here.
RECURSIVE ParamEnd(_, _, _)
ParamEnd(toks, i, depth) ==
    IF i > Len(toks) \/ (i <= Len(toks) /\ depth = 0 /\ toks[i] \in {",", ")"}) THEN i - 1
    ELSE ParamEnd(toks, i + 1, Up(toks[i], depth, {"(", "[", "<"}, {")", "]", ">"}))

\* An `=` in no bracket.
RECURSIVE HasDefault(_, _, _, _)
HasDefault(toks, i, last, depth) ==
    /\ i <= last
    /\ \/ depth = 0 /\ toks[i] = "="
       \/ HasDefault(toks, i + 1, last, Up(toks[i], depth, {"(", "[", "<"}, {")", "]", ">"}))

\* The first parameter takes the comma after it, another without a default the
\* one before it.
ParamRange(toks, name) ==
    LET Eaten(i, t) == IF i <= Len(toks) /\ toks[i] = t THEN i + 1 ELSE i
        type == Eaten(Eaten(name + 1, "!"), ":")
        last == ParamEnd(toks, type, 0)
        first == IsFirstParam(toks, name)
    IN <<IF ~first /\ ~HasDefault(toks, type, last, 0) /\ toks[name - 1] = "," THEN name - 1 ELSE name,
         IF first /\ last < Len(toks) /\ toks[last + 1] = "," THEN last + 1 ELSE last>>

\* The last token of a variable's line; brackets may span lines.
RECURSIVE VarEnd(_, _, _, _)
VarEnd(toks, i, depth, last) ==
    IF i > Len(toks) \/ (i <= Len(toks) /\ depth = 0 /\ toks[i] \in {"NL", ";", "}"}) THEN last
    ELSE VarEnd(toks, i + 1, Up(toks[i], depth, {"(", "[", "{"}, {")", "]", "}"}),
                IF toks[i] \in {"NL", ";"} THEN last ELSE i)

\* The first brace in no other bracket, and the one that closes it.
RECURSIVE BodyStart(_, _, _), BodyEnd(_, _, _)
BodyStart(toks, i, depth) ==
    IF i > Len(toks) \/ (i <= Len(toks) /\ toks[i] = "{" /\ depth = 0) THEN i
    ELSE BodyStart(toks, i + 1, Up(toks[i], depth, {"(", "["}, {")", "]"}))
BodyEnd(toks, i, depth) ==
    IF i > Len(toks) \/ (i <= Len(toks) /\ toks[i] = "}" /\ depth = 1) THEN i
    ELSE BodyEnd(toks, i + 1, Up(toks[i], depth, {"{"}, {"}"}))
BracedEnd(toks, start) == BodyEnd(toks, BodyStart(toks, start + 1, 0) + 1, 1)

Range_(first, last, toks) == IF last \in first .. Len(toks) THEN <<first, last>> ELSE Missing

ComputeRemoveRange(toks, kind, at) ==
    LET start == DeclStartIndex(toks, at)
    IN CASE kind = "param" -> ParamRange(toks, at)
         [] kind = "var" -> Range_(start, VarEnd(toks, start + 1, 0, 0), toks)
         [] OTHER -> Range_(start, BracedEnd(toks, start), toks)

Removed(toks, range) == SubSeq(toks, 1, range[1] - 1) \o SubSeq(toks, range[2] + 1, Len(toks))
=============================================================================
