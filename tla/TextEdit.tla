------------------------------ MODULE TextEdit ------------------------------
(***************************************************************************)
(* Positions and incremental edits of crates/cj-lsp/src/server.rs.         *)
(*                                                                         *)
(* A text is a sequence of characters; NL is the line break.  The server   *)
(* works with byte offsets, but every offset it computes is the sum of the *)
(* widths of whole characters, so an offset is modelled by the number of   *)
(* characters before it.  A position is a record of a 0-based line and a   *)
(* 0-based character, as in the protocol.                                  *)
(***************************************************************************)
EXTENDS Integers, Sequences, FiniteSets

CONSTANT NL \* the line break

Smaller(a, b) == IF a <= b THEN a ELSE b

(***************************************************************************)
(* The scan lsp_pos_to_byte and line_char_len make: from the break before  *)
(* the wanted line to the break that ends it.  When the text has fewer     *)
(* lines the scan ends in its last line.                                   *)
(***************************************************************************)
LineSpan(text, line) ==
    LET breaks == {i \in 1 .. Len(text) : text[i] = NL}
        wanted == Smaller(line, Cardinality(breaks))
        ahead(i) == Cardinality({j \in breaks : j <= i})
    IN  [start |-> CHOOSE i \in breaks \cup {0} : ahead(i) = wanted,
         stop  |-> IF wanted = Cardinality(breaks) THEN Len(text)
                   ELSE (CHOOSE i \in breaks : ahead(i) = wanted + 1) - 1]

LspPosToByte(text, line, character) ==
    LET span == LineSpan(text, line)
    IN  span.start + Smaller(character, span.stop - span.start)

LineCharLen(text, line) ==
    LET span == LineSpan(text, line)
    IN  span.stop - span.start

\* Mutant of OffsetToLspPos: the break counts as part of the line it ends in.
OffsetAfterBreakMissed(text, offset) ==
    LET off == Smaller(offset, Len(text))
        breaks == {i \in 1 .. off : text[i] = NL}
        lineStart == IF breaks = {} THEN 0
                     ELSE (CHOOSE i \in breaks : \A j \in breaks : j <= i) - 1
    IN  [line |-> Cardinality(breaks), character |-> off - lineStart]

(***************************************************************************)
(* The inverse conversion, used for the ranges of quick fixes.             *)
(***************************************************************************)
OffsetToLspPos(text, offset) ==
    LET off == Smaller(offset, Len(text))
        breaks == {i \in 1 .. off : text[i] = NL}
        lineStart == IF breaks = {} THEN 0
                     ELSE CHOOSE i \in breaks : \A j \in breaks : j <= i
    IN  [line |-> Cardinality(breaks), character |-> off - lineStart]

Splice(text, from, to, newText) ==
    SubSeq(text, 1, from) \o newText \o SubSeq(text, to + 1, Len(text))

\* Mutant of ApplyIncrementalChange: >= for >.
EditAtEndDropped(text, start, end, newText) ==
    LET startLen == LineCharLen(text, start.line)
        endLen   == LineCharLen(text, end.line)
        dropped  == /\ start.line = end.line
                    /\ start.character >= startLen
                    /\ end.character >= endLen
        to   == LspPosToByte(text, end.line, Smaller(end.character, endLen))
        from == Smaller(LspPosToByte(text, start.line, start.character), to)
    IN  IF dropped THEN text ELSE Splice(text, from, to, newText)

(***************************************************************************)
(* One content change that carries a range.  An edit of a single line that *)
(* starts and ends strictly past the end of the line is dropped; the end   *)
(* of the range is cut at the end of its line; a start after the end is    *)
(* pulled back to it.                                                      *)
(***************************************************************************)
ApplyIncrementalChange(text, start, end, newText) ==
    LET startLen == LineCharLen(text, start.line)
        endLen   == LineCharLen(text, end.line)
        dropped  == /\ start.line = end.line
                    /\ start.character > startLen
                    /\ end.character > endLen
        to   == LspPosToByte(text, end.line, Smaller(end.character, endLen))
        from == Smaller(LspPosToByte(text, start.line, start.character), to)
    IN  IF dropped \/ to > Len(text) THEN text
        ELSE Splice(text, from, to, newText)

-----------------------------------------------------------------------------
(***************************************************************************)
(* Reference definitions: what a position means, stated without a scan.    *)
(***************************************************************************)

\* Offset o is where position pos is, when pos lies in the text.
IsAt(text, pos, o) ==
    LET before == {i \in 1 .. o : text[i] = NL}
    IN  /\ Cardinality(before) = pos.line
        /\ pos.character <= o
        /\ pos.character > 0 => (o - pos.character + 1 .. o) \cap before = {}
        /\ pos.line > 0 => o - pos.character \in before
        /\ pos.line = 0 => o = pos.character

InText(text, pos) == \E o \in 0 .. Len(text) : IsAt(text, pos, o)

OffsetOf(text, pos) == CHOOSE o \in 0 .. Len(text) : IsAt(text, pos, o)

NotAfter(p, q) == \/ p.line < q.line
                  \/ p.line = q.line /\ p.character <= q.character
=============================================================================
