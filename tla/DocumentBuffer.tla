--------------------------- MODULE DocumentBuffer ---------------------------
(***************************************************************************)
(* One buffer under arbitrary incremental edits, in or out of range: the   *)
(* conversions and the edit of TextEdit against what a position means.     *)
(***************************************************************************)
EXTENDS TextEdit

CONSTANTS Letters,   \* characters other than NL
          MaxText    \* bound: length of the buffer

ASSUME BufferAssumption == MaxText \in Nat /\ NL \notin Letters

VARIABLE text

Inserts == UNION {[1 .. n -> Letters \cup {NL}] : n \in 0 .. 1}

\* Positions of the text, and positions one line or one character too far.
Positions == [line : 0 .. MaxText + 1, character : 0 .. MaxText + 1]

Init == text = << >>

Edit ==
    \E start \in Positions, end \in Positions, new \in Inserts :
        /\ text' = ApplyIncrementalChange(text, start, end, new)
        /\ Len(text') <= MaxText

Next == Edit

Spec == Init /\ [][Next]_text

-----------------------------------------------------------------------------
TypeOK == text \in Seq(Letters \cup {NL}) /\ Len(text) <= MaxText

(***************************************************************************)
(* An edit touches what its range names: in the text exactly the           *)
(* characters between its two positions; out of the text nothing outside   *)
(* the lines it names, for every line before its first and after its last  *)
(* line stays (apply_incremental_change, lsp_pos_to_byte).                 *)
(***************************************************************************)
ValidEditIsSplice ==
    \A start \in Positions, end \in Positions :
        (InText(text, start) /\ InText(text, end) /\ NotAfter(start, end)) =>
            \A new \in Inserts :
                ApplyIncrementalChange(text, start, end, new) =
                    Splice(text, OffsetOf(text, start), OffsetOf(text, end), new)

OtherLinesStay ==
    \A start \in Positions, end \in Positions, new \in Inserts :
        NotAfter(start, end) =>
            LET after == ApplyIncrementalChange(text, start, end, new)
                lineOf(i) == Cardinality({j \in 1 .. i - 1 : text[j] = NL})
                ahead == {i \in 1 .. Len(text) : lineOf(i) < start.line}
                last == Cardinality({j \in 1 .. Len(text) : text[j] = NL})
                behind == {i \in 1 .. Len(text) : lineOf(i) > end.line}
            IN  /\ start.line <= last => \A i \in ahead : i <= Len(after) /\ after[i] = text[i]
                /\ \A i \in behind :
                      LET fromEnd == Len(text) - i
                      IN  fromEnd < Len(after) /\ after[Len(after) - fromEnd] = text[i]

EditTouchesItsRange == ValidEditIsSplice /\ OtherLinesStay

(***************************************************************************)
(* Offsets and positions are inverse to each other (offset_to_lsp_pos,     *)
(* lsp_pos_to_byte), so the range of a quick fix is applied by the editor  *)
(* to the characters the server meant.                                     *)
(***************************************************************************)
ConversionsInverse ==
    /\ \A o \in 0 .. Len(text) :
          LET pos == OffsetToLspPos(text, o)
          IN  IsAt(text, pos, o) /\ LspPosToByte(text, pos.line, pos.character) = o
    /\ \A pos \in Positions :
          InText(text, pos) => OffsetToLspPos(text, LspPosToByte(text, pos.line, pos.character)) = pos
=============================================================================
