-------------------------------- MODULE Edits -------------------------------
(***************************************************************************)
(* The text edits of one file of a rename: normalize_text_edit,            *)
(* reject_overlaps, position_offset and apply_edits of                     *)
(* src/src/workspace_edits.rs.                                             *)
(*                                                                         *)
(* The server's ranges count code units of its encoding.  Normalized edits *)
(* hold byte offsets into the file as it was read.                         *)
(***************************************************************************)
EXTENDS Positions

Bytes(text, place) == UnitsTo(text, "utf-8")[place]

\* The place at a byte offset; none where the offset splits a character, and
\* slicing there would panic.
Boundaries(text, offset) == {n \in 0..Len(text) : Bytes(text, n) = offset}
PlaceAt(text, offset) == CHOOSE n \in Boundaries(text, offset) : TRUE
Slice(text, start, end) ==
  SubSeq(text, PlaceAt(text, start) + 1, PlaceAt(text, end))

-----------------------------------------------------------------------------
(* position_offset, with its own walk over the lines                       *)

NextOffset(text, offset) ==
  IF offset = NoLine \/ Breaks(text, PlaceAt(text, offset)) = {} THEN NoLine
  ELSE Bytes(text, AfterBreak(text, PlaceAt(text, offset)))
LineOffsets(text) ==
  LET offset[n \in 0..Len(text)] ==
        IF n = 0 THEN 0 ELSE NextOffset(text, offset[n - 1])
  IN offset

\* Where the line ends that begins at a byte offset.
LineEnd(text, start) ==
  Bytes(text, EndOfLine(text, PlaceAt(text, start)))

PositionOffset(text, p) ==
  LET start == LineOffsets(text)[p.line]
      offset == start + p.character
  IN IF p.line \notin 0..Len(text) \/ start = NoLine
       THEN Err("OutsideDocument")
     ELSE IF Boundaries(text, offset) = {} THEN Err("NotABoundary")
     ELSE IF offset > LineEnd(text, start) THEN Err("ExceedsLine")
     ELSE Ok(offset)

-----------------------------------------------------------------------------
(* One file's edits                                                        *)

\* A range of the text in UTF-8, and what replaces it.
NormalizeRange(range, text, newText) ==
  LET start == PositionOffset(text, range.start)
      end == PositionOffset(text, range.end)
  IN IF ~IsOk(start) THEN start
     ELSE IF ~IsOk(end) THEN end
     ELSE Ok([start |-> Value(start), end |-> Value(end),
              oldText |-> Slice(text, Value(start), Value(end)),
              newText |-> newText])

\* A raw edit is [start, end, newText].
NormalizeEdit(edit, text, encoding) ==
  LET range == ConvertRange(text, edit.start, edit.end, encoding, "utf-8")
  IN IF ~IsOk(range) THEN range
     ELSE NormalizeRange(Value(range), text, edit.newText)

Precedes(left, right) ==
  \/ left.start < right.start
  \/ left.start = right.start /\ left.end < right.end

\* sort_by_key, which is stable: the edits' places in order.
IsOrder(order, edits) ==
  /\ order \in [DOMAIN edits -> DOMAIN edits]
  /\ \A i \in DOMAIN edits : \E j \in DOMAIN edits : order[j] = i
  /\ \A i, j \in DOMAIN edits : i < j =>
       \/ Precedes(edits[order[i]], edits[order[j]])
       \/ /\ ~Precedes(edits[order[j]], edits[order[i]])
          /\ order[i] < order[j]
Sorted(edits) ==
  LET order == CHOOSE o \in [DOMAIN edits -> DOMAIN edits] :
                 IsOrder(o, edits)
  IN [i \in DOMAIN edits |-> edits[order[i]]]

\* The mutant that lets two edits begin at one place.
OverlapsLeft(left, right) == right.start < left.end

Overlaps(left, right) ==
  right.start < left.end \/ right.start = left.start

RejectOverlaps(edits) ==
  IF \E i \in 1..(Len(edits) - 1) : Overlaps(edits[i], edits[i + 1])
    THEN Err("Overlap") ELSE Ok(edits)

\* What all of the results hold, or the first error.
Collect(results) ==
  LET failed == {i \in DOMAIN results : ~IsOk(results[i])}
  IN IF failed # {}
       THEN results[CHOOSE i \in failed : \A j \in failed : i <= j]
       ELSE Ok([i \in DOMAIN results |-> Value(results[i])])

NormalizeEdits(edits, text, encoding) ==
  LET normal == Collect([i \in DOMAIN edits |->
                           NormalizeEdit(edits[i], text, encoding)])
  IN IF ~IsOk(normal) THEN normal ELSE RejectOverlaps(Sorted(Value(normal)))

ApplyEdits(text, edits) ==
  LET cursor(n) == IF n = 1 THEN 0 ELSE edits[n - 1].end
      output[n \in 0..Len(edits)] ==
        IF n = 0 THEN <<>>
        ELSE output[n - 1] \o Slice(text, cursor(n), edits[n].start)
                           \o edits[n].newText
  IN output[Len(edits)] \o Slice(text, cursor(Len(edits) + 1),
                                 Bytes(text, Len(text)))
=============================================================================
