----------------------------- MODULE Positions ------------------------------
(***************************************************************************)
(* PositionConverter of src/src/positions.rs: a position is a line and a   *)
(* number of code units, in UTF-8, UTF-16 or UTF-32.                       *)
(*                                                                         *)
(* A text is a sequence of characters, one for each width a character can  *)
(* have and the two that end a line.  A place in it is the number of       *)
(* characters before it; where the code keeps a byte offset that it walked *)
(* to, the model keeps the place.  Texts are short, so that a coordinate   *)
(* never exceeds u32.                                                      *)
(***************************************************************************)
EXTENDS Integers, Sequences, FiniteSets

Chars == {"a", "acute", "face", "CR", "LF"}
Encodings == {"utf-8", "utf-16", "utf-32"}

\* PositionEncoding::code_units of one character.
Units(char, encoding) ==
  CASE char = "acute" -> IF encoding = "utf-8" THEN 2 ELSE 1
    [] char = "face" -> IF encoding = "utf-8" THEN 4
                        ELSE IF encoding = "utf-16" THEN 2 ELSE 1
    [] OTHER -> 1

\* What the characters before each place count.
UnitsTo(text, encoding) ==
  LET sum[n \in 0..Len(text)] ==
        IF n = 0 THEN 0 ELSE sum[n - 1] + Units(text[n], encoding)
  IN sum

\* The characters between two places.
CodeUnits(text, start, end, encoding) ==
  UnitsTo(text, encoding)[end] - UnitsTo(text, encoding)[start]

Position(line, character) == [line |-> line, character |-> character]
Before(p, q) ==
  \/ p.line < q.line
  \/ p.line = q.line /\ p.character < q.character

\* A Result: what was found, or why nothing was.
Ok(value) == <<"Ok", value>>
Err(reason) == <<"Err", reason>>
IsOk(result) == result[1] = "Ok"
Value(result) == result[2]

-----------------------------------------------------------------------------
(* Lines                                                                   *)

\* The breaks behind a place, where a line begins.
Breaks(text, start) ==
  {i \in (start + 1)..Len(text) : text[i] \in {"CR", "LF"}}
FirstBreak(text, start) ==
  CHOOSE i \in Breaks(text, start) : \A j \in Breaks(text, start) : i <= j

\* The mutant that takes CR LF for two line breaks.
BreakLengthOne(text, i) == 1

BreakLength(text, i) ==
  IF text[i] = "CR" /\ i < Len(text) /\ text[i + 1] = "LF" THEN 2 ELSE 1

AfterBreak(text, start) ==
  LET i == FirstBreak(text, start) IN i + BreakLength(text, i) - 1
EndOfLine(text, start) ==
  IF Breaks(text, start) = {} THEN Len(text) ELSE FirstBreak(text, start) - 1

\* The walk of logical_line and final_line: where each line begins.
NoLine == -1
NextLine(text, start) ==
  IF start = NoLine \/ Breaks(text, start) = {} THEN NoLine
  ELSE AfterBreak(text, start)
Starts(text) ==
  LET start[n \in 0..Len(text)] ==
        IF n = 0 THEN 0 ELSE NextLine(text, start[n - 1])
  IN start

\* A line, by the place where it begins.
LogicalLine(text, wanted) ==
  IF wanted \in 0..Len(text) /\ Starts(text)[wanted] # NoLine
    THEN Ok(Starts(text)[wanted])
    ELSE Err("LineOutOfBounds")

FinalLine(text) ==
  CHOOSE n \in 0..Len(text) :
    Starts(text)[n] # NoLine /\ Breaks(text, Starts(text)[n]) = {}

-----------------------------------------------------------------------------
(* Conversion                                                              *)

\* byte_offset: the first place of a line behind enough code units, if they
\* are not too many.
ByteOffset(text, start, wanted, encoding) ==
  LET enough == {n \in start..EndOfLine(text, start) :
                   CodeUnits(text, start, n, encoding) >= wanted}
      first == CHOOSE n \in enough : \A m \in enough : n <= m
  IN CASE enough = {} -> Err("CharacterOutOfBounds")
       [] enough # {} /\ CodeUnits(text, start, first, encoding) > wanted ->
            Err("InvalidCharacterBoundary")
       [] OTHER -> Ok(first)

ConvertPosition(text, p, source, target) ==
  LET line == LogicalLine(text, p.line)
      place == ByteOffset(text, Value(line), p.character, source)
  IN IF ~IsOk(line) THEN line
     ELSE IF ~IsOk(place) THEN place
     ELSE Ok(Position(p.line, CodeUnits(text, Value(line), Value(place),
                                        target)))

ConvertRange(text, start, end, source, target) ==
  LET from == ConvertPosition(text, start, source, target)
      to == ConvertPosition(text, end, source, target)
  IN IF Before(end, start) THEN Err("ReversedRange")
     ELSE IF ~IsOk(from) THEN from
     ELSE IF ~IsOk(to) THEN to
     ELSE Ok([start |-> Value(from), end |-> Value(to)])

EndPosition(text, encoding) ==
  LET line == FinalLine(text)
  IN Position(line, CodeUnits(text, Starts(text)[line], Len(text), encoding))

-----------------------------------------------------------------------------
(* What the protocol says of positions, for comparison: a line begins      *)
(* after each break, and CR LF is one.                                     *)

LineStarts(text) ==
  {0} \cup {i \in Breaks(text, 0) : ~(/\ text[i] = "CR"
                                      /\ i < Len(text)
                                      /\ text[i + 1] = "LF")}
StartOf(text, place) ==
  CHOOSE s \in LineStarts(text) :
    s <= place /\ \A r \in LineStarts(text) : r <= place => r <= s

\* A place before a break or at the end, and not inside of one.
Places(text) ==
  {n \in 0..Len(text) :
     \A i \in (StartOf(text, n) + 1)..n : i \notin Breaks(text, 0)}
PositionOf(text, place, encoding) ==
  Position(Cardinality({s \in LineStarts(text) : 0 < s /\ s <= place}),
           CodeUnits(text, StartOf(text, place), place, encoding))
PlacesAt(text, p, encoding) ==
  {n \in Places(text) : PositionOf(text, n, encoding) = p}
=============================================================================
