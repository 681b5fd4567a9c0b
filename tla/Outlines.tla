------------------------------ MODULE Outlines ------------------------------
(***************************************************************************)
(* The symbols of a document, which are trees: flatten_symbols and         *)
(* rebuild_symbols of src/src/mcp/output.rs, around Pages.  To the uses in *)
(* Conversions comes a client of deixis_document_symbols that follows      *)
(* nextOffset.                                                             *)
(*                                                                         *)
(* A symbol is its size in bytes, without its children, and those.         *)
(***************************************************************************)
EXTENDS Conversions, SequencesExt

CONSTANT MaxSymbols  \* bound of the symbols of a document

ASSUME OutlinesAssumption == MaxSymbols \in Nat

NoParent == -1

\* A symbol loses its children to the list, and names its parent instead.
RECURSIVE Flatten(_, _, _)
Flatten(symbols, parent, index) ==
  IF symbols = <<>> THEN <<>>
  ELSE LET symbol == Head(symbols)
           flat == [index |-> index, parent |-> parent, size |-> symbol.size,
                    childCount |-> Len(symbol.children), children |-> <<>>]
           below == Flatten(symbol.children, index, index + 1)
       IN <<flat>> \o below
            \o Flatten(Tail(symbols), parent, index + 1 + Len(below))

\* The mutant that puts a symbol behind its younger siblings.
RECURSIVE RebuildBehind(_, _)
RebuildBehind(symbols, roots) ==
  IF symbols = <<>> THEN roots
  ELSE LET symbol == Last(symbols)
           rest == Front(symbols)
           parents == {i \in DOMAIN rest : rest[i].index = symbol.parent}
       IN IF parents = {} THEN RebuildBehind(rest, <<symbol>> \o roots)
          ELSE RebuildBehind(
                 [rest EXCEPT ![CHOOSE i \in parents : TRUE].children =
                    Append(@, symbol)], roots)

\* The last symbol joins its parent on the page, in front of the children
\* that have, or the roots.
RECURSIVE Rebuild(_, _)
Rebuild(symbols, roots) ==
  IF symbols = <<>> THEN roots
  ELSE LET symbol == Last(symbols)
           rest == Front(symbols)
           parents == {i \in DOMAIN rest : rest[i].index = symbol.parent}
       IN IF parents = {} THEN Rebuild(rest, <<symbol>> \o roots)
          ELSE Rebuild([rest EXCEPT ![CHOOSE i \in parents : TRUE].children =
                          <<symbol>> \o @], roots)

\* paginate of an answer that is hierarchical.
PaginateSymbols(symbols, limit, offset) ==
  LET page == Paginate(Flatten(symbols, NoParent, 0), limit, offset, MaxBytes)
  IN [page EXCEPT !.items = Rebuild(@, <<>>)]

-----------------------------------------------------------------------------
\* The document's symbols, as the server nested them.
RECURSIVE Forests(_)
Forests(n) ==
  IF n = 0 THEN {<<>>}
  ELSE UNION {{<<[size |-> s, children |-> below]>> \o rest :
                 s \in Sizes, below \in Forests(k),
                 rest \in Forests(n - 1 - k)} : k \in 0..(n - 1)}

AskSymbols ==
  /\ input.kind = "none"
  /\ \E n \in 0..MaxSymbols : \E symbols \in Forests(n),
        limit \in 1..MaxLimit, offset \in 0..(MaxSymbols + 1) :
       input' = [kind |-> "symbols", symbols |-> symbols, limit |-> limit,
                 offset |-> offset]
  /\ UNCHANGED output

\* The first page, or the page at the last one's nextOffset.
NextSymbols ==
  /\ input.kind = "symbols"
  /\ output # <<>> => Last(output).nextOffset # <<>>
  /\ LET offset == IF output = <<>> THEN input.offset
                   ELSE Last(output).nextOffset[1]
     IN output' = Append(output, PaginateSymbols(input.symbols, input.limit,
                                                 offset))
  /\ UNCHANGED input

OutlinesNext == Next \/ AskSymbols \/ NextSymbols
OutlinesSpec == Init /\ [][OutlinesNext]_vars

-----------------------------------------------------------------------------
\* The symbols as they were, from the list they were made into.
RECURSIVE Shape(_)
Shape(forest) ==
  [i \in DOMAIN forest |-> [size |-> forest[i].size,
                            children |-> Shape(forest[i].children)]]

\* The trees that the symbols `on` one page make.
RECURSIVE Trees(_, _, _)
Trees(flat, on, above) ==
  LET parent(k) == flat[k + 1].parent
      kids == SetToSortSeq(
                {k \in on : IF parent(k) \in on THEN parent(k) = above
                            ELSE above = NoParent}, <)
  IN [i \in DOMAIN kids |->
        [flat[kids[i] + 1] EXCEPT !.children = Trees(flat, on, kids[i])]]

\* What trees serialize to, but for the outer brackets.
RECURSIVE TreeWeight(_)
TreeWeight(forest) ==
  IF forest = <<>> THEN 0
  ELSE Head(forest).size + (IF Len(forest) > 1 THEN 1 ELSE 0)
         + TreeWeight(Head(forest).children) + TreeWeight(Tail(forest))

\* Flattened and rebuilt, a document's symbols are what they were; on a page a
\* symbol is nested where its parent is on the page, beside its siblings in
\* their order, and its page, nested again, is not over its bytes; every
\* symbol from the offset on is on one page, or is named there as too large.
OutlineKeepsItsShape ==
  input.kind = "symbols" =>
    LET flat == Flatten(input.symbols, NoParent, 0)
        from(k) == IF k = 1 THEN input.offset
                   ELSE output[k - 1].nextOffset[1]
        upto(k) == IF output[k].nextOffset = <<>> THEN Len(flat)
                   ELSE output[k].nextOffset[1]
        on(k) == {i \in 0..(Len(flat) - 1) :
                    /\ from(k) <= i /\ i < upto(k)
                    /\ i \notin Range(output[k].omitted)}
    IN /\ Shape(Rebuild(flat, <<>>)) = input.symbols
       /\ \A k \in DOMAIN output :
            /\ output[k].items = Trees(flat, on(k), NoParent)
            /\ 2 + TreeWeight(output[k].items) <= MaxBytes
            /\ \A i \in 0..(Len(flat) - 1) :
                 i \in Range(output[k].omitted) =>
                   flat[i + 1].size > MaxBytes - 2
=============================================================================
