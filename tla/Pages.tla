-------------------------------- MODULE Pages -------------------------------
(***************************************************************************)
(* Pages of a long answer: paginate of src/src/mcp/output.rs, and how      *)
(* deixis_workspace_symbols of src/src/mcp.rs makes one answer of what     *)
(* several servers say.                                                    *)
(*                                                                         *)
(* An item is what it serializes to: its size in bytes.  Offsets and       *)
(* indexes begin at 0.                                                     *)
(***************************************************************************)
EXTENDS Integers, Sequences

Least(m, n) == IF m < n THEN m ELSE n

\* The mutant that forgets the brackets of the list.
LargerThanAPage(item, maxBytes) == item.size > maxBytes

\* ItemSize: the bytes it may count.
Oversized(item, maxBytes) == item.size > maxBytes - 2

\* The page that stands before the item at an index, with this item if it
\* fits; an item that fits no page is named and passed over.  A page that has
\* been left behind is full.
Examine(page, index, item, maxBytes) ==
  LET size == item.size + (IF page.selected = <<>> THEN 0 ELSE 1) IN
  IF page.next < index THEN page
  ELSE IF Oversized(item, maxBytes)
    THEN [page EXCEPT !.next = index + 1, !.omitted = Append(@, index)]
  ELSE IF size > maxBytes - page.bytes THEN page
  ELSE [page EXCEPT !.next = index + 1, !.bytes = @ + size,
                    !.selected = Append(@, item)]

\* The items between two indexes.
Fill(items, start, last, maxBytes) ==
  LET page[n \in 0..(last - start)] ==
        IF n = 0
          THEN [next |-> start, bytes |-> 2, selected |-> <<>>,
                omitted |-> <<>>]
          ELSE Examine(page[n - 1], start + n - 1, items[start + n], maxBytes)
  IN page[last - start]

Paginate(items, limit, offset, maxBytes) ==
  LET total == Len(items)
      start == Least(offset, total)
      page == Fill(items, start, Least(start + limit, total), maxBytes)
  IN [items |-> page.selected,
      offset |-> offset,
      returned |-> Len(page.selected),
      total |-> total,
      truncated |-> page.next < total \/ page.omitted # <<>>,
      nextOffset |-> IF page.next < total THEN <<page.next>> ELSE <<>>,
      omitted |-> page.omitted]

-----------------------------------------------------------------------------
(* deixis_workspace_symbols: an outcome per server, in the order of their  *)
(* names.                                                                  *)

Found(items) == [kind |-> "Ok", items |-> items]
Unsupported == [kind |-> "UnsupportedCapability"]
Failed == [kind |-> "Err"]

Merge(outcomes) ==
  LET said(kind) == {i \in DOMAIN outcomes : outcomes[i].kind = kind}
      symbols[n \in 0..Len(outcomes)] ==
        IF n = 0 THEN <<>>
        ELSE IF outcomes[n].kind = "Ok"
          THEN symbols[n - 1] \o outcomes[n].items
        ELSE symbols[n - 1]
  IN CASE said("Err") # {} -> Failed
       [] said("Err") = {} /\ said("Ok") = {} /\ outcomes # <<>> ->
            Unsupported
       [] OTHER -> Found(symbols[Len(outcomes)])
=============================================================================
