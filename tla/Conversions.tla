---------------------------- MODULE Conversions -----------------------------
(***************************************************************************)
(* What Deixis computes on the way in and out: a position goes to the      *)
(* server's encoding and back, a server's edits are normalized and         *)
(* applied, the symbols of several servers become one answer, a client     *)
(* follows nextOffset through a long one, and a file is routed to a        *)
(* server.  Positions, Edits, Pages and Routes hold the algorithms; an     *)
(* action here is a use that the code makes of one.                        *)
(***************************************************************************)
EXTENDS Pages, Edits, Routes

CONSTANTS
  TextLength,      \* bound of a text whose positions are converted
  EditTextLength,  \* bound of a text that is edited
  NewTexts,        \* what edits put in
  MaxEdits,        \* bound of the edits of a file
  MaxItems,        \* bound of the items in one server's answer
  MaxServers,      \* bound of the servers that are asked
  MaxBytes,        \* MAX_BYTES
  Sizes,           \* of an item, in bytes
  MaxLimit,        \* MAX_LIMIT
  Languages,       \* the language ids of a configuration,
  Extensions,      \* its extensions
  Patterns,        \* and its patterns
  Names            \* the files' names

ASSUME ConversionsAssumption ==
  /\ {TextLength, EditTextLength, MaxEdits, MaxItems, MaxServers}
       \subseteq Nat
  /\ \A new \in NewTexts : new \in Seq(Chars)
  /\ MaxBytes \in Nat /\ MaxBytes >= 2
  /\ Sizes \subseteq Nat \ {0}
  /\ MaxLimit \in Nat \ {0}

\* A configuration is a file that was read.
ASSUME RoutesAssumption ==
  /\ \A name \in Names \cup Extensions : name \in Seq(STRING)
  /\ IsFiniteSet(Patterns)
  /\ \A p \in Patterns : p.matches \subseteq Names /\ p.language \in Languages

VARIABLES
  input,   \* what came from the client or the server
  output   \* what has been made of it

vars == <<input, output>>

TextsUpTo(length) == UNION {[1..n -> Chars] : n \in 0..length}

Init == input = [kind |-> "none"] /\ output = <<>>

\* The text of the document, from the disk.
ReadText ==
  /\ input.kind = "none"
  /\ \E text \in TextsUpTo(TextLength) :
       input' = [kind |-> "text", text |-> text]
  /\ UNCHANGED output

-----------------------------------------------------------------------------
(* Positions: to_lsp_position and from_lsp_position                        *)

\* Either the client's position or the server's is in UTF-8.
Directions == {<<"utf-8", e>> : e \in Encodings}
                \cup {<<e, "utf-8">> : e \in Encodings}

GivePosition ==
  /\ input.kind = "text"
  /\ \E d \in Directions, line \in 0..(Len(input.text) + 1),
        character \in 0..(Bytes(input.text, Len(input.text)) + 1) :
       LET p == Position(line, character) IN
       /\ input' = [kind |-> "position", text |-> input.text,
                    position |-> p, source |-> d[1], target |-> d[2]]
       /\ output' = <<ConvertPosition(input.text, p, d[1], d[2])>>

ConvertBack ==
  /\ input.kind = "position" /\ Len(output) = 1 /\ IsOk(output[1])
  /\ output' = Append(output, ConvertPosition(input.text, Value(output[1]),
                                              input.target, input.source))
  /\ UNCHANGED input

\* A position is converted exactly when it lies before a character of its line
\* or at the line's end, to the position of the same place; the way back
\* undoes it, and end_position is the place behind everything: two scans that
\* agree with the protocol about CR LF, a final break and surrogate pairs.
PositionsAgree ==
  input.kind = "position" =>
    LET places == PlacesAt(input.text, input.position, input.source) IN
    /\ IsOk(output[1]) <=> places # {}
    /\ \A n \in places :
         Value(output[1]) = PositionOf(input.text, n, input.target)
    /\ Len(output) = 2 => output[2] = Ok(input.position)
    /\ EndPosition(input.text, input.target)
         = PositionOf(input.text, Len(input.text), input.target)

-----------------------------------------------------------------------------
(* Edits: what a preview shows of a file, and what applying it writes      *)

\* Every place of a text, and a position that may be none: behind the last
\* line, behind its own, or inside of a character.
EditPositions(text, encoding) ==
  {PositionOf(text, n, encoding) : n \in Places(text)} \cup {Position(1, 1)}

GiveEdits ==
  /\ input.kind = "text" /\ Len(input.text) <= EditTextLength
  /\ \E e \in {"utf-8", "utf-16"}, n \in 0..MaxEdits :
     LET positions == EditPositions(input.text, e) IN
     \E edits \in [1..n -> [start : positions, end : positions,
                            newText : NewTexts]] :
       /\ input' = [kind |-> "edits", text |-> input.text, encoding |-> e,
                    edits |-> edits]
       /\ output' = <<NormalizeEdits(edits, input.text, e)>>

Apply ==
  /\ input.kind = "edits" /\ Len(output) = 1 /\ IsOk(output[1])
  /\ output' = Append(output, ApplyEdits(input.text, Value(output[1])))
  /\ UNCHANGED input

\* An edit's range, as places in the text that the server saw.
RangesOf(edit) ==
  {r \in PlacesAt(input.text, edit.start, input.encoding)
           \X PlacesAt(input.text, edit.end, input.encoding) : r[1] <= r[2]}

\* One range before another: they may touch, but not begin together.
Apart(r, s) == r[2] <= s[1] /\ r[1] # s[1]

\* The edits' ranges and an order in which they follow each other.
Plans ==
  LET n == Len(input.edits)
      meant == [i \in 1..n |-> RangesOf(input.edits[i])]
  IN {plan \in [ranges : [1..n -> UNION {meant[i] : i \in 1..n}],
                order : [1..n -> 1..n]] :
        /\ \A i \in 1..n : plan.ranges[i] \in meant[i]
        /\ \A i \in 1..n : \E j \in 1..n : plan.order[j] = i
        /\ \A i, j \in 1..n : i < j => Apart(plan.ranges[plan.order[i]],
                                             plan.ranges[plan.order[j]])}

Replace(text, range, new) ==
  SubSeq(text, 1, range[1]) \o new \o SubSeq(text, range[2] + 1, Len(text))

\* The text with the last n edits made, from the last to the first.
Made(plan) ==
  LET last == Len(input.edits)
      made[n \in 0..last] ==
        IF n = 0 THEN input.text
        ELSE LET edit == plan.order[last + 1 - n]
             IN Replace(made[n - 1], plan.ranges[edit],
                        input.edits[edit].newText)
  IN made[last]

\* A file's edits are accepted exactly when each denotes a range of the text
\* and no two meet but end to end, in whatever order they come, though only
\* neighbours are compared; each shows the text it replaces, and the file
\* becomes what making them from the last to the first makes of it.
EditsLandWhereMeant ==
  input.kind = "edits" =>
    LET plans == Plans IN
    /\ IsOk(output[1]) <=> plans # {}
    /\ IsOk(output[1]) =>
         \E plan \in plans :
           /\ \A i \in 1..Len(input.edits) :
                LET range == plan.ranges[plan.order[i]] IN
                Value(output[1])[i].oldText
                  = SubSeq(input.text, range[1] + 1, range[2])
           /\ Len(output) = 2 => output[2] = Made(plan)

-----------------------------------------------------------------------------
(* Pages: an answer of several servers, and the calls that fetch it        *)

\* Each server's symbols carry its name.
Outcomes(server) ==
  {Unsupported, Failed}
    \cup {Found([i \in DOMAIN sizes |-> [server |-> server, rank |-> i,
                                         size |-> sizes[i]]])
          : sizes \in UNION {[1..n -> Sizes] : n \in 0..MaxItems}}

AskServers ==
  /\ input.kind = "none"
  /\ \E n \in 0..MaxServers :
     \E outcomes \in {f \in [1..n -> UNION {Outcomes(s) : s \in 1..n}] :
                        \A s \in 1..n : f[s] \in Outcomes(s)} :
       /\ output' = <<Merge(outcomes)>>
       /\ input' = [kind |-> "servers", outcomes |-> outcomes]

Ask ==
  /\ input.kind = "servers" /\ output[1].kind = "Ok"
  /\ \E limit \in 1..MaxLimit, offset \in 0..(MaxItems * MaxServers + 1) :
       input' = [kind |-> "pages", answer |-> output[1].items,
                 limit |-> limit, offset |-> offset]
  /\ output' = <<>>

\* The first page, or the page at the last one's nextOffset.
NextPage ==
  /\ input.kind = "pages"
  /\ output # <<>> => output[Len(output)].nextOffset # <<>>
  /\ LET offset == IF output = <<>> THEN input.offset
                   ELSE output[Len(output)].nextOffset[1]
     IN output' = Append(output, Paginate(input.answer, input.limit, offset,
                                          MaxBytes))
  /\ UNCHANGED input

\* A list of these numbers, each once and in order.
Enumerates(list, numbers) ==
  /\ {list[i] : i \in DOMAIN list} = numbers
  /\ \A i, j \in DOMAIN list : i < j => list[i] < list[j]

\* What items serialize to, with brackets and commas.
Weight(items) ==
  LET weight[n \in 0..Len(items)] ==
        IF n = 0 THEN 2
        ELSE weight[n - 1] + items[n].size + (IF n > 1 THEN 1 ELSE 0)
  IN weight[Len(items)]

\* A page of an answer that begins at an index.
PageIsRight(page, answer, from) ==
  LET total == Len(answer)
      upto == IF page.nextOffset = <<>> THEN total ELSE page.nextOffset[1]
      passed == {k \in 0..(total - 1) : from <= k /\ k < upto}
      omitted == {k \in passed : answer[k + 1].size > MaxBytes - 2}
  IN /\ page.total = total
     /\ passed # {} \/ from >= total
     /\ upto - from <= input.limit
     /\ Weight(page.items) <= MaxBytes
     /\ Enumerates(page.omitted, omitted)
     /\ page.returned = Len(page.items)
     /\ page.truncated <=> (upto < total \/ omitted # {})
     /\ \E on \in [DOMAIN page.items -> passed \ omitted] :
          /\ Enumerates(on, passed \ omitted)
          /\ \A i \in DOMAIN page.items : page.items[i] = answer[on[i] + 1]

\* Whoever follows nextOffset meets every item once and in order, as itself or
\* as the index of one that fits no page; no page is over its limit or its
\* bytes, and none but the last one stands still.  The symbols of several
\* servers are each server's, once and in its order, and all of them: a
\* server that failed is not left out.
PagesCoverTheAnswer ==
  /\ input.kind = "pages" =>
       \A k \in DOMAIN output :
         PageIsRight(output[k], input.answer,
                     IF k = 1 THEN input.offset
                     ELSE output[k - 1].nextOffset[1])
  /\ input.kind = "servers" /\ output[1].kind = "Ok" =>
       LET items == output[1].items
           outcomes == input.outcomes
           servers == {s \in DOMAIN outcomes : outcomes[s].kind = "Ok"}
       IN /\ \A s \in DOMAIN outcomes : outcomes[s].kind # "Err"
          /\ {items[i] : i \in DOMAIN items}
               = UNION {{outcomes[s].items[r] : r \in DOMAIN outcomes[s].items}
                        : s \in servers}
          /\ \A i, j \in DOMAIN items :
               i < j /\ items[i].server = items[j].server =>
                 items[i].rank < items[j].rank

-----------------------------------------------------------------------------
(* Routes: a configuration and a file                                      *)

Servers ==
  [extensions : UNION {[chosen -> Languages] : chosen \in SUBSET Extensions},
   patterns : SUBSET Patterns]

\* Servers come in the order of their names.
Configure ==
  /\ input.kind = "none"
  /\ \E n \in 1..MaxServers : \E servers \in [1..n -> Servers], name \in Names :
       /\ \A s \in DOMAIN servers : Valid(servers[s])
       /\ input' = [kind |-> "route", servers |-> servers, name |-> name]
       /\ output' = <<Route(servers, name)>>

\* The same file again, with the name of a server.
NameServer ==
  /\ input.kind = "route" /\ Len(output) <= Len(input.servers)
  /\ output' = Append(output,
                      RouteTo(input.servers, input.name, Len(output)))
  /\ UNCHANGED input

\* A file has the same server and the same language whether or not the caller
\* names the server, so that no document is opened in two; without a name
\* there is a route exactly when one server speaks for the file and none is
\* of two minds.  The language is that of the patterns, if any matches, or of
\* an extension that no longer one of that server's outdoes.
RoutesAgree ==
  input.kind = "route" /\ Len(output) = Len(input.servers) + 1 =>
    LET unnamed == output[1]
        named == Tail(output)
        routed == {n \in DOMAIN named : named[n].kind = "Route"}
        torn == {n \in DOMAIN named : named[n].kind = "AmbiguousLanguages"}
    IN /\ unnamed.kind = "AmbiguousLanguages" <=> torn # {}
       /\ unnamed.kind = "Route" <=> torn = {} /\ Cardinality(routed) = 1
       /\ unnamed.kind = "NoMatch" <=> torn \cup routed = {}
       /\ unnamed.kind = "Route" => \E n \in routed : unnamed = named[n]
       /\ \A n \in routed :
            LET server == input.servers[n]
                stems(e) == {stem \in 1..Len(input.name) :
                               SubSeq(input.name, 1, stem) \o e = input.name}
                fits == {e \in DOMAIN server.extensions : stems(e) # {}}
                patterns == {p \in server.patterns :
                               input.name \in p.matches}
            IN IF patterns # {}
                 THEN \A p \in patterns : named[n].language = p.language
                 ELSE \E e \in fits :
                        /\ named[n].language = server.extensions[e]
                        /\ \A longer \in fits : Len(longer) <= Len(e)

-----------------------------------------------------------------------------
Next ==
  \/ ReadText \/ GivePosition \/ ConvertBack
  \/ GiveEdits \/ Apply
  \/ AskServers \/ Ask \/ NextPage
  \/ Configure \/ NameServer

Spec == Init /\ [][Next]_vars
=============================================================================
