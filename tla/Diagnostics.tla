---------------------------- MODULE Diagnostics -----------------------------
(***************************************************************************)
(* deixis_diagnostics for one document of one server generation:           *)
(* document_diagnostics_with_cancellation, pull_diagnostics,               *)
(* push_diagnostics and DiagnosticCache of src/src/lsp.rs, with a server   *)
(* that answers pulls, publishes reports and registers itself as it likes. *)
(*                                                                         *)
(* The `diagnostics` mutex is released between the steps of a pull, so     *)
(* calls for one document interleave.  A version stands for the text it    *)
(* was given to; the items of a report are opaque.  The store moves on     *)
(* before a notification is queued: one that finds the queue full fails    *)
(* its call and leaves the server with an older text than the store's, or, *)
(* after an incremental change of a text it never got, with one of its own.*)
(* The server wants didOpen; the queue, deadlines and retries are in       *)
(* Documents and Requests.                                                 *)
(***************************************************************************)
EXTENDS Naturals, Sequences, FiniteSets

CONSTANTS
  Queries,       \* callers of the diagnostics tool
  Items,         \* what a report may say
  NoItems,
  Pulls,         \* may the server register textDocument/diagnostic?
  MaxVersions,   \* bound of the document's versions
  MaxRefused,    \* bound of the notifications that find the queue full
  MaxResults,    \* bound of the result ids the server issues
  MaxPublished   \* bound of the reports it publishes

ASSUME DiagnosticsAssumption ==
  /\ NoItems \notin Items
  /\ Pulls \in BOOLEAN
  /\ MaxVersions \in Nat
  /\ MaxRefused \in Nat
  /\ MaxResults \in Nat
  /\ MaxPublished \in Nat

Versions == 1..MaxVersions

VARIABLES
  version,     \* of the document in the store, 0 before it is opened
  told,        \* the last version put into the outbound queue
  refused,     \* the versions that found it full
  torn,        \* the versions whose text the server has got wrong
  view,        \* the version the server has open
  analysis,    \* what the server finds in each version
  registered,  \* the server provides pull diagnostics
  results,     \* the items behind each result id the server has issued
  pull,        \* DiagnosticCache.pull, for this document
  push,        \* DiagnosticCache.push, for this document
  query,       \* the locals of each call
  published,   \* history: the reports that arrived, in order
  crossed      \* history: an unchanged report met another one's items

documents == <<version, told, refused, torn>>
server == <<view, analysis, registered, results>>
cache == <<pull, push>>
history == <<published, crossed>>
vars == <<documents, server, cache, query, history>>

PCs == {"idle", "synchronizing", "choosing", "sending", "waiting", "answered",
        "storing", "looking", "done"}
Availabilities == {"none", "current", "stale", "unavailable"}

\* No result id, and no version, is 0.
NoPull == [id |-> 0, items |-> NoItems]
NoPush == [version |-> 0, items |-> NoItems]

Fresh == [
  pc |-> "idle",
  pulls |-> FALSE,            \* pull_provider
  version |-> 0,              \* document.version()
  previous |-> 0,             \* previousResultId
  least |-> 0,                \* the version told before the request
  full |-> FALSE,             \* the answer is a full report
  id |-> 0,                   \* its result id
  items |-> NoItems,          \* `cached`, then what the report says
  availability |-> "none"]

Init ==
  /\ version = 0
  /\ told = 0
  /\ refused = {}
  /\ torn = {}
  /\ view = 0
  /\ analysis \in [Versions -> Items]
  /\ registered \in {FALSE, Pulls}
  /\ results = <<>>
  /\ pull = NoPull
  /\ push = NoPush
  /\ query = [q \in Queries |-> Fresh]
  /\ published = <<>>
  /\ crossed = FALSE

At(q, pc) == query[q].pc = pc
Goto(q, pc) == query' = [query EXCEPT ![q].pc = pc]

\* The versions the server has been told of; 0 when it has no document.
Announced == (0..version) \ refused

\* What a server may find when version v is the last it was told of.
Findings(v) == IF v = 0 \/ v \in torn THEN Items ELSE {analysis[v]}

-----------------------------------------------------------------------------
(* The server                                                              *)

\* It reads the next didOpen or didChange that was queued.
ServerReads ==
  /\ \E v \in Announced :
       /\ v > view
       /\ \A n \in Announced : n > view => v <= n
       /\ view' = v
  /\ UNCHANGED <<documents, analysis, registered, results, cache, query,
                 history>>

\* client/registerCapability and client/unregisterCapability.
Registration ==
  /\ Pulls
  /\ registered' = ~registered
  /\ UNCHANGED <<documents, view, analysis, results, cache, query, history>>

\* A server that knows no result of this call's previousResultId, or finds
\* something else now, sends a full report, with or without a result id.
AnswerFull(q) ==
  /\ At(q, "waiting")
  /\ view >= query[q].least
  /\ \E id \in {0, Len(results) + 1}, items \in Findings(view) :
       /\ id <= MaxResults
       /\ results' = IF id = 0 THEN results ELSE Append(results, items)
       /\ query' = [query EXCEPT ![q].pc = "answered", ![q].full = TRUE,
                                 ![q].items = items, ![q].id = id]
  /\ UNCHANGED <<documents, view, analysis, registered, cache, history>>

\* Otherwise it may say that nothing changed.
AnswerUnchanged(q) ==
  /\ At(q, "waiting")
  /\ view >= query[q].least
  /\ query[q].previous # 0
  /\ results[query[q].previous] \in Findings(view)
  /\ query' = [query EXCEPT ![q].pc = "answered", ![q].full = FALSE,
                            ![q].id = query[q].previous]
  /\ UNCHANGED <<documents, server, cache, history>>

\* The mutant that keeps the first of two reports for one version.
ReplacesOlder(cached, incoming) ==
  cached = NoPush \/ incoming.version > cached.version

\* DiagnosticCache::record_push, a report without a version having version 0.
Replaces(cached, incoming) == incoming.version >= cached.version

\* Reports come late and out of order, several for one version, or with none.
Publish(v, items) ==
  /\ v \in Announced
  /\ v <= view
  /\ Len(published) < MaxPublished
  /\ LET report == [version |-> v, items |-> items]
     IN /\ push' = IF Replaces(push, report) THEN report ELSE push
        /\ published' = Append(published, report)
  /\ UNCHANGED <<documents, server, pull, query, crossed>>

-----------------------------------------------------------------------------
(* document_diagnostics_with_cancellation                                  *)

\* The provider is looked up before the document is synchronized.
Begin(q) ==
  /\ At(q, "idle")
  /\ query' = [query EXCEPT ![q].pc = "synchronizing",
                            ![q].pulls = registered]
  /\ UNCHANGED <<documents, server, cache, history>>

\* What synchronize_document makes of the version: the text on disk is new to
\* the store, has changed, or has not.
NextVersions ==
  (IF version = 0 THEN {} ELSE {version})
    \cup (IF version < MaxVersions THEN {version + 1} ELSE {})

\* An incremental didChange replaces the text of the version before it: a
\* server that does not have that text may end up with another one.
Tears(v) ==
  IF v # version /\ version \in refused \cup torn
    THEN {torn, torn \cup {v}} ELSE {torn}

\* The mutant that announces the document once and its changes never.
SynchronizeUntold(q) ==
  /\ At(q, "synchronizing")
  /\ \E v \in NextVersions :
       /\ version' = v
       /\ told' = IF told = 0 THEN v ELSE told
       /\ torn' \in Tears(v)
       /\ query' = [query EXCEPT
            ![q].version = v,
            ![q].pc = IF query[q].pulls THEN "choosing" ELSE "looking"]
  /\ UNCHANGED <<refused, server, cache, history>>

\* An unchanged text is not announced, whether or not its version ever was.
Synchronize(q) ==
  /\ At(q, "synchronizing")
  /\ \E v \in NextVersions :
       /\ version' = v
       /\ told' = IF v = version THEN told ELSE v
       /\ torn' \in Tears(v)
       /\ query' = [query EXCEPT
            ![q].version = v,
            ![q].pc = IF query[q].pulls THEN "choosing" ELSE "looking"]
  /\ UNCHANGED <<refused, server, cache, history>>

\* OutboundQueueFull, or a didChange whose range cannot be expressed: the call
\* fails, and the store keeps the version that was not announced.
SynchronizeRefused(q) ==
  /\ At(q, "synchronizing")
  /\ version < MaxVersions
  /\ Cardinality(refused) < MaxRefused
  /\ version' = version + 1
  /\ refused' = refused \cup {version + 1}
  /\ query' = [query EXCEPT ![q] = Fresh]
  /\ UNCHANGED <<told, torn, server, cache, history>>

-----------------------------------------------------------------------------
(* pull_diagnostics                                                        *)

\* The previous result id is read under the mutex, which is released at once.
Choose(q) ==
  /\ At(q, "choosing")
  /\ query' = [query EXCEPT ![q].pc = "sending", ![q].previous = pull.id]
  /\ UNCHANGED <<documents, server, cache, history>>

Send(q) ==
  /\ At(q, "sending")
  /\ query' = [query EXCEPT ![q].pc = "waiting", ![q].least = told]
  /\ UNCHANGED <<documents, server, cache, history>>

\* The mutant that prefers what it has cached to the answer.
DecodeCached(q) ==
  /\ At(q, "answered")
  /\ query' = [query EXCEPT
       ![q].pc = "storing",
       ![q].items = IF pull = NoPull THEN @ ELSE pull.items]
  /\ crossed' = (crossed \/ (~query[q].full /\ pull.id # query[q].previous))
  /\ UNCHANGED <<documents, server, cache, published>>

\* An unchanged report takes the items that are in the cache by now.
Decode(q) ==
  /\ At(q, "answered")
  /\ query' = [query EXCEPT
       ![q].pc = "storing",
       ![q].items = IF query[q].full THEN @ ELSE pull.items]
  /\ crossed' = (crossed \/ (~query[q].full /\ pull.id # query[q].previous))
  /\ UNCHANGED <<documents, server, cache, published>>

\* The mutant that keeps the last result id when an answer has none.
StoreKeepingId(q) ==
  /\ At(q, "storing")
  /\ pull' = [id |-> IF query[q].id = 0 THEN pull.id ELSE query[q].id,
              items |-> query[q].items]
  /\ query' = [query EXCEPT ![q].pc = "done", ![q].availability = "current"]
  /\ UNCHANGED <<documents, server, push, history>>

Store(q) ==
  /\ At(q, "storing")
  /\ pull' = [id |-> query[q].id, items |-> query[q].items]
  /\ query' = [query EXCEPT ![q].pc = "done", ![q].availability = "current"]
  /\ UNCHANGED <<documents, server, push, history>>

-----------------------------------------------------------------------------
(* push_diagnostics, and how a call ends                                   *)

Availability(v) ==
  CASE push = NoPush -> "unavailable"
    [] push # NoPush /\ push.version = v -> "current"
    [] OTHER -> "stale"

Look(q) ==
  /\ At(q, "looking")
  /\ query' = [query EXCEPT
       ![q].pc = "done",
       ![q].items = push.items,
       ![q].availability = Availability(query[q].version)]
  /\ UNCHANGED <<documents, server, cache, history>>

\* The file cannot be read, the request fails, the answer is none, or a range
\* of the report does not fit the text: an error that leaves the document and
\* the caches as they are.
Fail(q) ==
  /\ query[q].pc \in {"synchronizing", "sending", "waiting", "answered",
                      "storing", "looking"}
  /\ query' = [query EXCEPT ![q] = Fresh]
  /\ UNCHANGED <<documents, server, cache, history>>

End(q) ==
  /\ At(q, "done")
  /\ query' = [query EXCEPT ![q] = Fresh]
  /\ UNCHANGED <<documents, server, cache, history>>

-----------------------------------------------------------------------------
Pull(q) == Choose(q) \/ Send(q) \/ Decode(q) \/ Store(q)
Call(q) ==
  \/ Begin(q) \/ Synchronize(q) \/ SynchronizeRefused(q)
  \/ Pull(q) \/ Look(q) \/ Fail(q) \/ End(q)
Server ==
  \/ ServerReads \/ Registration
  \/ \E q \in Queries : AnswerFull(q) \/ AnswerUnchanged(q)
  \/ \E v \in 0..MaxVersions, items \in Items : Publish(v, items)

Next == Server \/ \E q \in Queries : Call(q)

Spec == Init /\ [][Next]_vars

-----------------------------------------------------------------------------
(* Properties                                                              *)

\* Shape of the state; each version was announced or refused, told is the
\* last one announced, and a previous result id is one the server issued.
TypeOK ==
  /\ version \in 0..MaxVersions
  /\ refused \subseteq 1..version
  /\ torn \subseteq 1..version
  /\ told \in Announced /\ \A n \in Announced : n <= told
  /\ view \in Announced
  /\ analysis \in [Versions -> Items]
  /\ registered \in BOOLEAN
  /\ results \in Seq(Items)
  /\ pull \in [id : 0..Len(results), items : Items \cup {NoItems}]
  /\ push \in [version : 0..view, items : Items \cup {NoItems}]
  /\ query \in [Queries -> [
       pc : PCs, pulls : BOOLEAN, version : 0..version,
       previous : 0..Len(results), least : 0..version, full : BOOLEAN,
       id : 0..Len(results), items : Items \cup {NoItems},
       availability : Availabilities]]
  /\ crossed \in BOOLEAN

\* The items are what the server finds in a version that is no older than any
\* it was told of up to n: in n itself, or in a later one, if the notification
\* of n was not refused.
TimelyFor(n, items) ==
  \E v \in Announced :
    /\ \A m \in Announced : m <= n => m <= v
    /\ items \in Findings(v)
Timely(q) == TimelyFor(query[q].version, query[q].items)

PulledReport(q) ==
  At(q, "done") /\ query[q].pulls /\ query[q].availability = "current"

\* A full report is never older than the last version announced up to the one
\* it is presented for, whatever other calls and registrations do meanwhile:
\* only a refused notification makes a full report of an older text current.
FullReportsAreTimely ==
  \A q \in Queries : PulledReport(q) /\ query[q].full => Timely(q)

\* As long as no unchanged report met the items of another call's result, the
\* cache holds the items of its result id, and the same is true of every
\* pulled report: it takes a crossing or a refused notification to present
\* one of an older text as current.
TimelyUnlessCrossed ==
  ~crossed =>
    /\ pull.id # 0 => results[pull.id] = pull.items
    /\ \A q \in Queries : PulledReport(q) => Timely(q)

\* A pushed report presented as current is the last one that arrived for the
\* version it names, and it is unavailable only if none ever arrived: late
\* and versionless reports do not hide a newer one.
PushedReportsAreNewest ==
  [][\A q \in Queries : At(q, "looking") /\ query'[q].pc = "done" =>
       LET report == [version |-> query[q].version,
                      items |-> query'[q].items]
           mine == {k \in 1..Len(published) :
                      published[k].version = query[q].version}
       IN CASE query'[q].availability = "current" ->
                 \E k \in mine :
                   published[k] = report /\ \A j \in mine : j <= k
            [] query'[q].availability = "stale" ->
                 \/ mine = {}
                 \/ \E k \in 1..Len(published) :
                      published[k].version > query[q].version
            [] OTHER -> published = <<>>]_vars

\* What DESIGN.md says: stale reports are never presented as current.
StaleNeverCurrent ==
  \A q \in Queries : PulledReport(q) =>
    \E v \in query[q].version..version : analysis[v] = query[q].items
=============================================================================
