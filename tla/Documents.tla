----------------------------- MODULE Documents ------------------------------
(***************************************************************************)
(* The documents of one server generation: DocumentStore of                *)
(* src/src/documents.rs and its callers in src/src/lsp.rs, which read the  *)
(* disk, synchronize the server, send a query, validate the document       *)
(* before a retry, and close every document at shutdown.                   *)
(*                                                                         *)
(* The `documents` mutex is held from the read of the file to the queueing *)
(* of the notification, and from the validation of a retry to its queueing.*)
(* Permits, ids, deadlines and cancellation of a request are in Requests.  *)
(***************************************************************************)
EXTENDS Naturals, Sequences, FiniteSets

CONSTANTS
  Queries,     \* calls that query a file
  Closer,      \* RunningServer::shutdown
  Nobody,
  Files,
  Texts,       \* contents a file may have
  OpenClose,   \* the server wants didOpen and didClose
  Capacity,    \* limits.outbound_queue_capacity
  MaxRetries,  \* MAX_REQUEST_RETRIES
  MaxEdits     \* bound of the edits made outside Deixis

ASSUME DocumentsAssumption ==
  /\ Closer \notin Queries
  /\ Nobody \notin Queries \cup {Closer}
  /\ Files # {}
  /\ OpenClose \in BOOLEAN
  /\ Capacity \in Nat \ {0}
  /\ MaxRetries \in Nat
  /\ MaxEdits \in Nat

\* A document as the store and the server know it; edition, a history field,
\* is the number of the edit that wrote the text that was read.
Untracked == [version |-> 0]
Document(v, t, e) == [version |-> v, text |-> t, edition |-> e]
Same(d, e) ==
  IF d = Untracked \/ e = Untracked THEN d = e
  ELSE d.version = e.version /\ d.text = e.text

VARIABLES
  disk,      \* each file's text, and the number of the edit that wrote it
  edits,     \* edits made so far
  store,     \* DocumentStore.documents
  closed,    \* DocumentStore.closed
  lock,      \* who holds the documents mutex
  queue,     \* the outbound channel
  view,      \* what the server has open
  closing,   \* files of the documents taken by close_all, still to announce
  query,     \* each query's file, snapshot and progress
  lost       \* history: files with a notification that found no room

vars == <<disk, edits, store, closed, lock, queue, view, closing, query,
          lost>>

PCs == {"idle", "locking", "reading", "updating", "notifying", "sending",
        "waiting", "relocking", "validating", "resending", "done", "failed"}

Init ==
  /\ disk \in [Files -> [text : Texts, edition : {0}]]
  /\ edits = 0
  /\ store = [f \in Files |-> Untracked]
  /\ closed = FALSE
  /\ lock = Nobody
  /\ queue = <<>>
  /\ view = [f \in Files |-> Untracked]
  /\ closing = {}
  /\ lost = {}
  /\ query = [q \in Queries |->
       [pc |-> "idle", file |-> CHOOSE f \in Files : TRUE, read |-> <<>>,
        document |-> Untracked, notice |-> "none", attempt |-> 0]]

At(q, pc) == query[q].pc = pc
Goto(q, pc) == query' = [query EXCEPT ![q].pc = pc]
Room == Len(queue) < Capacity

Message(kind, f, d, q) ==
  [kind |-> kind, file |-> f, document |-> d, query |-> q]

-----------------------------------------------------------------------------
(* Other programs edit files; the server reads its input in order.         *)

Edit(f, t) ==
  /\ edits < MaxEdits
  /\ t # disk[f].text
  /\ edits' = edits + 1
  /\ disk' = [disk EXCEPT ![f] = [text |-> t, edition |-> edits + 1]]
  /\ UNCHANGED <<store, closed, lock, queue, view, closing, query, lost>>

\* A query is answered from the document the server has open at that moment,
\* with a final result, or with one that Deixis retries.
ServerReads ==
  /\ queue # <<>>
  /\ queue' = Tail(queue)
  /\ LET m == Head(queue) IN
     CASE m.kind \in {"didOpen", "didChange"} ->
            /\ view' = [view EXCEPT ![m.file] = m.document]
            /\ UNCHANGED query
       [] m.kind = "didClose" ->
            /\ view' = [view EXCEPT ![m.file] = Untracked]
            /\ UNCHANGED query
       [] m.kind = "query" ->
            /\ UNCHANGED view
            /\ \/ Goto(m.query, "done")
               \/ /\ query[m.query].attempt < MaxRetries
                  /\ Goto(m.query, "relocking")
  /\ UNCHANGED <<disk, edits, store, closed, lock, closing, lost>>

-----------------------------------------------------------------------------
(* synchronize_document_with_snapshot                                      *)

Begin(q, f) ==
  /\ At(q, "idle")
  /\ query' = [query EXCEPT ![q].pc = "locking", ![q].file = f]
  /\ UNCHANGED <<disk, edits, store, closed, lock, queue, view, closing,
                 lost>>

Lock(q) ==
  /\ At(q, "locking")
  /\ lock = Nobody
  /\ lock' = q
  /\ Goto(q, "reading")
  /\ UNCHANGED <<disk, edits, store, closed, queue, view, closing, lost>>

\* The mutant that reads the file before it takes the lock.
ReadBeforeLock(q) ==
  \/ /\ At(q, "locking")
     /\ query[q].read = <<>>
     /\ query' = [query EXCEPT ![q].read = <<disk[query[q].file]>>]
     /\ UNCHANGED <<disk, edits, store, closed, lock, queue, view, closing,
                    lost>>
  \/ /\ At(q, "reading")
     /\ query[q].read # <<>>
     /\ Goto(q, "updating")
     /\ UNCHANGED <<disk, edits, store, closed, lock, queue, view, closing,
                    lost>>

Read(q) ==
  /\ At(q, "reading")
  /\ query' = [query EXCEPT ![q].pc = "updating",
                            ![q].read = <<disk[query[q].file]>>]
  /\ UNCHANGED <<disk, edits, store, closed, lock, queue, view, closing,
                 lost>>

\* The file is gone or is not UTF-8.
ReadFails(q) ==
  /\ At(q, "reading")
  /\ lock' = Nobody
  /\ Goto(q, "failed")
  /\ UNCHANGED <<disk, edits, store, closed, queue, view, closing, lost>>

\* DocumentStore::synchronize of the text read: what the document becomes.
Synchronized(tracked, read) ==
  CASE tracked = Untracked -> Document(1, read.text, read.edition)
    [] tracked # Untracked /\ tracked.text = read.text ->
         Document(tracked.version, read.text, read.edition)
    [] OTHER -> Document(tracked.version + 1, read.text, read.edition)

Notice(tracked, document) ==
  CASE tracked = Untracked -> IF OpenClose THEN "didOpen" ELSE "none"
    [] tracked # Untracked /\ tracked.version = document.version -> "none"
    [] OTHER -> "didChange"

\* The mutant that releases the lock before the notification is queued.
UpdateUnlocked(q) ==
  LET f == query[q].file
      document == Synchronized(store[f], query[q].read[1])
  IN /\ At(q, "updating")
     /\ lock' = Nobody
     /\ ~closed
     /\ store' = [store EXCEPT ![f] = document]
     /\ query' = [query EXCEPT ![q].pc = "notifying",
                               ![q].document = document,
                               ![q].notice = Notice(store[f], document)]
     /\ UNCHANGED <<disk, edits, closed, queue, view, closing, lost>>

\* The mutant that does not know that the store was closed.
UpdateClosed(q) ==
  LET f == query[q].file
      document == Synchronized(store[f], query[q].read[1])
  IN /\ At(q, "updating")
     /\ store' = [store EXCEPT ![f] = document]
     /\ query' = [query EXCEPT ![q].pc = "notifying",
                               ![q].document = document,
                               ![q].notice = Notice(store[f], document)]
     /\ UNCHANGED <<disk, edits, closed, lock, queue, view, closing, lost>>

Update(q) ==
  LET f == query[q].file
      document == Synchronized(store[f], query[q].read[1])
  IN /\ At(q, "updating")
     /\ ~closed
     /\ store' = [store EXCEPT ![f] = document]
     /\ query' = [query EXCEPT ![q].pc = "notifying",
                               ![q].document = document,
                               ![q].notice = Notice(store[f], document)]
     /\ UNCHANGED <<disk, edits, closed, lock, queue, view, closing, lost>>

UpdateRefused(q) ==
  /\ At(q, "updating")
  /\ closed
  /\ lock' = Nobody
  /\ Goto(q, "failed")
  /\ UNCHANGED <<disk, edits, store, closed, queue, view, closing, lost>>

\* try_send, still under the lock.
Notify(q) ==
  /\ At(q, "notifying")
  /\ IF query[q].notice = "none" THEN UNCHANGED queue
     ELSE /\ Room
          /\ queue' = Append(queue, Message(query[q].notice, query[q].file,
                                            query[q].document, q))
  /\ lock' = Nobody
  /\ Goto(q, "sending")
  /\ UNCHANGED <<disk, edits, store, closed, view, closing, lost>>

\* OutboundQueueFull: the call fails, the store keeps the new document.
NotifyFails(q) ==
  /\ At(q, "notifying")
  /\ query[q].notice # "none"
  /\ ~Room
  /\ lock' = Nobody
  /\ lost' = lost \cup {query[q].file}
  /\ Goto(q, "failed")
  /\ UNCHANGED <<disk, edits, store, closed, queue, view, closing>>

-----------------------------------------------------------------------------
(* The query, and its retry with a validated document                      *)

QueryMessage(q) == Message("query", query[q].file, query[q].document, q)

\* The first attempt takes no lock: another query may have synchronized since.
Send(q) ==
  /\ At(q, "sending")
  /\ IF Room
       THEN queue' = Append(queue, QueryMessage(q)) /\ Goto(q, "waiting")
       ELSE Goto(q, "failed") /\ UNCHANGED queue
  /\ UNCHANGED <<disk, edits, store, closed, lock, view, closing, lost>>

Relock(q) ==
  /\ At(q, "relocking")
  /\ lock = Nobody
  /\ lock' = q
  /\ query' = [query EXCEPT ![q].pc = "validating", ![q].attempt = @ + 1]
  /\ UNCHANGED <<disk, edits, store, closed, queue, view, closing, lost>>

\* DocumentStore::matches, then the canonical path and the text on disk.
Matches(q) ==
  /\ ~closed
  /\ Same(store[query[q].file], query[q].document)
  /\ disk[query[q].file].text = query[q].document.text

\* The mutant that checks the disk and not the store.
ValidateDisk(q) ==
  /\ At(q, "validating")
  /\ IF disk[query[q].file].text = query[q].document.text
       THEN Goto(q, "resending") /\ UNCHANGED lock
       ELSE Goto(q, "failed") /\ lock' = Nobody
  /\ UNCHANGED <<disk, edits, store, closed, queue, view, closing, lost>>

\* The mutant that holds the lock for the validation only.
ValidateUnlocked(q) ==
  /\ At(q, "validating")
  /\ lock' = Nobody
  /\ Goto(q, IF Matches(q) THEN "resending" ELSE "failed")
  /\ UNCHANGED <<disk, edits, store, closed, queue, view, closing, lost>>

Validate(q) ==
  /\ At(q, "validating")
  /\ IF Matches(q)
       THEN Goto(q, "resending") /\ UNCHANGED lock
       ELSE Goto(q, "failed") /\ lock' = Nobody
  /\ UNCHANGED <<disk, edits, store, closed, queue, view, closing, lost>>

Resend(q) ==
  /\ At(q, "resending")
  /\ IF Room
       THEN queue' = Append(queue, QueryMessage(q)) /\ Goto(q, "waiting")
       ELSE Goto(q, "failed") /\ UNCHANGED queue
  /\ lock' = Nobody
  /\ UNCHANGED <<disk, edits, store, closed, view, closing, lost>>

-----------------------------------------------------------------------------
(* close_documents                                                         *)

\* close_all, under the lock; the notifications follow without it.
Close ==
  /\ lock = Nobody
  /\ ~closed
  /\ closed' = TRUE
  /\ closing' = {f \in Files : OpenClose /\ store[f] # Untracked}
  /\ store' = [f \in Files |-> Untracked]
  /\ UNCHANGED <<disk, edits, lock, queue, view, query, lost>>

\* The first didClose without room gives up on the rest; a forced stop follows.
AnnounceClose(f) ==
  /\ f \in closing
  /\ IF Room
       THEN /\ queue' = Append(queue,
                               Message("didClose", f, Untracked, Closer))
            /\ closing' = closing \ {f}
       ELSE closing' = {} /\ UNCHANGED queue
  /\ UNCHANGED <<disk, edits, store, closed, lock, view, query, lost>>

-----------------------------------------------------------------------------
Next ==
  \/ \E f \in Files, t \in Texts : Edit(f, t)
  \/ ServerReads
  \/ \E q \in Queries :
       \/ \E f \in Files : Begin(q, f)
       \/ Lock(q) \/ Read(q) \/ ReadFails(q) \/ Update(q) \/ UpdateRefused(q)
       \/ Notify(q) \/ NotifyFails(q)
       \/ Send(q) \/ Relock(q) \/ Validate(q) \/ Resend(q)
  \/ Close
  \/ \E f \in Files : AnnounceClose(f)

Spec == Init /\ [][Next]_vars

-----------------------------------------------------------------------------
(* Properties                                                              *)

TrackedDocuments ==
  [version : 1..(MaxEdits + 1), text : Texts, edition : 0..MaxEdits]
Documents == TrackedDocuments \cup {Untracked}
LockedPCs == {"reading", "updating", "notifying", "validating", "resending"}

\* Shape of the state, and the lock is held where the code holds its guard.
TypeOK ==
  /\ disk \in [Files -> [text : Texts, edition : 0..MaxEdits]]
  /\ edits \in 0..MaxEdits
  /\ store \in [Files -> Documents]
  /\ closed \in BOOLEAN
  /\ lock \in Queries \cup {Nobody}
  /\ \A q \in Queries : query[q].pc \in LockedPCs <=> lock = q
  /\ Len(queue) <= Capacity
  /\ view \in [Files -> Documents]
  /\ closing \subseteq Files
  /\ \A q \in Queries :
       /\ query[q].pc \in PCs
       /\ query[q].file \in Files
       /\ query[q].document \in Documents
       /\ query[q].notice \in {"none", "didOpen", "didChange"}
       /\ query[q].attempt \in 0..MaxRetries

DocumentKinds == {"didOpen", "didChange", "didClose"}

\* What the server has open once it has read the first n messages.
ViewAfter(f, n) ==
  LET told == {k \in 1..n : /\ queue[k].file = f
                            /\ queue[k].kind \in DocumentKinds}
  IN IF told = {} THEN view[f]
     ELSE queue[CHOOSE k \in told : \A j \in told : j <= k].document

\* When nobody is in the middle of a synchronization the server has, or is
\* about to read, exactly the documents the store says it has, except where a
\* notification was refused: no query's notification overtakes another's.
ServerFollowsStore ==
  (lock = Nobody /\ ~closed) =>
    \A f \in Files \ lost : Same(ViewAfter(f, Len(queue)), store[f])

\* Each document's notifications form a well-formed stream: opened once, each
\* change one version on, closed if it was open.  Shutdown's didClose is the
\* last word about any document: a query that synchronizes while documents are
\* being closed cannot open one again.
StreamWellFormed ==
  \A k \in 1..Len(queue) :
    LET m == queue[k]
        before == ViewAfter(m.file, k - 1)
    IN /\ m.file \notin lost =>
            /\ m.kind = "didOpen" => before = Untracked
                                       /\ m.document.version = 1
            /\ m.kind = "didChange" =>
                 before # Untracked /\ m.document.version = before.version + 1
            /\ m.kind = "didClose" => before # Untracked
       /\ m.kind = "didClose" =>
            \A j \in k..Len(queue) :
              queue[j].kind \notin {"didOpen", "didChange"}

\* A query is evaluated against its document or a later version of it, until
\* the documents are closed, and a retry against the very document its
\* positions refer to, whatever other queries synchronize while it is on its
\* way or waits for its turn (the first attempt takes no lock).
QueriesSeeTheirDocument ==
  \A k \in 1..Len(queue) :
    LET m == queue[k]
        seen == ViewAfter(m.file, k - 1)
    IN m.kind = "query" /\ m.file \notin lost =>
         /\ seen = Untracked => closed /\ query[m.query].attempt = 0
         /\ seen # Untracked => m.document.version <= seen.version
         /\ query[m.query].attempt > 0 => Same(seen, m.document)

\* Synchronizations never go back in time: however queries and edits
\* interleave, a text read earlier never replaces one read later.
NeverSyncsBackwards ==
  [][\A f \in Files :
       store[f] # Untracked /\ store'[f] # Untracked
         => store'[f].edition >= store[f].edition]_vars

\* No query about a document that the server was never told to open.
QueriesFollowOpen ==
  \A k \in 1..Len(queue) :
    LET m == queue[k] IN
    m.kind = "query" /\ ~closed => ViewAfter(m.file, k - 1) # Untracked
=============================================================================
