--------------------------- MODULE DocumentsProofs --------------------------
(***************************************************************************)
(* Proofs about Documents, for every set of queries, files and texts, and  *)
(* every capacity and bound: types and editions first, then the stream of  *)
(* messages, that is what the server will have open when it has read the   *)
(* queue, and what a query meets there.                                    *)
(***************************************************************************)
EXTENDS Documents, TLAPS, WellFoundedInduction

-----------------------------------------------------------------------------
(* The inductive invariant: types and editions                             *)

Reads == [text : Texts, edition : 0..MaxEdits]
Calls == [pc : PCs, file : Files, read : Seq(Reads), document : Documents,
          notice : {"none", "didOpen", "didChange"},
          attempt : 0..MaxRetries]
Messages == [kind : DocumentKinds \cup {"query"}, file : Files,
             document : Documents, query : Queries \cup {Closer}]

\* TypeOK, but for the calls and who holds the lock.
SharedOK ==
  /\ disk \in [Files -> Reads]
  /\ edits \in 0..MaxEdits
  /\ store \in [Files -> Documents]
  /\ closed \in BOOLEAN
  /\ lock \in Queries \cup {Nobody}
  /\ queue \in Seq(Messages)
  /\ Len(queue) <= Capacity
  /\ view \in [Files -> Documents]
  /\ closing \in SUBSET Files
CallsOK ==
  /\ query \in [Queries -> Calls]
  /\ \A q \in Queries : At(q, "updating") => query[q].read # <<>>
  /\ \A q \in Queries : At(q, "relocking") => query[q].attempt < MaxRetries
LockInv == \A q \in Queries : query[q].pc \in LockedPCs <=> lock = q

\* One text of a file was there before another, or they are the same.
Older(a, b) ==
  /\ a.edition <= b.edition
  /\ a.edition = b.edition => a.text = b.text

\* A text is in the store after it was on the disk, and a query that holds the
\* lock has read one that is no older than the one in the store.
EditionInv ==
  /\ \A f \in Files :
       /\ disk[f].edition <= edits
       /\ store[f] # Untracked =>
            /\ store[f].version <= store[f].edition + 1
            /\ Older(store[f], disk[f])
  /\ \A q \in Queries : At(q, "updating") =>
       LET r == query[q].read[1]
           f == query[q].file
       IN /\ Older(r, disk[f])
          /\ store[f] # Untracked => Older(store[f], r)

\* A query in the queue is that of a call that waits, and its only one.
CallWaits(m) ==
  /\ m.query \in Queries
  /\ At(m.query, "waiting")
  /\ m.file = query[m.query].file
  /\ m.document = query[m.query].document
WaitInv ==
  /\ \A k \in 1..Len(queue) :
       queue[k].kind = "query" => CallWaits(queue[k])
  /\ \A j, k \in 1..Len(queue) :
       /\ queue[j].kind = "query" /\ queue[k].kind = "query"
       /\ queue[j].query = queue[k].query
       => j = k

TInv == SharedOK /\ CallsOK /\ LockInv /\ EditionInv /\ WaitInv

-----------------------------------------------------------------------------
(* Documents                                                               *)

LEMMA UntrackedIsNoDocument ==
  /\ Untracked \notin TrackedDocuments
  /\ Untracked \in Documents
<1>1. Untracked.version = 0
  BY DEF Untracked
<1>2. \A d \in TrackedDocuments : d.version # 0
  BY DocumentsAssumption DEF TrackedDocuments
<1> QED
  BY <1>1, <1>2 DEF Documents

\* What a synchronization makes of a document.
LEMMA SynchronizedDocument ==
  ASSUME NEW tracked \in Documents, NEW read \in Reads,
         tracked # Untracked =>
           /\ tracked.version <= tracked.edition + 1
           /\ Older(tracked, read)
  PROVE  LET d == Synchronized(tracked, read)
         IN /\ d \in TrackedDocuments
            /\ d # Untracked
            /\ d.text = read.text
            /\ d.edition = read.edition
            /\ d.version <= d.edition + 1
            /\ tracked = Untracked => d.version = 1
            /\ tracked # Untracked =>
                 \/ d.version = tracked.version /\ d.text = tracked.text
                 \/ d.version = tracked.version + 1
<1> USE DocumentsAssumption
<1>1. CASE tracked = Untracked
  <2>1. Synchronized(tracked, read) = Document(1, read.text, read.edition)
    BY <1>1 DEF Synchronized
  <2> QED
    BY <1>1, <2>1, UntrackedIsNoDocument
       DEF Document, TrackedDocuments, Reads
<1>2. CASE tracked # Untracked
  <2>1. tracked \in TrackedDocuments
    BY <1>2 DEF Documents
  <2>2. CASE tracked.text = read.text
    <3>1. Synchronized(tracked, read)
            = Document(tracked.version, read.text, read.edition)
      BY <1>2, <2>2 DEF Synchronized
    <3> QED
      BY <1>2, <2>1, <2>2, <3>1, UntrackedIsNoDocument
         DEF Document, TrackedDocuments, Reads, Older
  <2>3. CASE tracked.text # read.text
    <3>1. Synchronized(tracked, read)
            = Document(tracked.version + 1, read.text, read.edition)
      BY <1>2, <2>3 DEF Synchronized
    <3> QED
      BY <1>2, <2>1, <2>3, <3>1, UntrackedIsNoDocument
         DEF Document, TrackedDocuments, Reads, Older
  <2> QED
    BY <2>2, <2>3
<1> QED
  BY <1>1, <1>2

-----------------------------------------------------------------------------
(* Types                                                                   *)

LEMMA MessageOK ==
  ASSUME NEW kind \in DocumentKinds \cup {"query"}, NEW f \in Files,
         NEW d \in Documents, NEW q \in Queries \cup {Closer}
  PROVE  Message(kind, f, d, q) \in Messages
  BY DEF Message, Messages

LEMMA AppendOK ==
  ASSUME SharedOK, Room, NEW m \in Messages
  PROVE  /\ Append(queue, m) \in Seq(Messages)
         /\ Len(Append(queue, m)) <= Capacity
  BY DocumentsAssumption DEF SharedOK, Room

LEMMA HeadOK ==
  ASSUME SharedOK, queue # <<>>
  PROVE  /\ Head(queue) \in Messages
         /\ Tail(queue) \in Seq(Messages)
         /\ Len(Tail(queue)) <= Capacity
  BY DocumentsAssumption DEF SharedOK

LEMMA SharedStep ==
  SharedOK /\ CallsOK /\ EditionInv /\ [Next]_vars => SharedOK'
<1> USE DocumentsAssumption DEF Goto, At
<1> SUFFICES ASSUME SharedOK, CallsOK, EditionInv, [Next]_vars PROVE SharedOK'
  OBVIOUS
<1>1. ASSUME NEW f \in Files, NEW t \in Texts, Edit(f, t) PROVE SharedOK'
  BY <1>1, UntrackedIsNoDocument
     DEF SharedOK, CallsOK, Calls, Edit, Reads
<1>2. CASE ServerReads
  <2>1. queue # <<>> /\ queue' = Tail(queue)
    BY <1>2 DEF ServerReads
  <2> DEFINE m == Head(queue)
  <2>2. /\ m.kind \in DocumentKinds \cup {"query"}
        /\ m.file \in Files /\ m.document \in Documents
    BY <2>1, HeadOK DEF Messages
  <2>3. \/ view' = [view EXCEPT ![m.file] = m.document]
        \/ view' = [view EXCEPT ![m.file] = Untracked]
        \/ view' = view
    BY <1>2, <2>2 DEF ServerReads, DocumentKinds
  <2>4. view' \in [Files -> Documents]
    BY <2>2, <2>3, UntrackedIsNoDocument DEF SharedOK
  <2> QED
    BY <1>2, <2>1, <2>4, HeadOK DEF ServerReads, SharedOK
<1>3. ASSUME NEW q \in Queries, NEW f \in Files, Begin(q, f) PROVE SharedOK'
  BY <1>3, UntrackedIsNoDocument
     DEF SharedOK, CallsOK, Calls, Begin, Reads
<1>4. ASSUME NEW q \in Queries, Lock(q) PROVE SharedOK'
  BY <1>4, UntrackedIsNoDocument
     DEF SharedOK, CallsOK, Calls, Lock, Reads
<1>5. ASSUME NEW q \in Queries, Read(q) PROVE SharedOK'
  BY <1>5, UntrackedIsNoDocument
     DEF SharedOK, CallsOK, Calls, Read, Reads
<1>6. ASSUME NEW q \in Queries, ReadFails(q) PROVE SharedOK'
  BY <1>6, UntrackedIsNoDocument
     DEF SharedOK, CallsOK, Calls, ReadFails, Reads
<1>7. ASSUME NEW q \in Queries, Update(q) PROVE SharedOK'
  <2> DEFINE f == query[q].file
  <2>1. f \in Files /\ query[q].read[1] \in Reads
    BY <1>7 DEF Update, CallsOK, Calls
  <2>2. store[f] \in Documents
        /\ (store[f] # Untracked =>
              /\ store[f].version <= store[f].edition + 1
              /\ Older(store[f], query[q].read[1]))
    BY <1>7, <2>1 DEF Update, EditionInv, SharedOK
  <2>3. Synchronized(store[f], query[q].read[1]) \in Documents
    BY <2>1, <2>2, SynchronizedDocument DEF Documents
  <2> QED
    BY <1>7, <2>1, <2>3 DEF Update, SharedOK
<1>8. ASSUME NEW q \in Queries, UpdateRefused(q) PROVE SharedOK'
  BY <1>8, UntrackedIsNoDocument
     DEF SharedOK, CallsOK, Calls, UpdateRefused, Reads
<1>9. ASSUME NEW q \in Queries, Notify(q) PROVE SharedOK'
  <2> DEFINE m == Message(query[q].notice, query[q].file,
                          query[q].document, q)
  <2>1. query[q].notice # "none" => m \in Messages
    BY <1>9, MessageOK DEF CallsOK, Calls, QueryMessage, DocumentKinds
  <2>2. CASE queue' = queue
    BY <1>9, <2>2 DEF Notify, SharedOK
  <2>3. CASE queue' # queue
    <3>1. Room /\ queue' = Append(queue, m)
          /\ query[q].notice # "none"
      BY <1>9, <2>3 DEF Notify
    <3> QED
      BY <1>9, <2>1, <3>1, AppendOK DEF Notify, SharedOK
  <2> QED
    BY <2>2, <2>3
<1>10. ASSUME NEW q \in Queries, NotifyFails(q) PROVE SharedOK'
  BY <1>10, UntrackedIsNoDocument
     DEF SharedOK, CallsOK, Calls, NotifyFails, Reads
<1>11. ASSUME NEW q \in Queries, Send(q) PROVE SharedOK'
  <2>1. QueryMessage(q) \in Messages
    BY <1>11, MessageOK DEF CallsOK, Calls, QueryMessage, DocumentKinds
  <2>2. CASE queue' = queue
    BY <1>11, <2>2 DEF Send, SharedOK
  <2>3. CASE queue' # queue
    <3>1. Room /\ queue' = Append(queue, QueryMessage(q))
      BY <1>11, <2>3 DEF Send
    <3> QED
      BY <1>11, <2>1, <3>1, AppendOK DEF Send, SharedOK
  <2> QED
    BY <2>2, <2>3
<1>12. ASSUME NEW q \in Queries, Relock(q) PROVE SharedOK'
  BY <1>12, UntrackedIsNoDocument
     DEF SharedOK, CallsOK, Calls, Relock, Reads
<1>13. ASSUME NEW q \in Queries, Validate(q) PROVE SharedOK'
  BY <1>13, UntrackedIsNoDocument
     DEF SharedOK, CallsOK, Calls, Validate, Reads
<1>14. ASSUME NEW q \in Queries, Resend(q) PROVE SharedOK'
  <2>1. QueryMessage(q) \in Messages
    BY <1>14, MessageOK DEF CallsOK, Calls, QueryMessage, DocumentKinds
  <2>2. CASE queue' = queue
    BY <1>14, <2>2 DEF Resend, SharedOK
  <2>3. CASE queue' # queue
    <3>1. Room /\ queue' = Append(queue, QueryMessage(q))
      BY <1>14, <2>3 DEF Resend
    <3> QED
      BY <1>14, <2>1, <3>1, AppendOK DEF Resend, SharedOK
  <2> QED
    BY <2>2, <2>3
<1>15. CASE Close
  BY <1>15, UntrackedIsNoDocument
     DEF SharedOK, CallsOK, Calls, Close, Reads
<1>16. ASSUME NEW f \in Files, AnnounceClose(f) PROVE SharedOK'
  <2>1. Message("didClose", f, Untracked, Closer) \in Messages
    BY UntrackedIsNoDocument, MessageOK DEF DocumentKinds
  <2>2. CASE Room
    BY <1>16, <2>1, <2>2, AppendOK DEF AnnounceClose, SharedOK
  <2>3. CASE ~Room
    BY <1>16, <2>3 DEF AnnounceClose, SharedOK
  <2> QED
    BY <2>2, <2>3
<1>17. CASE UNCHANGED vars
  BY <1>17, UntrackedIsNoDocument
     DEF SharedOK, CallsOK, Calls, vars, Reads
<1> QED
  BY <1>1, <1>2, <1>3, <1>4, <1>5, <1>6, <1>7, <1>8, <1>9, <1>10, <1>11,
     <1>12, <1>13, <1>14, <1>15, <1>16, <1>17 DEF Next

LEMMA OneCall ==
  ASSUME CallsOK, NEW q \in Queries, NEW r \in Calls,
         query' = [query EXCEPT ![q] = r],
         r.pc = "updating" => r.read # <<>>,
         r.pc = "relocking" => r.attempt < MaxRetries
  PROVE  CallsOK'
<1> USE DEF CallsOK, At
<1>1. query' \in [Queries -> Calls]
  OBVIOUS
<1>2. \A p \in Queries : query'[p] = IF p = q THEN r ELSE query[p]
  OBVIOUS
<1> HIDE DEF At
<1>3. \A p \in Queries : At(p, "updating")' => query'[p].read # <<>>
  BY <1>2 DEF At
<1>4. \A p \in Queries : At(p, "relocking")' => query'[p].attempt < MaxRetries
  BY <1>2 DEF At
<1> QED
  BY <1>1, <1>3, <1>4

LEMMA Moves ==
  ASSUME CallsOK, NEW q \in Queries,
         NEW pc \in PCs \ {"updating", "relocking"}, Goto(q, pc)
  PROVE  CallsOK'
<1> DEFINE r == [query[q] EXCEPT !.pc = pc]
<1>1. r \in Calls /\ r.pc = pc
  BY DEF CallsOK, Calls
<1>2. query' = [query EXCEPT ![q] = r]
  BY DEF Goto, CallsOK
<1> QED
  BY <1>1, <1>2, OneCall

LEMMA CallsStep ==
  SharedOK /\ CallsOK /\ EditionInv /\ WaitInv /\ [Next]_vars => CallsOK'
<1> USE DocumentsAssumption DEF PCs
<1> SUFFICES ASSUME SharedOK, CallsOK, EditionInv, WaitInv, [Next]_vars
             PROVE  CallsOK'
  OBVIOUS
<1>1. ASSUME NEW f \in Files, NEW t \in Texts, Edit(f, t) PROVE CallsOK'
  BY <1>1 DEF CallsOK, At, Edit
<1>2. CASE ServerReads
  <2> DEFINE m == Head(queue)
             r == [query[m.query] EXCEPT !.pc = "relocking"]
  <2>1. /\ m = queue[1] /\ 1 \in 1..Len(queue)
        /\ m.kind \in DocumentKinds \cup {"query"}
    BY <1>2, HeadOK DEF ServerReads, Messages, SharedOK
  <2>2. CASE m.kind # "query"
    <3>1. query' = query
      BY <1>2, <2>1, <2>2 DEF ServerReads, DocumentKinds
    <3> QED
      BY <3>1 DEF CallsOK, At
  <2>3. CASE m.kind = "query"
    <3>1. m.query \in Queries
      BY <2>1, <2>3 DEF WaitInv, CallWaits
    <3>2. \/ Goto(m.query, "done")
          \/ query[m.query].attempt < MaxRetries /\ Goto(m.query, "relocking")
      BY <1>2, <2>3 DEF ServerReads
    <3>3. CASE Goto(m.query, "done")
      BY <3>1, <3>3, Moves
    <3>4. CASE /\ query[m.query].attempt < MaxRetries
               /\ Goto(m.query, "relocking")
      <4>1. /\ r \in Calls /\ r.pc = "relocking" /\ r.attempt < MaxRetries
            /\ query' = [query EXCEPT ![m.query] = r]
        BY <3>1, <3>4 DEF CallsOK, Calls, Goto
      <4> QED
        BY <3>1, <4>1, OneCall
    <3> QED
      BY <3>2, <3>3, <3>4
  <2> QED
    BY <2>2, <2>3
<1>3. ASSUME NEW q \in Queries, NEW f \in Files, Begin(q, f) PROVE CallsOK'
  <2> DEFINE r == [query[q] EXCEPT !.pc = "locking", !.file = f]
  <2>1. /\ r \in Calls /\ r.pc = "locking"
        /\ query' = [query EXCEPT ![q] = r]
    BY <1>3, ZenonT(60) DEF Begin, CallsOK, Calls, At, SharedOK
  <2> QED
    BY <2>1, OneCall
<1>4. ASSUME NEW q \in Queries, Lock(q) PROVE CallsOK'
  BY <1>4, Moves DEF Lock
<1>5. ASSUME NEW q \in Queries, Read(q) PROVE CallsOK'
  <2> DEFINE read == <<disk[query[q].file]>>
             r == [query[q] EXCEPT !.pc = "updating", !.read = read]
  <2>1. query[q] \in Calls /\ read \in Seq(Reads) /\ read # <<>>
    BY DEF CallsOK, Calls, SharedOK
  <2>2. query' = [query EXCEPT ![q] = r]
    BY <1>5 DEF Read, CallsOK
  <2> HIDE DEF read
  <2>3. r \in Calls /\ r.pc = "updating" /\ r.read # <<>>
    BY <2>1 DEF Calls
  <2> QED
    BY <2>2, <2>3, OneCall
<1>6. ASSUME NEW q \in Queries, ReadFails(q) PROVE CallsOK'
  BY <1>6, Moves DEF ReadFails
<1>7. ASSUME NEW q \in Queries, Update(q) PROVE CallsOK'
  <2> DEFINE f == query[q].file
             d == Synchronized(store[f], query[q].read[1])
             notice == Notice(store[f], d)
             r == [query[q] EXCEPT !.pc = "notifying", !.document = d,
                                   !.notice = notice]
  <2>1. f \in Files /\ query[q].read[1] \in Reads /\ query[q] \in Calls
    BY <1>7 DEF Update, CallsOK, Calls, At
  <2>2. store[f] \in Documents
        /\ (store[f] # Untracked =>
              /\ store[f].version <= store[f].edition + 1
              /\ Older(store[f], query[q].read[1]))
    BY <1>7, <2>1 DEF Update, EditionInv, SharedOK
  <2>3. d \in Documents
    BY <2>1, <2>2, SynchronizedDocument DEF Documents
  <2>4. notice \in {"none", "didOpen", "didChange"}
    BY DEF Notice
  <2>5. query' = [query EXCEPT ![q] = r]
    BY <1>7 DEF Update, CallsOK
  <2> HIDE DEF d, f, notice
  <2>6. r \in Calls /\ r.pc = "notifying"
    BY <2>1, <2>3, <2>4 DEF Calls
  <2> HIDE DEF r
  <2> QED
    BY <2>5, <2>6, OneCall
<1>8. ASSUME NEW q \in Queries, UpdateRefused(q) PROVE CallsOK'
  BY <1>8, Moves DEF UpdateRefused
<1>9. ASSUME NEW q \in Queries, Notify(q) PROVE CallsOK'
  BY <1>9, Moves DEF Notify
<1>10. ASSUME NEW q \in Queries, NotifyFails(q) PROVE CallsOK'
  BY <1>10, Moves DEF NotifyFails
<1>11. ASSUME NEW q \in Queries, Send(q) PROVE CallsOK'
  BY <1>11, Moves DEF Send
<1>12. ASSUME NEW q \in Queries, Relock(q) PROVE CallsOK'
  <2> DEFINE r == [query[q] EXCEPT !.pc = "validating",
                                   !.attempt = query[q].attempt + 1]
  <2>1. /\ query[q] \in Calls
        /\ query[q].attempt + 1 \in 0..MaxRetries
    BY <1>12 DEF Relock, CallsOK, Calls
  <2>2. query' = [query EXCEPT ![q] = r]
    BY <1>12 DEF Relock, CallsOK
  <2>3. r \in Calls /\ r.pc = "validating"
    BY <2>1 DEF Calls
  <2> QED
    BY <2>2, <2>3, OneCall
<1>13. ASSUME NEW q \in Queries, Validate(q) PROVE CallsOK'
  BY <1>13, Moves DEF Validate
<1>14. ASSUME NEW q \in Queries, Resend(q) PROVE CallsOK'
  BY <1>14, Moves DEF Resend
<1>15. CASE Close
  BY <1>15 DEF CallsOK, At, Close
<1>16. ASSUME NEW f \in Files, AnnounceClose(f) PROVE CallsOK'
  BY <1>16 DEF CallsOK, At, AnnounceClose
<1>17. CASE UNCHANGED vars
  BY <1>17 DEF CallsOK, At, vars
<1> QED
  BY <1>1, <1>2, <1>3, <1>4, <1>5, <1>6, <1>7, <1>8, <1>9, <1>10, <1>11,
     <1>12, <1>13, <1>14, <1>15, <1>16, <1>17 DEF Next

LEMMA PcAfterGoto ==
  ASSUME CallsOK, NEW q \in Queries, NEW pc, Goto(q, pc)
  PROVE  \A p \in Queries :
           /\ query'[p] = [query[p] EXCEPT !.pc = IF p = q THEN pc ELSE @]
           /\ query'[p].pc = IF p = q THEN pc ELSE query[p].pc
           /\ query'[p].file = query[p].file
           /\ query'[p].read = query[p].read
           /\ query'[p].document = query[p].document
           /\ query'[p].notice = query[p].notice
           /\ query'[p].attempt = query[p].attempt
  BY DEF CallsOK, Calls, Goto

\* A call that moves takes the lock, gives it up, or leaves it alone.
LEMMA LockMoves ==
  ASSUME LockInv, NEW q \in Queries, NEW pc,
         \A p \in Queries :
           query'[p].pc = IF p = q THEN pc ELSE query[p].pc,
         \/ /\ lock' = lock
            /\ pc \in LockedPCs <=> query[q].pc \in LockedPCs
         \/ lock = Nobody /\ lock' = q /\ pc \in LockedPCs
         \/ /\ query[q].pc \in LockedPCs
            /\ lock' = Nobody /\ pc \notin LockedPCs
  PROVE  LockInv'
<1> USE DocumentsAssumption DEF LockInv
<1>1. CASE /\ lock' = lock
           /\ pc \in LockedPCs <=> query[q].pc \in LockedPCs
  BY <1>1
<1>2. CASE lock = Nobody /\ lock' = q /\ pc \in LockedPCs
  BY <1>2
<1>3. CASE /\ query[q].pc \in LockedPCs
           /\ lock' = Nobody /\ pc \notin LockedPCs
  BY <1>3
<1> QED
  BY <1>1, <1>2, <1>3

LEMMA GotoLock ==
  ASSUME CallsOK, LockInv, NEW q \in Queries, NEW pc, Goto(q, pc),
         \/ /\ lock' = lock
            /\ pc \in LockedPCs <=> query[q].pc \in LockedPCs
         \/ lock = Nobody /\ lock' = q /\ pc \in LockedPCs
         \/ /\ query[q].pc \in LockedPCs
            /\ lock' = Nobody /\ pc \notin LockedPCs
  PROVE  LockInv'
<1>1. \A p \in Queries :
        query'[p].pc = IF p = q THEN pc ELSE query[p].pc
  BY PcAfterGoto
<1> QED
  BY <1>1, LockMoves

LEMMA LockStep ==
  SharedOK /\ CallsOK /\ LockInv /\ WaitInv /\ [Next]_vars => LockInv'
<1> USE DEF At, LockedPCs
<1> SUFFICES ASSUME SharedOK, CallsOK, LockInv, WaitInv, [Next]_vars
             PROVE  LockInv'
  OBVIOUS
<1>0. query \in [Queries -> Calls]
  BY DEF CallsOK
<1>1. ASSUME NEW f \in Files, NEW t \in Texts, Edit(f, t) PROVE LockInv'
  BY <1>1 DEF Edit, LockInv
<1>2. CASE ServerReads
  <2> DEFINE m == Head(queue)
  <2>1. /\ m = queue[1] /\ 1 \in 1..Len(queue)
        /\ m.kind \in DocumentKinds \cup {"query"}
    BY <1>2, HeadOK DEF ServerReads, Messages, SharedOK
  <2>2. lock' = lock
    BY <1>2 DEF ServerReads
  <2>3. CASE m.kind # "query"
    <3>1. query' = query
      BY <1>2, <2>1, <2>3 DEF ServerReads, DocumentKinds
    <3> QED
      BY <2>2, <3>1 DEF LockInv
  <2>4. CASE m.kind = "query"
    <3>1. m.query \in Queries /\ query[m.query].pc = "waiting"
      BY <2>1, <2>4 DEF WaitInv, CallWaits
    <3>2. Goto(m.query, "done") \/ Goto(m.query, "relocking")
      BY <1>2, <2>4 DEF ServerReads
    <3>3. CASE Goto(m.query, "done")
      BY <2>2, <3>1, <3>3, GotoLock
    <3>4. CASE Goto(m.query, "relocking")
      BY <2>2, <3>1, <3>4, GotoLock
    <3> QED
      BY <3>2, <3>3, <3>4
  <2> QED
    BY <2>3, <2>4
<1>3. ASSUME NEW q \in Queries, NEW f \in Files, Begin(q, f) PROVE LockInv'
  <2>1. \A p \in Queries :
          query'[p].pc = IF p = q THEN "locking" ELSE query[p].pc
    BY <1>0, <1>3, ZenonT(60) DEF Begin, Calls
  <2> QED
    BY <1>3, <2>1, LockMoves DEF Begin
<1>4. ASSUME NEW q \in Queries, Lock(q) PROVE LockInv'
  BY <1>4, GotoLock DEF Lock
<1>5. ASSUME NEW q \in Queries, Read(q) PROVE LockInv'
  <2>1. \A p \in Queries :
          query'[p].pc = IF p = q THEN "updating" ELSE query[p].pc
    BY <1>0, <1>5, ZenonT(60) DEF Read, Calls
  <2> QED
    BY <1>5, <2>1, LockMoves DEF Read
<1>6. ASSUME NEW q \in Queries, ReadFails(q) PROVE LockInv'
  BY <1>6, GotoLock DEF ReadFails
<1>7. ASSUME NEW q \in Queries, Update(q) PROVE LockInv'
  <2>1. \A p \in Queries :
          query'[p].pc = IF p = q THEN "notifying" ELSE query[p].pc
    BY <1>0, <1>7, ZenonT(60) DEF Update, Calls
  <2> QED
    BY <1>7, <2>1, LockMoves DEF Update
<1>8. ASSUME NEW q \in Queries, UpdateRefused(q) PROVE LockInv'
  BY <1>8, GotoLock DEF UpdateRefused
<1>9. ASSUME NEW q \in Queries, Notify(q) PROVE LockInv'
  BY <1>9, GotoLock DEF Notify
<1>10. ASSUME NEW q \in Queries, NotifyFails(q) PROVE LockInv'
  BY <1>10, GotoLock DEF NotifyFails
<1>11. ASSUME NEW q \in Queries, Send(q) PROVE LockInv'
  <2>1. Goto(q, "waiting") \/ Goto(q, "failed")
    BY <1>11 DEF Send
  <2>2. CASE Goto(q, "waiting")
    <3>1. lock' = lock
      BY <1>11 DEF Send
    <3> QED
      BY <1>11, <2>2, <3>1, GotoLock DEF Send
  <2>3. CASE Goto(q, "failed")
    BY <1>11, <2>3, GotoLock DEF Send
  <2> QED
    BY <2>1, <2>2, <2>3
<1>12. ASSUME NEW q \in Queries, Relock(q) PROVE LockInv'
  <2>1. \A p \in Queries :
          query'[p].pc = IF p = q THEN "validating" ELSE query[p].pc
    BY <1>0, <1>12, ZenonT(60) DEF Relock, Calls
  <2> QED
    BY <1>12, <2>1, LockMoves DEF Relock
<1>13. ASSUME NEW q \in Queries, Validate(q) PROVE LockInv'
  <2>1. CASE Matches(q)
    <3>1. Goto(q, "resending") /\ lock' = lock /\ query[q].pc = "validating"
      BY <1>13, <2>1 DEF Validate
    <3> QED
      BY <3>1, GotoLock
  <2>2. CASE ~Matches(q)
    <3>1. Goto(q, "failed") /\ lock' = Nobody /\ query[q].pc = "validating"
      BY <1>13, <2>2 DEF Validate
    <3> QED
      BY <3>1, GotoLock
  <2> QED
    BY <2>1, <2>2
<1>14. ASSUME NEW q \in Queries, Resend(q) PROVE LockInv'
  <2>1. Goto(q, "waiting") \/ Goto(q, "failed")
    BY <1>14 DEF Resend
  <2>2. CASE Goto(q, "waiting")
    <3>1. lock' = Nobody
      BY <1>14 DEF Resend
    <3> QED
      BY <1>14, <2>2, <3>1, GotoLock DEF Resend
  <2>3. CASE Goto(q, "failed")
    BY <1>14, <2>3, GotoLock DEF Resend
  <2> QED
    BY <2>1, <2>2, <2>3
<1>15. CASE Close
  BY <1>15 DEF Close, LockInv
<1>16. ASSUME NEW f \in Files, AnnounceClose(f) PROVE LockInv'
  BY <1>16 DEF AnnounceClose, LockInv
<1>17. CASE UNCHANGED vars
  BY <1>17 DEF vars, LockInv
<1> QED
  BY <1>1, <1>2, <1>3, <1>4, <1>5, <1>6, <1>7, <1>8, <1>9, <1>10, <1>11,
     <1>12, <1>13, <1>14, <1>15, <1>16, <1>17 DEF Next

LEMMA EditionFrame ==
  ASSUME EditionInv, disk' = disk, edits' = edits, store' = store,
         \A p \in Queries : At(p, "updating")' =>
           /\ At(p, "updating")
           /\ query'[p].file = query[p].file
           /\ query'[p].read = query[p].read
  PROVE  EditionInv'
<1>1. \A f \in Files :
        /\ disk'[f].edition <= edits'
        /\ store'[f] # Untracked =>
             /\ store'[f].version <= store'[f].edition + 1
             /\ Older(store'[f], disk'[f])
  BY DEF EditionInv
<1>2. ASSUME NEW p \in Queries, At(p, "updating")'
      PROVE  /\ Older(query'[p].read[1], disk'[query'[p].file])
             /\ store'[query'[p].file] # Untracked =>
                  Older(store'[query'[p].file], query'[p].read[1])
  <2>1. /\ At(p, "updating") /\ query'[p].file = query[p].file
        /\ query'[p].read = query[p].read
    BY <1>2
  <2> QED
    BY <2>1 DEF EditionInv
<1> QED
  BY <1>1, <1>2 DEF EditionInv

LEMMA EditionGoto ==
  ASSUME CallsOK, EditionInv, NEW q \in Queries, NEW pc, pc # "updating",
         Goto(q, pc), disk' = disk, edits' = edits, store' = store
  PROVE  EditionInv'
<1>1. \A p \in Queries :
        /\ query'[p].pc = IF p = q THEN pc ELSE query[p].pc
        /\ query'[p].file = query[p].file
        /\ query'[p].read = query[p].read
  BY PcAfterGoto
<1>2. \A p \in Queries : At(p, "updating")' =>
        /\ At(p, "updating")
        /\ query'[p].file = query[p].file
        /\ query'[p].read = query[p].read
  BY <1>1 DEF At
<1> QED
  BY <1>2, EditionFrame

LEMMA EditionStep ==
  SharedOK /\ CallsOK /\ LockInv /\ EditionInv /\ [Next]_vars => EditionInv'
<1> SUFFICES ASSUME SharedOK, CallsOK, LockInv, EditionInv, [Next]_vars
             PROVE  EditionInv'
  OBVIOUS
<1>0. query \in [Queries -> Calls]
  BY DEF CallsOK
<1>1. ASSUME NEW f \in Files, NEW t \in Texts, Edit(f, t) PROVE EditionInv'
  <2>1. /\ edits' = edits + 1 /\ store' = store /\ query' = query
        /\ edits \in Nat
        /\ disk' = [disk EXCEPT ![f] = [text |-> t, edition |-> edits + 1]]
    BY <1>1 DEF Edit, SharedOK
  <2>2. \A g \in Files :
          /\ disk'[g] = IF g = f THEN [text |-> t, edition |-> edits + 1]
                        ELSE disk[g]
          /\ disk[g].edition \in Nat /\ disk[g].edition <= edits
    BY <2>1 DEF SharedOK, Reads, EditionInv
  <2>3. ASSUME NEW g \in Files, NEW d, d.edition \in Nat, Older(d, disk[g])
        PROVE  Older(d, disk'[g])
    <3>1. CASE g = f
      <4>1. disk'[g].edition = edits + 1 /\ disk[g].edition <= edits
            /\ disk[g].edition \in Nat /\ edits \in Nat
        BY <2>1, <2>2, <3>1
      <4>2. d.edition <= disk[g].edition /\ d.edition \in Nat
        BY <2>3 DEF Older
      <4> QED
        BY <4>1, <4>2 DEF Older
    <3> QED
      BY <2>2, <2>3, <3>1
  <2>4. ASSUME NEW g \in Files
        PROVE  /\ disk'[g].edition <= edits'
               /\ store'[g] # Untracked =>
                    /\ store'[g].version <= store'[g].edition + 1
                    /\ Older(store'[g], disk'[g])
    <3>1. disk'[g].edition <= edits'
      BY <2>1, <2>2
    <3>2. store[g] # Untracked => store[g].edition \in Nat
      BY DEF SharedOK, Documents, TrackedDocuments
    <3> QED
      BY <2>1, <2>3, <3>1, <3>2 DEF EditionInv
  <2>5. ASSUME NEW p \in Queries, At(p, "updating")'
        PROVE  /\ Older(query'[p].read[1], disk'[query'[p].file])
               /\ store'[query'[p].file] # Untracked =>
                    Older(store'[query'[p].file], query'[p].read[1])
    <3>1. At(p, "updating") /\ query'[p] = query[p]
      BY <2>1, <2>5 DEF At
    <3>2. query[p].file \in Files /\ query[p].read[1] \in Reads
      BY <1>0, <3>1 DEF Calls, CallsOK
    <3>3. query[p].read[1].edition \in Nat
      BY <3>2 DEF Reads
    <3> QED
      BY <2>1, <2>3, <3>1, <3>2, <3>3 DEF EditionInv
  <2> QED
    BY <2>4, <2>5 DEF EditionInv
<1>2. CASE ServerReads
  <2>1. disk' = disk /\ edits' = edits /\ store' = store
    BY <1>2 DEF ServerReads
  <2>2. \A p \in Queries : At(p, "updating")' =>
          /\ At(p, "updating")
          /\ query'[p].file = query[p].file
          /\ query'[p].read = query[p].read
    <3>1. \/ query' = query
          \/ Goto(Head(queue).query, "done")
          \/ Goto(Head(queue).query, "relocking")
      BY <1>2, HeadOK DEF ServerReads, Messages, DocumentKinds
    <3> QED
      BY <1>0, <3>1 DEF Goto, At, Calls
  <2> QED
    BY <2>1, <2>2, EditionFrame
<1>3. ASSUME NEW q \in Queries, NEW f \in Files, Begin(q, f) PROVE EditionInv'
  <2>1. \A p \in Queries : At(p, "updating")' =>
          /\ At(p, "updating")
          /\ query'[p].file = query[p].file
          /\ query'[p].read = query[p].read
    BY <1>0, <1>3 DEF Begin, At, Calls
  <2> QED
    BY <1>3, <2>1, EditionFrame DEF Begin
<1>4. ASSUME NEW q \in Queries, Lock(q) PROVE EditionInv'
  BY <1>4, EditionGoto DEF Lock
<1>5. ASSUME NEW q \in Queries, Read(q) PROVE EditionInv'
  <2> DEFINE f == query[q].file
  <2>1. /\ disk' = disk /\ edits' = edits /\ store' = store
        /\ \A p \in Queries : query'[p].file = query[p].file
        /\ \A p \in Queries \ {q} : query'[p] = query[p]
        /\ query'[q].read = <<disk[f]>>
        /\ query[q].pc \in LockedPCs
    BY <1>0, <1>5 DEF Read, Calls, At, LockedPCs
  <2>2. ASSUME NEW p \in Queries, At(p, "updating")'
        PROVE  /\ Older(query'[p].read[1], disk'[query'[p].file])
               /\ store'[query'[p].file] # Untracked =>
                    Older(store'[query'[p].file], query'[p].read[1])
    <3>1. CASE p = q
      <4>1. query'[p].read[1] = disk[f] /\ query'[p].file = f /\ f \in Files
        BY <1>0, <2>1, <3>1 DEF Calls
      <4>2. disk[f].edition \in Nat
        BY <4>1 DEF SharedOK, Reads
      <4> QED
        BY <2>1, <4>1, <4>2 DEF EditionInv, Older
    <3>2. CASE p # q
      <4>1. query'[p] = query[p]
        BY <2>1, <3>2
      <4> QED
        BY <2>1, <2>2, <4>1 DEF EditionInv, At
    <3> QED
      BY <3>1, <3>2
  <2> QED
    BY <2>1, <2>2 DEF EditionInv
<1>6. ASSUME NEW q \in Queries, ReadFails(q) PROVE EditionInv'
  BY <1>6, EditionGoto DEF ReadFails
<1>7. ASSUME NEW q \in Queries, Update(q) PROVE EditionInv'
  <2> DEFINE f == query[q].file
             r == query[q].read[1]
             d == Synchronized(store[f], r)
  <2>1. f \in Files /\ r \in Reads /\ query[q].pc = "updating"
    BY <1>0, <1>7 DEF Update, CallsOK, Calls, At
  <2>2. /\ store[f] \in Documents /\ Older(r, disk[f])
        /\ (store[f] # Untracked =>
              /\ store[f].version <= store[f].edition + 1
              /\ Older(store[f], r))
    BY <1>7, <2>1 DEF Update, EditionInv, SharedOK
  <2>3. /\ d # Untracked /\ d.text = r.text /\ d.edition = r.edition
        /\ d.version <= d.edition + 1
    BY <2>1, <2>2, SynchronizedDocument
  <2>4. disk' = disk /\ edits' = edits /\ store' = [store EXCEPT ![f] = d]
    BY <1>7 DEF Update
  <2>5. \A p \in Queries : ~At(p, "updating")'
    <3>1. query'[q].pc = "notifying"
          /\ \A p \in Queries \ {q} : query'[p] = query[p]
      BY <1>0, <1>7, ZenonT(60) DEF Update, Calls
    <3>2. \A p \in Queries \ {q} : query[p].pc # "updating"
      BY <2>1 DEF LockInv, LockedPCs
    <3> QED
      BY <3>1, <3>2 DEF At
  <2> HIDE DEF d, r, f
  <2>6. \A g \in Files : store'[g] = IF g = f THEN d ELSE store[g]
    BY <2>4 DEF SharedOK
  <2>7. Older(d, disk[f])
    BY <2>2, <2>3 DEF Older
  <2>8. \A g \in Files :
          /\ disk'[g].edition <= edits'
          /\ store'[g] # Untracked =>
               /\ store'[g].version <= store'[g].edition + 1
               /\ Older(store'[g], disk'[g])
    BY <2>3, <2>4, <2>6, <2>7 DEF EditionInv
  <2> QED
    BY <2>5, <2>8 DEF EditionInv
<1>8. ASSUME NEW q \in Queries, UpdateRefused(q) PROVE EditionInv'
  BY <1>8, EditionGoto DEF UpdateRefused
<1>9. ASSUME NEW q \in Queries, Notify(q) PROVE EditionInv'
  BY <1>9, EditionGoto DEF Notify
<1>10. ASSUME NEW q \in Queries, NotifyFails(q) PROVE EditionInv'
  BY <1>10, EditionGoto DEF NotifyFails
<1>11. ASSUME NEW q \in Queries, Send(q) PROVE EditionInv'
  <2>1. Goto(q, "waiting") \/ Goto(q, "failed")
    BY <1>11 DEF Send
  <2> QED
    BY <1>11, <2>1, EditionGoto DEF Send
<1>12. ASSUME NEW q \in Queries, Relock(q) PROVE EditionInv'
  <2>1. \A p \in Queries : At(p, "updating")' =>
          /\ At(p, "updating")
          /\ query'[p].file = query[p].file
          /\ query'[p].read = query[p].read
    BY <1>0, <1>12 DEF Relock, At, Calls
  <2> QED
    BY <1>12, <2>1, EditionFrame DEF Relock
<1>13. ASSUME NEW q \in Queries, Validate(q) PROVE EditionInv'
  <2>1. Goto(q, "resending") \/ Goto(q, "failed")
    BY <1>13 DEF Validate
  <2> QED
    BY <1>13, <2>1, EditionGoto DEF Validate
<1>14. ASSUME NEW q \in Queries, Resend(q) PROVE EditionInv'
  <2>1. Goto(q, "waiting") \/ Goto(q, "failed")
    BY <1>14 DEF Resend
  <2> QED
    BY <1>14, <2>1, EditionGoto DEF Resend
<1>15. CASE Close
  <2>1. \A p \in Queries : query'[p] = query[p] /\ query[p].pc # "updating"
    BY <1>15, DocumentsAssumption DEF Close, LockInv, LockedPCs
  <2>2. \A g \in Files : store'[g] = Untracked /\ disk'[g] = disk[g]
    BY <1>15 DEF Close
  <2> QED
    BY <1>15, <2>1, <2>2 DEF Close, EditionInv, At
<1>16. ASSUME NEW f \in Files, AnnounceClose(f) PROVE EditionInv'
  BY <1>16, EditionFrame DEF AnnounceClose, At
<1>17. CASE UNCHANGED vars
  BY <1>17, EditionFrame DEF vars, At
<1> QED
  BY <1>1, <1>2, <1>3, <1>4, <1>5, <1>6, <1>7, <1>8, <1>9, <1>10, <1>11,
     <1>12, <1>13, <1>14, <1>15, <1>16, <1>17 DEF Next

LEMMA QueueAppend ==
  ASSUME SharedOK, NEW m \in Messages, queue' = Append(queue, m)
  PROVE  /\ Len(queue) \in Nat
         /\ Len(queue') = Len(queue) + 1
         /\ \A k \in 1..Len(queue) : queue'[k] = queue[k]
         /\ queue'[Len(queue) + 1] = m
  BY DEF SharedOK

LEMMA QueueTail ==
  ASSUME SharedOK, queue # <<>>, queue' = Tail(queue)
  PROVE  /\ Len(queue) \in Nat \ {0}
         /\ Len(queue') = Len(queue) - 1
         /\ \A k \in 1..Len(queue') : queue'[k] = queue[k + 1]
  BY DEF SharedOK

\* The calls of S that wait do so after the step, for the same document.
WaitersStay(S) ==
  \A p \in S : At(p, "waiting") =>
    /\ At(p, "waiting")'
    /\ query'[p].file = query[p].file
    /\ query'[p].document = query[p].document

LEMMA WaitFrame ==
  ASSUME WaitInv, queue' = queue, WaitersStay(Queries)
  PROVE  WaitInv'
<1>1. ASSUME NEW k \in 1..Len(queue), queue[k].kind = "query"
      PROVE  CallWaits(queue[k])'
  <2>1. /\ queue'[k] = queue[k] /\ CallWaits(queue[k])
        /\ queue[k].query \in Queries
    BY <1>1 DEF WaitInv, CallWaits
  <2> QED
    BY <2>1 DEF CallWaits, At, WaitersStay
<1> QED
  BY <1>1 DEF WaitInv

LEMMA WaitNotice ==
  ASSUME SharedOK, WaitInv, NEW m \in Messages, queue' = Append(queue, m),
         m.kind # "query", WaitersStay(Queries)
  PROVE  WaitInv'
<1>1. ASSUME NEW k \in 1..Len(queue'), queue'[k].kind = "query"
      PROVE  k \in 1..Len(queue) /\ queue'[k] = queue[k]
  BY <1>1, QueueAppend
<1>2. ASSUME NEW k \in 1..Len(queue'), queue'[k].kind = "query"
      PROVE  CallWaits(queue[k])'
  <2>1. /\ queue'[k] = queue[k] /\ CallWaits(queue[k])
        /\ queue[k].query \in Queries
    BY <1>1, <1>2 DEF WaitInv, CallWaits
  <2> QED
    BY <2>1 DEF CallWaits, At, WaitersStay
<1>3. ASSUME NEW j \in 1..Len(queue'), NEW k \in 1..Len(queue'),
             queue'[j].kind = "query", queue'[k].kind = "query",
             queue'[j].query = queue'[k].query
      PROVE  j = k
  BY <1>1, <1>3 DEF WaitInv
<1> QED
  BY <1>2, <1>3 DEF WaitInv

LEMMA WaitQuery ==
  ASSUME SharedOK, WaitInv, NEW q \in Queries, QueryMessage(q) \in Messages,
         queue' = Append(queue, QueryMessage(q)), ~At(q, "waiting"),
         WaitersStay(Queries), At(q, "waiting")',
         query'[q].file = query[q].file,
         query'[q].document = query[q].document
  PROVE  WaitInv'
<1> DEFINE m == QueryMessage(q)
           n == Len(queue)
<1>1. /\ m.kind = "query" /\ m.query = q
      /\ m.file = query[q].file /\ m.document = query[q].document
  BY DEF QueryMessage, Message
<1>2. /\ n \in Nat /\ Len(queue') = n + 1
      /\ \A k \in 1..n : queue'[k] = queue[k]
      /\ queue'[n + 1] = m
  BY QueueAppend
<1>3. \A k \in 1..n : queue[k].kind = "query" => queue[k].query # q
  BY DEF WaitInv, CallWaits
<1>4. /\ query'[m.query].pc = "waiting" /\ m.file = query'[m.query].file
      /\ m.document = query'[m.query].document
  BY <1>1 DEF At
<1> HIDE DEF m
<1>5. ASSUME NEW k \in 1..Len(queue'), queue'[k].kind = "query"
      PROVE  CallWaits(queue[k])'
  <2>1. CASE k = n + 1
    <3>1. queue'[k] = m
      BY <1>2, <2>1
    <3> QED
      BY <1>1, <1>4, <3>1 DEF CallWaits, At
  <2>2. CASE k # n + 1
    <3>1. k \in 1..n /\ queue'[k] = queue[k]
      BY <1>2, <2>2
    <3>2. CallWaits(queue[k]) /\ queue[k].query \in Queries
      BY <1>5, <3>1 DEF WaitInv, CallWaits
    <3> QED
      BY <3>1, <3>2 DEF CallWaits, At, WaitersStay
  <2> QED
    BY <2>1, <2>2
<1>6. ASSUME NEW j \in 1..Len(queue'), NEW k \in 1..Len(queue'),
             queue'[j].kind = "query", queue'[k].kind = "query",
             queue'[j].query = queue'[k].query
      PROVE  j = k
  <2>1. CASE j = n + 1 \/ k = n + 1
    BY <1>1, <1>2, <1>3, <1>6, <2>1
  <2>2. CASE j # n + 1 /\ k # n + 1
    <3>1. /\ j \in 1..n /\ queue'[j] = queue[j]
          /\ k \in 1..n /\ queue'[k] = queue[k]
      BY <1>2, <2>2
    <3> QED
      BY <1>6, <3>1 DEF WaitInv
  <2> QED
    BY <2>1, <2>2
<1> QED
  BY <1>5, <1>6 DEF WaitInv

LEMMA WaitTail ==
  ASSUME SharedOK, WaitInv, queue # <<>>, queue' = Tail(queue),
         \/ WaitersStay(Queries)
         \/ /\ Head(queue).kind = "query"
            /\ WaitersStay(Queries \ {Head(queue).query})
  PROVE  WaitInv'
<1>1. /\ Len(queue) \in Nat \ {0} /\ Len(queue') = Len(queue) - 1
      /\ \A k \in 1..Len(queue') : queue'[k] = queue[k + 1]
      /\ Head(queue) = queue[1]
  BY QueueTail DEF SharedOK
<1>2. ASSUME NEW k \in 1..Len(queue')
      PROVE  k + 1 \in 1..Len(queue) /\ k + 1 # 1
  BY <1>1
<1>3. ASSUME NEW k \in 1..Len(queue'), queue'[k].kind = "query"
      PROVE  CallWaits(queue[k])'
  <2> DEFINE m == queue[k + 1]
  <2>1. queue'[k] = m /\ m.kind = "query" /\ k + 1 \in 1..Len(queue)
    BY <1>1, <1>2, <1>3
  <2>2. CallWaits(m) /\ m.query \in Queries
    BY <2>1 DEF WaitInv, CallWaits
  <2>3. Head(queue).kind = "query" => m.query # Head(queue).query
    <3>1. 1 \in 1..Len(queue) /\ k + 1 # 1
      BY <1>1
    <3> QED
      BY <1>1, <2>1, <3>1 DEF WaitInv
  <2> HIDE DEF m
  <2>4. At(m.query, "waiting") /\ m.file = query[m.query].file
        /\ m.document = query[m.query].document
    BY <2>2 DEF CallWaits
  <2>5. /\ query'[m.query].pc = "waiting"
        /\ query'[m.query].file = query[m.query].file
        /\ query'[m.query].document = query[m.query].document
    BY <2>2, <2>3, <2>4 DEF WaitersStay, At
  <2> QED
    BY <2>1, <2>2, <2>4, <2>5 DEF CallWaits, At
<1>4. ASSUME NEW j \in 1..Len(queue'), NEW k \in 1..Len(queue'),
             queue'[j].kind = "query", queue'[k].kind = "query",
             queue'[j].query = queue'[k].query
      PROVE  j = k
  <2>1. /\ j + 1 \in 1..Len(queue) /\ queue'[j] = queue[j + 1]
        /\ k + 1 \in 1..Len(queue) /\ queue'[k] = queue[k + 1]
    BY <1>1, <1>2
  <2>2. j + 1 = k + 1
    BY <1>4, <2>1 DEF WaitInv
  <2> QED
    BY <2>2
<1> QED
  BY <1>3, <1>4 DEF WaitInv

LEMMA WaitersGoto ==
  ASSUME CallsOK, NEW q \in Queries, ~At(q, "waiting"), NEW pc, Goto(q, pc)
  PROVE  WaitersStay(Queries)
<1>1. \A p \in Queries :
        /\ query'[p].pc = IF p = q THEN pc ELSE query[p].pc
        /\ query'[p].file = query[p].file
        /\ query'[p].document = query[p].document
  BY PcAfterGoto
<1> QED
  BY <1>1 DEF WaitersStay, At

LEMMA WaitGoto ==
  ASSUME CallsOK, WaitInv, NEW q \in Queries, ~At(q, "waiting"), NEW pc,
         Goto(q, pc), queue' = queue
  PROVE  WaitInv'
  BY WaitersGoto, WaitFrame

LEMMA WaitSent ==
  ASSUME SharedOK, CallsOK, WaitInv, NEW q \in Queries, ~At(q, "waiting"),
         queue' = Append(queue, QueryMessage(q)), Goto(q, "waiting")
  PROVE  WaitInv'
<1>1. QueryMessage(q) \in Messages
  BY MessageOK DEF CallsOK, Calls, QueryMessage, DocumentKinds
<1>2. /\ query'[q].pc = "waiting" /\ query'[q].file = query[q].file
      /\ query'[q].document = query[q].document
  BY PcAfterGoto
<1>3. WaitersStay(Queries)
  BY WaitersGoto
<1> QED
  BY <1>1, <1>2, <1>3, WaitQuery DEF At

LEMMA WaitStep ==
  SharedOK /\ CallsOK /\ WaitInv /\ [Next]_vars => WaitInv'
<1> SUFFICES ASSUME SharedOK, CallsOK, WaitInv, [Next]_vars PROVE WaitInv'
  OBVIOUS
<1>0. query \in [Queries -> Calls]
  BY DEF CallsOK
<1>1. ASSUME NEW f \in Files, NEW t \in Texts, Edit(f, t) PROVE WaitInv'
  BY <1>1, WaitFrame DEF Edit, WaitersStay, At
<1>2. CASE ServerReads
  <2> DEFINE m == Head(queue)
  <2>1. /\ m = queue[1] /\ 1 \in 1..Len(queue)
        /\ m.kind \in DocumentKinds \cup {"query"}
        /\ queue # <<>> /\ queue' = Tail(queue)
    BY <1>2, HeadOK DEF ServerReads, Messages, SharedOK
  <2>2. CASE m.kind # "query"
    <3>1. query' = query
      BY <1>2, <2>1, <2>2 DEF ServerReads, DocumentKinds
    <3>2. WaitersStay(Queries)
      BY <3>1 DEF WaitersStay, At
    <3> QED
      BY <2>1, <3>2, WaitTail
  <2>3. CASE m.kind = "query"
    <3>1. m.query \in Queries
      BY <2>1, <2>3 DEF WaitInv, CallWaits
    <3>2. Goto(m.query, "done") \/ Goto(m.query, "relocking")
      BY <1>2, <2>3 DEF ServerReads
    <3>3. \A p \in Queries \ {m.query} : query'[p] = query[p]
      BY <1>0, <3>2 DEF Goto
    <3>4. WaitersStay(Queries \ {m.query})
      BY <3>3 DEF WaitersStay, At
    <3> QED
      BY <2>1, <2>3, <3>4, WaitTail
  <2> QED
    BY <2>2, <2>3
<1>3. ASSUME NEW q \in Queries, NEW f \in Files, Begin(q, f) PROVE WaitInv'
  <2>1. queue' = queue /\ query[q].pc = "idle"
        /\ \A p \in Queries \ {q} : query'[p] = query[p]
    BY <1>0, <1>3 DEF Begin, At
  <2>2. WaitersStay(Queries)
    BY <2>1 DEF WaitersStay, At
  <2> QED
    BY <2>1, <2>2, WaitFrame
<1>4. ASSUME NEW q \in Queries, Lock(q) PROVE WaitInv'
  <2>1. ~At(q, "waiting")
    BY <1>4 DEF Lock, At
  <2> QED
    BY <1>4, <2>1, WaitGoto DEF Lock
<1>5. ASSUME NEW q \in Queries, Read(q) PROVE WaitInv'
  <2>1. queue' = queue /\ query[q].pc = "reading"
        /\ \A p \in Queries \ {q} : query'[p] = query[p]
    BY <1>0, <1>5 DEF Read, At
  <2>2. WaitersStay(Queries)
    BY <2>1 DEF WaitersStay, At
  <2> QED
    BY <2>1, <2>2, WaitFrame
<1>6. ASSUME NEW q \in Queries, ReadFails(q) PROVE WaitInv'
  <2>1. ~At(q, "waiting")
    BY <1>6 DEF ReadFails, At
  <2> QED
    BY <1>6, <2>1, WaitGoto DEF ReadFails
<1>7. ASSUME NEW q \in Queries, Update(q) PROVE WaitInv'
  <2>1. queue' = queue /\ query[q].pc = "updating"
        /\ \A p \in Queries \ {q} : query'[p] = query[p]
    BY <1>0, <1>7 DEF Update, At
  <2>2. WaitersStay(Queries)
    BY <2>1 DEF WaitersStay, At
  <2> QED
    BY <2>1, <2>2, WaitFrame
<1>8. ASSUME NEW q \in Queries, UpdateRefused(q) PROVE WaitInv'
  <2>1. ~At(q, "waiting")
    BY <1>8 DEF UpdateRefused, At
  <2> QED
    BY <1>8, <2>1, WaitGoto DEF UpdateRefused
<1>9. ASSUME NEW q \in Queries, Notify(q) PROVE WaitInv'
  <2> DEFINE m == Message(query[q].notice, query[q].file,
                          query[q].document, q)
  <2>1. Goto(q, "sending") /\ ~At(q, "waiting")
    BY <1>9 DEF Notify, At
  <2>2. CASE query[q].notice = "none"
    BY <1>9, <2>1, <2>2, WaitGoto DEF Notify
  <2>3. CASE query[q].notice # "none"
    <3>1. queue' = Append(queue, m)
      BY <1>9, <2>3 DEF Notify
    <3>2. m \in Messages /\ m.kind # "query"
      BY <1>0, <2>3 DEF Calls, Message, Messages, DocumentKinds
    <3>3. WaitersStay(Queries)
      BY <2>1, WaitersGoto
    <3> HIDE DEF m
    <3> QED
      BY <3>1, <3>2, <3>3, WaitNotice
  <2> QED
    BY <2>2, <2>3
<1>10. ASSUME NEW q \in Queries, NotifyFails(q) PROVE WaitInv'
  <2>1. ~At(q, "waiting")
    BY <1>10 DEF NotifyFails, At
  <2> QED
    BY <1>10, <2>1, WaitGoto DEF NotifyFails
<1>11. ASSUME NEW q \in Queries, Send(q) PROVE WaitInv'
  <2>1. ~At(q, "waiting")
    BY <1>11 DEF Send, At
  <2>2. CASE Room
    BY <1>11, <2>1, <2>2, WaitSent DEF Send
  <2>3. CASE ~Room
    BY <1>11, <2>1, <2>3, WaitGoto DEF Send
  <2> QED
    BY <2>2, <2>3
<1>12. ASSUME NEW q \in Queries, Relock(q) PROVE WaitInv'
  <2>1. queue' = queue /\ query[q].pc = "relocking"
        /\ \A p \in Queries \ {q} : query'[p] = query[p]
    BY <1>0, <1>12 DEF Relock, At
  <2>2. WaitersStay(Queries)
    BY <2>1 DEF WaitersStay, At
  <2> QED
    BY <2>1, <2>2, WaitFrame
<1>13. ASSUME NEW q \in Queries, Validate(q) PROVE WaitInv'
  <2>1. ~At(q, "waiting") /\ queue' = queue
    BY <1>13 DEF Validate, At
  <2>2. Goto(q, "resending") \/ Goto(q, "failed")
    BY <1>13 DEF Validate
  <2> QED
    BY <2>1, <2>2, WaitGoto
<1>14. ASSUME NEW q \in Queries, Resend(q) PROVE WaitInv'
  <2>1. ~At(q, "waiting")
    BY <1>14 DEF Resend, At
  <2>2. CASE Room
    BY <1>14, <2>1, <2>2, WaitSent DEF Resend
  <2>3. CASE ~Room
    BY <1>14, <2>1, <2>3, WaitGoto DEF Resend
  <2> QED
    BY <2>2, <2>3
<1>15. CASE Close
  BY <1>15, WaitFrame DEF Close, WaitersStay, At
<1>16. ASSUME NEW f \in Files, AnnounceClose(f) PROVE WaitInv'
  <2> DEFINE m == Message("didClose", f, Untracked, Closer)
  <2>1. WaitersStay(Queries)
    BY <1>16 DEF AnnounceClose, WaitersStay, At
  <2>2. CASE Room
    <3>1. queue' = Append(queue, m)
      BY <1>16, <2>2 DEF AnnounceClose
    <3>2. m \in Messages /\ m.kind # "query"
      BY UntrackedIsNoDocument DEF Message, Messages, DocumentKinds
    <3> HIDE DEF m
    <3> QED
      BY <2>1, <3>1, <3>2, WaitNotice
  <2>3. CASE ~Room
    BY <1>16, <2>1, <2>3, WaitFrame DEF AnnounceClose
  <2> QED
    BY <2>2, <2>3
<1>17. CASE UNCHANGED vars
  BY <1>17, WaitFrame DEF vars, WaitersStay, At
<1> QED
  BY <1>1, <1>2, <1>3, <1>4, <1>5, <1>6, <1>7, <1>8, <1>9, <1>10, <1>11,
     <1>12, <1>13, <1>14, <1>15, <1>16, <1>17 DEF Next

LEMMA TInvInit == Init => TInv
<1> SUFFICES ASSUME Init PROVE TInv
  OBVIOUS
<1> USE DocumentsAssumption
<1> DEFINE f0 == CHOOSE f \in Files : TRUE
           c0 == [pc |-> "idle", file |-> f0, read |-> <<>>,
                  document |-> Untracked, notice |-> "none", attempt |-> 0]
<1>1. f0 \in Files
  OBVIOUS
<1> HIDE DEF f0
<1>2. <<>> \in Seq(Reads) /\ 0 \in 0..MaxRetries
  OBVIOUS
<1>3. c0 \in Calls /\ c0.pc = "idle"
  BY <1>1, <1>2, UntrackedIsNoDocument DEF Calls, PCs
<1>4. query = [q \in Queries |-> c0]
  BY DEF Init, f0
<1> HIDE DEF c0
<1>5. query \in [Queries -> Calls] /\ \A q \in Queries : query[q].pc = "idle"
  BY <1>3, <1>4
<1>6. SharedOK
  <2>1. [text : Texts, edition : {0}] \subseteq Reads
    BY DEF Reads
  <2>2. disk \in [Files -> Reads]
    BY <2>1 DEF Init
  <2>3. queue \in Seq(Messages) /\ Len(queue) <= Capacity
    BY DEF Init
  <2>4. store \in [Files -> Documents] /\ view \in [Files -> Documents]
    BY UntrackedIsNoDocument DEF Init
  <2>5. edits \in 0..MaxEdits /\ lock \in Queries \cup {Nobody}
    BY DEF Init
  <2>6. closed \in BOOLEAN /\ closing \in SUBSET Files
    BY Zenon DEF Init
  <2> QED
    BY <2>2, <2>3, <2>4, <2>5, <2>6 DEF SharedOK
<1>7. CallsOK
  BY <1>5 DEF CallsOK, At
<1>8. LockInv
  BY <1>5 DEF Init, LockInv, LockedPCs
<1>9. EditionInv
  <2>1. \A f \in Files : disk[f].edition <= edits /\ store[f] = Untracked
    BY DEF Init
  <2> QED
    BY <1>5, <2>1 DEF EditionInv, At
<1>10. WaitInv
  BY DEF Init, WaitInv
<1> QED
  BY <1>6, <1>7, <1>8, <1>9, <1>10 DEF TInv

LEMMA TInvStep == TInv /\ [Next]_vars => TInv'
  BY SharedStep, CallsStep, LockStep, EditionStep, WaitStep DEF TInv

LEMMA TInvIsTyped == TInv => TypeOK
<1> SUFFICES ASSUME TInv PROVE TypeOK
  OBVIOUS
<1>1. \A q \in Queries : query[q] \in Calls
  BY DEF TInv, CallsOK
<1>2. \A q \in Queries :
        /\ query[q].pc \in PCs
        /\ query[q].file \in Files
        /\ query[q].document \in Documents
        /\ query[q].notice \in {"none", "didOpen", "didChange"}
        /\ query[q].attempt \in 0..MaxRetries
  BY <1>1 DEF Calls
<1> QED
  BY <1>2 DEF TInv, TypeOK, SharedOK, LockInv, Reads

LEMMA AlwaysTInv == Spec => []TInv
<1>1. Init => TInv
  BY TInvInit
<1>2. TInv /\ [Next]_vars => TInv'
  BY TInvStep
<1> QED
  BY <1>1, <1>2, PTL DEF Spec

\* Whatever calls, edits and shutdown do, the state keeps its shape, no
\* document's version grows past the edits it could have seen, and the mutex
\* is held by the one call that is between its Lock and its release.
THEOREM TypeCorrect == Spec => []TypeOK
<1>1. TInv => TypeOK
  BY TInvIsTyped
<1> QED
  BY <1>1, AlwaysTInv, PTL

-----------------------------------------------------------------------------
(* Synchronizations never go back in time                                  *)

LEMMA OnlyUpdateTracks ==
  ASSUME TInv, [Next]_vars, NEW f \in Files,
         store'[f] # Untracked, store'[f] # store[f]
  PROVE  \E q \in Queries : Update(q) /\ query[q].file = f
<1>1. ASSUME NEW q \in Queries, Update(q)
      PROVE  query[q].file = f
  BY <1>1 DEF Update, TInv, SharedOK
<1>2. CASE Close
  BY <1>2 DEF Close
<1> QED
  BY <1>1, <1>2
     DEF Next, Edit, ServerReads, Begin, Lock, Read, ReadFails,
         UpdateRefused, Notify, NotifyFails, Send, Relock, Validate, Resend,
         AnnounceClose, vars

LEMMA SyncsForward ==
  ASSUME TInv, [Next]_vars, NEW f \in Files,
         store[f] # Untracked, store'[f] # Untracked
  PROVE  store'[f].edition >= store[f].edition
<1>0. store[f].edition \in Nat
  BY DEF TInv, SharedOK, Documents, TrackedDocuments
<1>1. CASE store'[f] = store[f]
  BY <1>0, <1>1
<1>2. CASE store'[f] # store[f]
  <2>1. PICK q \in Queries : Update(q) /\ query[q].file = f
    BY <1>2, OnlyUpdateTracks
  <2> DEFINE r == query[q].read[1]
             d == Synchronized(store[f], r)
  <2>2. r \in Reads
    BY <2>1 DEF Update, TInv, CallsOK, Calls, At
  <2>3. /\ store[f] \in Documents
        /\ store[f].version <= store[f].edition + 1
        /\ Older(store[f], r)
    BY <2>1 DEF Update, TInv, EditionInv, SharedOK
  <2>4. d.edition = r.edition
    BY <2>2, <2>3, SynchronizedDocument
  <2>5. store' = [store EXCEPT ![f] = d]
    BY <2>1 DEF Update
  <2> HIDE DEF d
  <2>6. store'[f] = d
    BY <2>5 DEF TInv, SharedOK
  <2>7. store[f].edition <= r.edition /\ r.edition \in Nat
    BY <2>2, <2>3 DEF Older, Reads
  <2> QED
    BY <1>0, <2>4, <2>6, <2>7
<1> QED
  BY <1>1, <1>2

\* However queries and edits interleave, a synchronization never replaces the
\* text the server was told of by one that was read from the disk earlier:
\* the lock is held from the read to the update.
THEOREM NeverBackwards == Spec => NeverSyncsBackwards
<1>1. TInv /\ [Next]_vars =>
        [\A f \in Files :
           store[f] # Untracked /\ store'[f] # Untracked
             => store'[f].edition >= store[f].edition]_vars
  BY SyncsForward
<1> QED
  BY <1>1, AlwaysTInv, PTL DEF Spec, NeverSyncsBackwards

-----------------------------------------------------------------------------
(* What a server with v open has open after n messages of a queue          *)

Tells(s, k, f) == s[k].file = f /\ s[k].kind \in DocumentKinds
ViewOf(s, v, f, n) ==
  LET told == {k \in 1..n : Tells(s, k, f)}
  IN IF told = {} THEN v[f]
     ELSE s[CHOOSE k \in told : \A j \in told : j <= k].document

\* A number that bounds a set of numbers from 1 on leaves it a greatest one.
LEMMA GreatestExists ==
  ASSUME NEW n \in Nat, NEW S \in SUBSET (1..n), S # {}
  PROVE  \E k \in S : \A j \in S : j <= k
<1> DEFINE Above == {b \in Nat : \A j \in S : j <= b}
<1>1. n \in Above /\ Above \subseteq Nat
  OBVIOUS
<1>2. PICK b \in Above : \A c \in Above : ~(<<c, b>> \in OpToRel(<, Nat))
  <2> HIDE DEF Above
  <2>1. IsWellFoundedOn(OpToRel(<, Nat), Nat)
    BY NatLessThanWellFounded
  <2> QED
    BY <1>1, <2>1, WFMin
<1>3. \A c \in Above : ~(c < b)
  BY <1>2 DEF OpToRel
<1>4. b \in S
  <2> SUFFICES ASSUME b \notin S PROVE FALSE
    OBVIOUS
  <2>1. b \in Nat /\ \A j \in S : j \in Nat /\ j # 0 /\ j <= b /\ j # b
    OBVIOUS
  <2>2. PICK i \in S : TRUE
    OBVIOUS
  <2>3. b - 1 \in Nat
    BY <2>1, <2>2
  <2>4. \A j \in S : j <= b - 1
    BY <2>1
  <2>5. b - 1 \in Above /\ b - 1 < b
    BY <2>1, <2>3, <2>4
  <2> QED
    BY <1>3, <2>5
<1> QED
  BY <1>4

\* The last message about a file before a point decides what is open there.
LEMMA ViewTold ==
  ASSUME NEW s, NEW v, NEW f, NEW n \in Nat, NEW k \in 1..n, Tells(s, k, f),
         \A j \in (k + 1)..n : ~Tells(s, j, f)
  PROVE  ViewOf(s, v, f, n) = s[k].document
<1> DEFINE told == {j \in 1..n : Tells(s, j, f)}
           last == CHOOSE i \in told : \A j \in told : j <= i
<1>1. k \in told /\ \A j \in told : j <= k
  OBVIOUS
<1>2. last \in told /\ \A j \in told : j <= last
  BY <1>1
<1>3. last = k
  BY <1>1, <1>2
<1>4. ViewOf(s, v, f, n) = s[last].document
  BY <1>1 DEF ViewOf
<1> QED
  BY <1>3, <1>4

LEMMA ViewUntold ==
  ASSUME NEW s, NEW v, NEW f, NEW n \in Nat, \A j \in 1..n : ~Tells(s, j, f)
  PROVE  ViewOf(s, v, f, n) = v[f]
  BY DEF ViewOf

LEMMA LastTold ==
  ASSUME NEW s, NEW f, NEW n \in Nat, ~\A j \in 1..n : ~Tells(s, j, f)
  PROVE  \E k \in 1..n :
           Tells(s, k, f) /\ \A j \in (k + 1)..n : ~Tells(s, j, f)
<1> DEFINE told == {j \in 1..n : Tells(s, j, f)}
<1>1. told # {} /\ told \in SUBSET (1..n)
  OBVIOUS
<1> HIDE DEF told
<1>2. PICK k \in told : \A j \in told : j <= k
  BY <1>1, GreatestExists
<1>3. \A j \in (k + 1)..n : ~Tells(s, j, f)
  BY <1>1, <1>2 DEF told
<1> QED
  BY <1>1, <1>2, <1>3 DEF told

\* One message more.
LEMMA ViewNext ==
  ASSUME NEW s, NEW v, NEW f, NEW n \in Nat
  PROVE  ViewOf(s, v, f, n + 1) =
           IF Tells(s, n + 1, f) THEN s[n + 1].document
           ELSE ViewOf(s, v, f, n)
<1>1. CASE Tells(s, n + 1, f)
  <2>1. n + 1 \in 1..(n + 1) /\ (n + 1 + 1)..(n + 1) = {}
    OBVIOUS
  <2> QED
    BY <1>1, <2>1, ViewTold
<1>2. CASE ~Tells(s, n + 1, f)
  <2>1. CASE \A j \in 1..n : ~Tells(s, j, f)
    <3>1. \A j \in 1..(n + 1) : ~Tells(s, j, f)
      BY <1>2, <2>1
    <3>2. ViewOf(s, v, f, n + 1) = v[f]
      BY <3>1, ViewUntold
    <3>3. ViewOf(s, v, f, n) = v[f]
      BY <2>1, ViewUntold
    <3> QED
      BY <1>2, <3>2, <3>3
  <2>2. CASE ~\A j \in 1..n : ~Tells(s, j, f)
    <3>1. PICK k \in 1..n : /\ Tells(s, k, f)
                            /\ \A j \in (k + 1)..n : ~Tells(s, j, f)
      BY <2>2, LastTold
    <3>2. k \in 1..(n + 1) /\ \A j \in (k + 1)..(n + 1) : ~Tells(s, j, f)
      BY <1>2, <3>1
    <3>3. ViewOf(s, v, f, n + 1) = s[k].document
      BY <3>1, <3>2, ViewTold
    <3>4. ViewOf(s, v, f, n) = s[k].document
      BY <3>1, ViewTold
    <3> QED
      BY <1>2, <3>3, <3>4
  <2> QED
    BY <2>1, <2>2
<1> QED
  BY <1>1, <1>2

\* What is open at a point depends on what was queued before it only.
LEMMA ViewStays ==
  ASSUME NEW s, NEW z, NEW v, NEW f, NEW n \in Nat,
         \A k \in 1..n : z[k] = s[k]
  PROVE  ViewOf(z, v, f, n) = ViewOf(s, v, f, n)
<1>1. \A k \in 1..n : Tells(z, k, f) <=> Tells(s, k, f)
  BY DEF Tells
<1>2. CASE \A j \in 1..n : ~Tells(s, j, f)
  <2>1. \A j \in 1..n : ~Tells(z, j, f)
    BY <1>1, <1>2
  <2>2. ViewOf(z, v, f, n) = v[f]
    BY <2>1, ViewUntold
  <2>3. ViewOf(s, v, f, n) = v[f]
    BY <1>2, ViewUntold
  <2> QED
    BY <2>2, <2>3
<1>3. CASE ~\A j \in 1..n : ~Tells(s, j, f)
  <2>1. PICK k \in 1..n : /\ Tells(s, k, f)
                          /\ \A j \in (k + 1)..n : ~Tells(s, j, f)
    BY <1>3, LastTold
  <2>2. Tells(z, k, f) /\ \A j \in (k + 1)..n : ~Tells(z, j, f)
    BY <1>1, <2>1
  <2>3. ViewOf(z, v, f, n) = z[k].document
    BY <2>2, ViewTold
  <2>4. ViewOf(s, v, f, n) = s[k].document
    BY <2>1, ViewTold
  <2> QED
    BY <2>3, <2>4
<1> QED
  BY <1>2, <1>3

\* What is open at a point does not change when the first message is read.
LEMMA ViewRead ==
  ASSUME NEW s, NEW z, NEW v, NEW w, NEW f, NEW n \in Nat,
         \A k \in 1..n : z[k] = s[k + 1],
         w[f] = IF Tells(s, 1, f) THEN s[1].document ELSE v[f]
  PROVE  ViewOf(z, w, f, n) = ViewOf(s, v, f, n + 1)
<1>1. \A k \in 1..n : Tells(z, k, f) <=> Tells(s, k + 1, f)
  BY DEF Tells
<1>2. CASE \A j \in 1..n : ~Tells(z, j, f)
  <2>1. ViewOf(z, w, f, n) = w[f]
    BY <1>2, ViewUntold
  <2>2. \A j \in 2..(n + 1) : ~Tells(s, j, f)
    <3> SUFFICES ASSUME NEW j \in 2..(n + 1) PROVE ~Tells(s, j, f)
      OBVIOUS
    <3>1. j - 1 \in 1..n /\ (j - 1) + 1 = j
      OBVIOUS
    <3> QED
      BY <1>1, <1>2, <3>1
  <2>3. CASE Tells(s, 1, f)
    <3>1. 1 \in 1..(n + 1) /\ \A j \in (1 + 1)..(n + 1) : ~Tells(s, j, f)
      BY <2>2
    <3>2. ViewOf(s, v, f, n + 1) = s[1].document
      BY <2>3, <3>1, ViewTold
    <3> QED
      BY <2>1, <2>3, <3>2
  <2>4. CASE ~Tells(s, 1, f)
    <3>1. \A j \in 1..(n + 1) : ~Tells(s, j, f)
      BY <2>2, <2>4
    <3>2. ViewOf(s, v, f, n + 1) = v[f]
      BY <3>1, ViewUntold
    <3> QED
      BY <2>1, <2>4, <3>2
  <2> QED
    BY <2>3, <2>4
<1>3. CASE ~\A j \in 1..n : ~Tells(z, j, f)
  <2>1. PICK k \in 1..n : /\ Tells(z, k, f)
                          /\ \A j \in (k + 1)..n : ~Tells(z, j, f)
    BY <1>3, LastTold
  <2>2. ViewOf(z, w, f, n) = z[k].document
    BY <2>1, ViewTold
  <2>3. k + 1 \in 1..(n + 1) /\ Tells(s, k + 1, f)
    BY <1>1, <2>1
  <2>4. \A j \in (k + 1 + 1)..(n + 1) : ~Tells(s, j, f)
    <3> SUFFICES ASSUME NEW j \in (k + 1 + 1)..(n + 1)
                 PROVE  ~Tells(s, j, f)
      OBVIOUS
    <3>1. j - 1 \in (k + 1)..n /\ j - 1 \in 1..n /\ (j - 1) + 1 = j
      OBVIOUS
    <3> QED
      BY <1>1, <2>1, <3>1
  <2>5. ViewOf(s, v, f, n + 1) = s[k + 1].document
    BY <2>3, <2>4, ViewTold
  <2> QED
    BY <2>2, <2>5
<1> QED
  BY <1>2, <1>3

-----------------------------------------------------------------------------
(* The inductive invariant: the stream                                     *)

\* What the server has open before message n + 1, and after the last one.
Seen(f, n) == ViewOf(queue, view, f, n)
View(f) == Seen(f, Len(queue))

MessageInv ==
  \A k \in 1..Len(queue) :
    queue[k].document = Untracked <=> queue[k].kind = "didClose"

\* How far a call is says whether it has a document and whether it is a retry.
PathOK(c) ==
  /\ c.pc \in {"idle", "locking", "reading", "updating", "notifying",
               "sending"} => c.attempt = 0
  /\ c.pc \in {"validating", "resending"} => c.attempt > 0
  /\ c.pc \in {"notifying", "sending", "waiting", "relocking", "validating",
               "resending"} => c.document # Untracked
PathInv == \A q \in Queries : PathOK(query[q])

\* Closing the documents ends all synchronization, and what is still to be
\* closed is open.
ClosedInv ==
  /\ closed =>
       /\ \A q \in Queries : ~At(q, "notifying") /\ ~At(q, "resending")
       /\ \A f \in closing \ lost : View(f) # Untracked
  /\ ~closed =>
       /\ closing = {}
       /\ \A k \in 1..Len(queue) : queue[k].kind # "didClose"

\* The store is one notification ahead of the queue while a call is between
\* its update and its notification, and otherwise says what the queue says.
Notifying(q, f) == At(q, "notifying") /\ query[q].file = f
NoticeFits(notice, d, open) ==
  /\ notice = "none" => Same(open, d)
  /\ notice = "didOpen" => open = Untracked /\ d.version = 1
  /\ notice = "didChange" =>
       open # Untracked /\ d.version = open.version + 1
FollowInv ==
  /\ ~closed => \A f \in Files \ lost :
       (\A q \in Queries : ~Notifying(q, f)) => Same(View(f), store[f])
  /\ \A q \in Queries : At(q, "notifying") =>
       LET f == query[q].file
           d == query[q].document
       IN /\ store[f] = d
          /\ f \notin lost => NoticeFits(query[q].notice, d, View(f))

\* A call that is about to send its query has a document the server has open,
\* or had before a later version; one that is about to send it again has the
\* document of the store.
Current(d, open) == open # Untracked /\ d.version <= open.version
SendInv ==
  \A q \in Queries :
    LET f == query[q].file
        d == query[q].document
    IN /\ At(q, "sending") /\ f \notin lost /\ ~closed => Current(d, View(f))
       /\ At(q, "sending") /\ f \notin lost /\ View(f) # Untracked =>
            Current(d, View(f))
       /\ At(q, "resending") => Same(store[f], d)

\* StreamWellFormed and QueriesSeeTheirDocument, message by message.
Formed(m, before) ==
  /\ m.kind = "didOpen" => before = Untracked /\ m.document.version = 1
  /\ m.kind = "didChange" =>
       before # Untracked /\ m.document.version = before.version + 1
  /\ m.kind = "didClose" => before # Untracked
Answered(m, seen, over, attempt) ==
  /\ seen = Untracked => over /\ attempt = 0
  /\ seen # Untracked => m.document.version <= seen.version
  /\ attempt > 0 => Same(seen, m.document)
FormedInv ==
  \A k \in 1..Len(queue) : queue[k].file \notin lost =>
    Formed(queue[k], Seen(queue[k].file, k - 1))
LastWordInv ==
  \A j, k \in 1..Len(queue) : queue[k].kind = "didClose" /\ k <= j =>
    queue[j].kind \notin {"didOpen", "didChange"}
AnsweredInv ==
  \A k \in 1..Len(queue) :
    queue[k].kind = "query" /\ queue[k].file \notin lost =>
      Answered(queue[k], Seen(queue[k].file, k - 1), closed,
               query[queue[k].query].attempt)

StreamInv ==
  /\ TInv /\ MessageInv /\ PathInv /\ ClosedInv /\ FollowInv /\ SendInv
  /\ FormedInv /\ LastWordInv /\ AnsweredInv

-----------------------------------------------------------------------------
(* What a step does to the view                                            *)

LEMMA SameDocuments ==
  /\ \A d : Same(d, d)
  /\ \A d, e : Same(d, e) => Same(e, d)
  /\ \A d, e, g : Same(d, e) /\ Same(e, g) => Same(d, g)
  /\ \A d, e : Same(d, e) => (d = Untracked <=> e = Untracked)
  /\ \A d, e : Same(d, e) /\ d # Untracked => d.version = e.version
  BY DEF Same

LEMMA AppendView ==
  ASSUME SharedOK, NEW m \in Messages, queue' = Append(queue, m), view' = view
  PROVE  /\ \A f, n : n \in 0..Len(queue) => Seen(f, n)' = Seen(f, n)
         /\ \A f : View(f)' = IF m.file = f /\ m.kind \in DocumentKinds
                              THEN m.document ELSE View(f)
<1> DEFINE l == Len(queue)
<1>1. /\ l \in Nat /\ Len(queue') = l + 1 /\ queue'[l + 1] = m
      /\ \A k \in 1..l : queue'[k] = queue[k]
  BY QueueAppend
<1> HIDE DEF l
<1>2. ASSUME NEW f, NEW n \in 0..l
      PROVE  ViewOf(queue', view', f, n) = ViewOf(queue, view, f, n)
  <2>1. n \in Nat /\ \A k \in 1..n : queue'[k] = queue[k]
    BY <1>1
  <2>2. \A z : (\A k \in 1..n : z[k] = queue[k]) =>
                 ViewOf(z, view, f, n) = ViewOf(queue, view, f, n)
    BY <2>1, ViewStays
  <2> QED
    BY <2>1, <2>2
<1>3. ASSUME NEW f
      PROVE  ViewOf(queue', view', f, l + 1) =
               IF m.file = f /\ m.kind \in DocumentKinds
               THEN m.document ELSE ViewOf(queue, view, f, l)
  <2>1. ViewOf(queue', view', f, l + 1) =
          IF Tells(queue', l + 1, f) THEN queue'[l + 1].document
          ELSE ViewOf(queue', view', f, l)
    BY <1>1, ViewNext
  <2>2. ViewOf(queue', view', f, l) = ViewOf(queue, view, f, l)
    BY <1>1, <1>2
  <2> QED
    BY <1>1, <2>1, <2>2 DEF Tells
<1>4. \A f, n : n \in 0..Len(queue) => Seen(f, n)' = Seen(f, n)
  BY <1>2 DEF Seen, l
<1>5. \A f : View(f)' = IF m.file = f /\ m.kind \in DocumentKinds
                        THEN m.document ELSE View(f)
  BY <1>1, <1>3 DEF View, Seen, l
<1> QED
  BY <1>4, <1>5

LEMMA ReadView ==
  ASSUME SharedOK, MessageInv, ServerReads
  PROVE  /\ \A f \in Files, n \in 0..Len(queue') :
              Seen(f, n)' = Seen(f, n + 1)
         /\ \A f \in Files : View(f)' = View(f)
<1> DEFINE m == queue[1]
<1>1. queue # <<>> /\ queue' = Tail(queue) /\ Head(queue) = m
  BY DEF ServerReads, SharedOK
<1>2. /\ Len(queue) \in Nat \ {0} /\ Len(queue') = Len(queue) - 1
      /\ \A k \in 1..Len(queue') : queue'[k] = queue[k + 1]
  BY <1>1, QueueTail
<1>3. /\ m.kind \in DocumentKinds \cup {"query"}
      /\ m.file \in Files /\ m.document \in Documents
  BY <1>1, HeadOK DEF Messages
<1>4. m.document = Untracked <=> m.kind = "didClose"
  BY <1>2 DEF MessageInv
<1>5. view \in [Files -> Documents]
  BY DEF SharedOK
<1>6. \A f \in Files :
        view'[f] = IF Tells(queue, 1, f) THEN m.document ELSE view[f]
  <2>1. CASE m.kind \in {"didOpen", "didChange"}
    <3>1. view' = [view EXCEPT ![m.file] = m.document]
      BY <1>1, <2>1 DEF ServerReads
    <3> QED
      BY <1>5, <2>1, <3>1 DEF Tells, DocumentKinds
  <2>2. CASE m.kind = "didClose"
    <3>1. view' = [view EXCEPT ![m.file] = Untracked]
      BY <1>1, <2>2 DEF ServerReads
    <3> QED
      BY <1>4, <1>5, <2>2, <3>1 DEF Tells, DocumentKinds
  <2>3. CASE m.kind = "query"
    <3>1. view' = view
      BY <1>1, <2>3 DEF ServerReads
    <3> QED
      BY <2>3, <3>1 DEF Tells, DocumentKinds
  <2> QED
    BY <1>3, <2>1, <2>2, <2>3 DEF DocumentKinds
<1> HIDE DEF m
<1>7. ASSUME NEW f \in Files, NEW n \in 0..Len(queue')
      PROVE  ViewOf(queue', view', f, n) = ViewOf(queue, view, f, n + 1)
  <2>1. n \in Nat /\ \A k \in 1..n : queue'[k] = queue[k + 1]
    BY <1>2
  <2>2. view'[f] = IF Tells(queue, 1, f) THEN queue[1].document ELSE view[f]
    BY <1>6 DEF m
  <2> QED
    BY <2>1, <2>2, ViewRead, SMTT(20)
<1>8. \A f \in Files, n \in 0..Len(queue') : Seen(f, n)' = Seen(f, n + 1)
  BY <1>7 DEF Seen
<1>9. ASSUME NEW f \in Files PROVE View(f)' = View(f)
  <2>1. Len(queue') \in 0..Len(queue') /\ Len(queue') + 1 = Len(queue)
    BY <1>2
  <2>2. ViewOf(queue', view', f, Len(queue'))
          = ViewOf(queue, view, f, Len(queue))
    BY <1>7, <2>1
  <2> QED
    BY <2>2 DEF View, Seen
<1> QED
  BY <1>8, <1>9

-----------------------------------------------------------------------------
(* What a step does to the messages                                        *)

\* A call that waits for the answer keeps the number of its attempt.
AttemptsStay ==
  \A p \in Queries : At(p, "waiting") => query'[p].attempt = query[p].attempt

\* What holds of each message, in one formula.
MessagesOK == MessageInv /\ FormedInv /\ LastWordInv /\ AnsweredInv

LEMMA AttemptKept ==
  ASSUME WaitInv, AttemptsStay, NEW k \in 1..Len(queue),
         queue[k].kind = "query"
  PROVE  query'[queue[k].query].attempt = query[queue[k].query].attempt
  BY DEF WaitInv, CallWaits, AttemptsStay

LEMMA MessagesFrame ==
  ASSUME WaitInv, MessagesOK, queue' = queue, view' = view,
         lost \subseteq lost', closed => closed', AttemptsStay
  PROVE  MessagesOK'
<1> USE DEF MessagesOK
<1>1. \A f, n : Seen(f, n)' = Seen(f, n)
  BY DEF Seen
<1>2. MessageInv' /\ LastWordInv'
  BY DEF MessageInv, LastWordInv
<1>3. FormedInv'
  BY <1>1 DEF FormedInv
<1>4. ASSUME NEW k \in 1..Len(queue), queue[k].kind = "query",
             queue[k].file \notin lost'
      PROVE  Answered(queue[k], Seen(queue[k].file, k - 1), closed',
                      query'[queue[k].query].attempt)
  <2>1. query'[queue[k].query].attempt = query[queue[k].query].attempt
    BY <1>4, AttemptKept
  <2>2. Answered(queue[k], Seen(queue[k].file, k - 1), closed,
                 query[queue[k].query].attempt)
    BY <1>4 DEF AnsweredInv
  <2> QED
    BY <2>1, <2>2 DEF Answered
<1>5. AnsweredInv'
  BY <1>1, <1>4 DEF AnsweredInv
<1> QED
  BY <1>2, <1>3, <1>5

\* The first message is gone, and the server has what it said.
LEMMA MessagesRead ==
  ASSUME SharedOK, WaitInv, MessagesOK, ServerReads, AttemptsStay
  PROVE  MessagesOK'
<1> USE DEF MessagesOK
<1> DEFINE l == Len(queue')
<1>1. queue # <<>> /\ queue' = Tail(queue) /\ lost' = lost /\ closed' = closed
  BY DEF ServerReads
<1>2. ASSUME NEW k \in 1..l
      PROVE  /\ k + 1 \in 1..Len(queue) /\ queue'[k] = queue[k + 1]
             /\ queue[k + 1].file \in Files /\ k - 1 \in 0..l
             /\ (k - 1) + 1 = (k + 1) - 1
  <2>1. /\ Len(queue) \in Nat \ {0} /\ l = Len(queue) - 1
        /\ queue'[k] = queue[k + 1]
    BY <1>1, QueueTail
  <2>2. queue \in Seq(Messages) /\ k + 1 \in 1..Len(queue)
    BY <2>1 DEF SharedOK
  <2>3. queue[k + 1] \in Messages
    BY <2>2
  <2>4. k - 1 \in 0..l /\ (k - 1) + 1 = (k + 1) - 1
    BY <2>1
  <2> QED
    BY <2>1, <2>2, <2>3, <2>4 DEF Messages
<1>3. \A f \in Files, n \in 0..l : Seen(f, n)' = Seen(f, n + 1)
  BY ReadView
<1> HIDE DEF l
<1>4. ASSUME NEW k \in 1..l
      PROVE  Seen(queue[k].file, k - 1)' = Seen(queue[k + 1].file, (k + 1) - 1)
  <2>1. Seen(queue[k + 1].file, (k + 1) - 1)
          = Seen(queue[k + 1].file, (k - 1) + 1)
    BY <1>2
  <2>2. \A f : f = queue[k + 1].file => Seen(f, k - 1)' = Seen(f, (k - 1) + 1)
    BY <1>2, <1>3
  <2>3. \A f : f = queue'[k].file => ViewOf(queue', view', f, k - 1)
                                       = Seen(f, (k - 1) + 1)
    BY <1>2, <2>2 DEF Seen
  <2> QED
    BY <1>2, <2>1, <2>3 DEF Seen
<1>5. MessageInv'
  BY <1>2 DEF MessageInv, l
<1>6. LastWordInv'
  <2> SUFFICES ASSUME NEW j \in 1..l, NEW k \in 1..l,
                      queue'[k].kind = "didClose", k <= j
               PROVE  queue'[j].kind \notin {"didOpen", "didChange"}
    BY DEF LastWordInv, l
  <2>1. /\ j + 1 \in 1..Len(queue) /\ k + 1 \in 1..Len(queue)
        /\ k + 1 <= j + 1 /\ queue'[j] = queue[j + 1]
        /\ queue[k + 1].kind = "didClose"
    BY <1>2
  <2> QED
    BY <2>1 DEF LastWordInv
<1>7. FormedInv'
  <2> SUFFICES ASSUME NEW k \in 1..l, queue'[k].file \notin lost'
               PROVE  Formed(queue'[k], Seen(queue[k].file, k - 1)')
    BY DEF FormedInv, l
  <2>1. k + 1 \in 1..Len(queue) /\ queue'[k] = queue[k + 1]
        /\ queue[k + 1].file \notin lost
    BY <1>1, <1>2
  <2>2. Formed(queue[k + 1], Seen(queue[k + 1].file, (k + 1) - 1))
    BY <2>1 DEF FormedInv
  <2> QED
    BY <1>4, <2>1, <2>2
<1>8. AnsweredInv'
  <2> SUFFICES ASSUME NEW k \in 1..l, queue'[k].kind = "query",
                      queue'[k].file \notin lost'
               PROVE  Answered(queue'[k], Seen(queue[k].file, k - 1)', closed',
                               query'[queue'[k].query].attempt)
    BY DEF AnsweredInv, l
  <2>1. k + 1 \in 1..Len(queue) /\ queue'[k] = queue[k + 1]
        /\ queue[k + 1].file \notin lost /\ queue[k + 1].kind = "query"
    BY <1>1, <1>2
  <2>2. Answered(queue[k + 1], Seen(queue[k + 1].file, (k + 1) - 1), closed,
                 query[queue[k + 1].query].attempt)
    BY <2>1 DEF AnsweredInv
  <2>3. query'[queue[k + 1].query].attempt = query[queue[k + 1].query].attempt
    BY <2>1, AttemptKept
  <2> QED
    BY <1>1, <1>4, <2>1, <2>2, <2>3
<1> QED
  BY <1>5, <1>6, <1>7, <1>8

\* A new last message fits what the server will have open before it.
Fits(m) ==
  /\ m.document = Untracked <=> m.kind = "didClose"
  /\ m.file \notin lost => Formed(m, View(m.file))
  /\ m.kind \in {"didOpen", "didChange"} =>
       \A j \in 1..Len(queue) : queue[j].kind # "didClose"
  /\ m.kind = "query" /\ m.file \notin lost =>
       Answered(m, View(m.file), closed, query'[m.query].attempt)

LEMMA MessagesAppend ==
  ASSUME SharedOK, WaitInv, MessagesOK, NEW m \in Messages,
         queue' = Append(queue, m), view' = view, lost' = lost,
         closed' = closed, AttemptsStay, Fits(m)
  PROVE  MessagesOK'
<1> USE DEF MessagesOK
<1> DEFINE l == Len(queue)
<1>1. /\ l \in Nat /\ Len(queue') = l + 1 /\ queue'[l + 1] = m
      /\ \A k \in 1..l : queue'[k] = queue[k]
  BY QueueAppend
<1>2. \A f, n : n \in 0..l => Seen(f, n)' = Seen(f, n)
  BY AppendView
<1> HIDE DEF l
<1>3. ASSUME NEW k \in 1..Len(queue')
      PROVE  \/ k \in 1..l /\ queue'[k] = queue[k]
             \/ k = l + 1 /\ queue'[k] = m
  BY <1>1
<1>4. ASSUME NEW k \in 1..l
      PROVE  Seen(queue[k].file, k - 1)' = Seen(queue[k].file, k - 1)
  <2>1. \A f : Seen(f, k - 1)' = Seen(f, k - 1)
    BY <1>1, <1>2
  <2>2. queue'[k] = queue[k]
    BY <1>1
  <2> QED
    BY <2>1, <2>2 DEF Seen
<1>5. ASSUME NEW k \in 1..Len(queue'), k = l + 1
      PROVE  Seen(queue[k].file, k - 1)' = View(m.file)
  <2>1. \A f : Seen(f, k - 1)' = Seen(f, k - 1)
    BY <1>1, <1>2, <1>5
  <2>2. queue'[k] = m /\ k - 1 = Len(queue)
    BY <1>1, <1>5 DEF l
  <2> QED
    BY <2>1, <2>2 DEF Seen, View
<1>6. MessageInv'
  <2> SUFFICES ASSUME NEW k \in 1..Len(queue')
               PROVE  queue'[k].document = Untracked
                        <=> queue'[k].kind = "didClose"
    BY DEF MessageInv
  <2> QED
    BY <1>3 DEF MessageInv, Fits, l
<1>7. LastWordInv'
  <2> SUFFICES ASSUME NEW j \in 1..Len(queue'), NEW k \in 1..Len(queue'),
                      queue'[k].kind = "didClose", k <= j
               PROVE  queue'[j].kind \notin {"didOpen", "didChange"}
    BY DEF LastWordInv
  <2>1. CASE j \in 1..l
    <3>1. k \in 1..l /\ queue'[k] = queue[k] /\ queue'[j] = queue[j]
      BY <1>1, <2>1
    <3> QED
      BY <2>1, <3>1 DEF LastWordInv, l
  <2>2. CASE j = l + 1 /\ k \in 1..l
    <3>1. queue'[k] = queue[k] /\ queue'[j] = m
      BY <1>1, <2>2
    <3> QED
      BY <2>2, <3>1 DEF Fits, l
  <2>3. CASE j = l + 1 /\ k = l + 1
    BY <1>1, <2>3
  <2> QED
    BY <1>3, <2>1, <2>2, <2>3
<1>8. FormedInv'
  <2> SUFFICES ASSUME NEW k \in 1..Len(queue'), queue'[k].file \notin lost'
               PROVE  Formed(queue'[k], Seen(queue[k].file, k - 1)')
    BY DEF FormedInv
  <2>1. CASE k \in 1..l /\ queue'[k] = queue[k]
    <3>1. Formed(queue[k], Seen(queue[k].file, k - 1))
      BY <2>1 DEF FormedInv, l
    <3> QED
      BY <1>4, <2>1, <3>1
  <2>2. CASE k = l + 1 /\ queue'[k] = m
    BY <1>5, <2>2 DEF Fits
  <2> QED
    BY <1>3, <2>1, <2>2
<1>9. AnsweredInv'
  <2> SUFFICES ASSUME NEW k \in 1..Len(queue'), queue'[k].kind = "query",
                      queue'[k].file \notin lost'
               PROVE  Answered(queue'[k], Seen(queue[k].file, k - 1)', closed',
                               query'[queue'[k].query].attempt)
    BY DEF AnsweredInv
  <2>1. CASE k \in 1..l /\ queue'[k] = queue[k]
    <3>1. Answered(queue[k], Seen(queue[k].file, k - 1), closed,
                   query[queue[k].query].attempt)
      BY <2>1 DEF AnsweredInv, l
    <3>2. query'[queue[k].query].attempt = query[queue[k].query].attempt
      BY <2>1, AttemptKept DEF l
    <3> QED
      BY <1>4, <2>1, <3>1, <3>2
  <2>2. CASE k = l + 1 /\ queue'[k] = m
    BY <1>5, <2>2 DEF Fits
  <2> QED
    BY <1>3, <2>1, <2>2
<1> QED
  BY <1>6, <1>7, <1>8, <1>9

-----------------------------------------------------------------------------
(* Steps that neither synchronize nor close                                *)

NotifiersStay ==
  \A p \in Queries :
    /\ At(p, "notifying")' <=> At(p, "notifying")
    /\ At(p, "notifying") =>
         /\ query'[p].file = query[p].file
         /\ query'[p].document = query[p].document
         /\ query'[p].notice = query[p].notice
SendersStay ==
  \A p \in Queries :
    /\ At(p, "sending")' => At(p, "sending")
    /\ At(p, "resending")' =>
         \/ At(p, "resending")
         \/ ~closed /\ Same(store[query[p].file], query[p].document)
    /\ At(p, "sending")' \/ At(p, "resending")' =>
         /\ query'[p].file = query[p].file
         /\ query'[p].document = query[p].document
ClosesStay ==
  (\A k \in 1..Len(queue) : queue[k].kind # "didClose") =>
    \A k \in 1..Len(queue') : queue'[k].kind # "didClose"

\* The store and what the queue says of it are left as they are.
Quiet ==
  /\ store' = store /\ closed' = closed /\ closing' = closing /\ lost' = lost
  /\ \A f \in Files : View(f)' = View(f)
  /\ NotifiersStay /\ SendersStay /\ ClosesStay

LEMMA QuietKeepsClosed ==
  ASSUME TInv, ClosedInv, Quiet
  PROVE  ClosedInv'
<1>1. closed' = closed /\ closing' = closing /\ lost' = lost
      /\ \A f \in Files : View(f)' = View(f)
  BY DEF Quiet
<1>2. ASSUME closed
      PROVE  /\ \A p \in Queries : ~At(p, "notifying")' /\ ~At(p, "resending")'
             /\ \A f \in closing \ lost : View(f)' # Untracked
  <2>1. \A p \in Queries : ~At(p, "notifying")' /\ ~At(p, "resending")'
    BY <1>2 DEF ClosedInv, Quiet, NotifiersStay, SendersStay
  <2>2. closing \subseteq Files
    BY DEF TInv, SharedOK
  <2> QED
    BY <1>1, <1>2, <2>1, <2>2 DEF ClosedInv
<1>3. ASSUME ~closed
      PROVE  /\ closing = {}
             /\ \A k \in 1..Len(queue') : queue'[k].kind # "didClose"
  BY <1>3 DEF ClosedInv, Quiet, ClosesStay
<1> QED
  BY <1>1, <1>2, <1>3 DEF ClosedInv

LEMMA QuietKeepsFollow ==
  ASSUME TInv, FollowInv, Quiet
  PROVE  FollowInv'
<1>1. closed' = closed /\ store' = store /\ lost' = lost
      /\ \A f \in Files : View(f)' = View(f)
  BY DEF Quiet
<1>2. \A p \in Queries, f \in Files : Notifying(p, f)' <=> Notifying(p, f)
  BY DEF Quiet, NotifiersStay, Notifying, At
<1>3. ASSUME NEW f \in Files \ lost, ~closed,
             \A p \in Queries : ~Notifying(p, f)'
      PROVE  Same(View(f)', store'[f])
  BY <1>1, <1>2, <1>3 DEF FollowInv
<1>4. ASSUME NEW p \in Queries, At(p, "notifying")'
      PROVE  /\ store'[query'[p].file] = query'[p].document
             /\ query'[p].file \notin lost' =>
                  NoticeFits(query'[p].notice, query'[p].document,
                             View(query[p].file)')
  <2>1. /\ At(p, "notifying") /\ query'[p].file = query[p].file
        /\ query'[p].document = query[p].document
        /\ query'[p].notice = query[p].notice
    BY <1>4 DEF Quiet, NotifiersStay
  <2>2. query[p].file \in Files
    BY DEF TInv, CallsOK, Calls
  <2>3. View(query[p].file)' = View(query[p].file)
    <3>1. \A f : f = query[p].file => View(f)' = View(f)
      BY <1>1, <2>2
    <3> QED
      BY <2>1, <3>1 DEF View, Seen
  <2> QED
    BY <1>1, <2>1, <2>3 DEF FollowInv
<1> QED
  BY <1>1, <1>3, <1>4 DEF FollowInv

LEMMA QuietKeepsSend ==
  ASSUME TInv, SendInv, Quiet
  PROVE  SendInv'
<1>1. closed' = closed /\ store' = store /\ lost' = lost
      /\ \A f \in Files : View(f)' = View(f)
  BY DEF Quiet
<1>2. ASSUME NEW p \in Queries, At(p, "sending")' \/ At(p, "resending")'
      PROVE  /\ query'[p].file = query[p].file
             /\ query'[p].document = query[p].document
             /\ View(query[p].file)' = View(query[p].file)
  <2>1. query'[p].file = query[p].file
        /\ query'[p].document = query[p].document
    BY <1>2 DEF Quiet, SendersStay
  <2>2. query[p].file \in Files
    BY DEF TInv, CallsOK, Calls
  <2>3. \A f : f = query[p].file => View(f)' = View(f)
    BY <1>1, <2>2
  <2> QED
    BY <2>1, <2>3 DEF View, Seen
<1>3. ASSUME NEW p \in Queries, At(p, "sending")', query'[p].file \notin lost'
      PROVE  /\ ~closed' => Current(query'[p].document, View(query[p].file)')
             /\ View(query[p].file)' # Untracked =>
                  Current(query'[p].document, View(query[p].file)')
  <2>1. At(p, "sending")
    BY <1>3 DEF Quiet, SendersStay
  <2> QED
    BY <1>1, <1>2, <1>3, <2>1 DEF SendInv
<1>4. ASSUME NEW p \in Queries, At(p, "resending")'
      PROVE  Same(store'[query'[p].file], query'[p].document)
  <2>1. \/ At(p, "resending")
        \/ Same(store[query[p].file], query[p].document)
    BY <1>4 DEF Quiet, SendersStay
  <2> QED
    BY <1>1, <1>2, <1>4, <2>1 DEF SendInv
<1> QED
  BY <1>3, <1>4 DEF SendInv

-----------------------------------------------------------------------------
(* The quiet steps                                                         *)

Others(q) == \A p \in Queries \ {q} : query'[p] = query[p]

LEMMA GotoCall ==
  ASSUME CallsOK, NEW q \in Queries, NEW pc, Goto(q, pc)
  PROVE  /\ Others(q)
         /\ query'[q].pc = pc
         /\ query'[q].file = query[q].file
         /\ query'[q].document = query[q].document
         /\ query'[q].notice = query[q].notice
         /\ query'[q].attempt = query[q].attempt
<1>1. Others(q)
  BY DEF CallsOK, Goto, Others
<1> QED
  BY <1>1, PcAfterGoto

LEMMA CalmMove ==
  ASSUME NEW q \in Queries, Others(q), query[q].pc # "notifying",
         query'[q].pc \notin {"notifying", "sending"},
         query'[q].pc = "resending" =>
           /\ ~closed /\ Same(store[query[q].file], query[q].document)
           /\ query'[q].file = query[q].file
           /\ query'[q].document = query[q].document
  PROVE  NotifiersStay /\ SendersStay
<1>1. ASSUME NEW p \in Queries \ {q}
      PROVE  query'[p] = query[p]
  BY DEF Others
<1>2. NotifiersStay
  <2> SUFFICES ASSUME NEW p \in Queries
               PROVE  /\ query'[p].pc = "notifying"
                           <=> query[p].pc = "notifying"
                      /\ query[p].pc = "notifying" =>
                           /\ query'[p].file = query[p].file
                           /\ query'[p].document = query[p].document
                           /\ query'[p].notice = query[p].notice
    BY DEF NotifiersStay, At
  <2>1. CASE p = q
    BY <2>1
  <2>2. CASE p # q
    BY <1>1, <2>2
  <2> QED
    BY <2>1, <2>2
<1>3. SendersStay
  <2> SUFFICES ASSUME NEW p \in Queries
               PROVE  /\ query'[p].pc = "sending" => query[p].pc = "sending"
                      /\ query'[p].pc = "resending" =>
                           \/ query[p].pc = "resending"
                           \/ /\ ~closed
                              /\ Same(store[query[p].file], query[p].document)
                      /\ query'[p].pc = "sending" \/ query'[p].pc = "resending"
                           => /\ query'[p].file = query[p].file
                              /\ query'[p].document = query[p].document
    BY DEF SendersStay, At
  <2>1. CASE p = q
    BY <2>1
  <2>2. CASE p # q
    BY <1>1, <2>2
  <2> QED
    BY <2>1, <2>2
<1> QED
  BY <1>2, <1>3

LEMMA QuietMove ==
  ASSUME queue' = queue, view' = view, store' = store, closed' = closed,
         closing' = closing, lost' = lost, NotifiersStay, SendersStay
  PROVE  Quiet
<1>1. \A f \in Files : View(f)' = View(f)
  BY DEF View, Seen
<1>2. ClosesStay
  BY DEF ClosesStay
<1> QED
  BY <1>1, <1>2 DEF Quiet

LEMMA QuietQuery ==
  ASSUME SharedOK, NEW m \in Messages, m.kind = "query",
         queue' = Append(queue, m), view' = view, store' = store,
         closed' = closed, closing' = closing, lost' = lost,
         NotifiersStay, SendersStay
  PROVE  Quiet
<1>1. \A f : View(f)' = IF m.file = f /\ m.kind \in DocumentKinds
                        THEN m.document ELSE View(f)
  BY AppendView
<1>2. m.kind \notin DocumentKinds
  BY DEF DocumentKinds
<1>3. \A f \in Files : View(f)' = View(f)
  BY <1>1, <1>2
<1>4. /\ Len(queue) \in Nat /\ Len(queue') = Len(queue) + 1
      /\ \A k \in 1..Len(queue) : queue'[k] = queue[k]
      /\ queue'[Len(queue) + 1] = m
  BY QueueAppend
<1>5. ClosesStay
  <2> SUFFICES ASSUME \A k \in 1..Len(queue) : queue[k].kind # "didClose",
                      NEW k \in 1..Len(queue')
               PROVE  queue'[k].kind # "didClose"
    BY DEF ClosesStay
  <2>1. k \in 1..Len(queue) \/ k = Len(queue) + 1
    BY <1>4
  <2> QED
    BY <1>4, <2>1
<1> QED
  BY <1>3, <1>5 DEF Quiet

LEMMA QuietEdit ==
  ASSUME NEW f \in Files, NEW t \in Texts, Edit(f, t)
  PROVE  Quiet
<1>1. NotifiersStay /\ SendersStay
  BY DEF Edit, NotifiersStay, SendersStay, At
<1> QED
  BY <1>1, QuietMove DEF Edit

LEMMA QuietStutter == UNCHANGED vars => Quiet
<1> SUFFICES ASSUME UNCHANGED vars PROVE Quiet
  OBVIOUS
<1>1. NotifiersStay /\ SendersStay
  BY DEF vars, NotifiersStay, SendersStay, At
<1> QED
  BY <1>1, QuietMove DEF vars

\* A message read changes no call but one that waits.
LEMMA ReadMoves ==
  ASSUME TInv, ServerReads
  PROVE  \/ query' = query
         \/ \E q \in Queries :
              /\ At(q, "waiting")
              /\ Goto(q, "done") \/ Goto(q, "relocking")
<1> DEFINE m == Head(queue)
<1> USE DEF TInv
<1>1. /\ m = queue[1] /\ 1 \in 1..Len(queue)
      /\ m.kind \in DocumentKinds \cup {"query"}
  BY HeadOK DEF ServerReads, Messages, SharedOK
<1>2. CASE m.kind # "query"
  BY <1>1, <1>2 DEF ServerReads, DocumentKinds
<1>3. CASE m.kind = "query"
  <2>1. m.query \in Queries /\ At(m.query, "waiting")
    BY <1>1, <1>3 DEF WaitInv, CallWaits
  <2>2. Goto(m.query, "done") \/ Goto(m.query, "relocking")
    BY <1>3 DEF ServerReads
  <2> QED
    BY <2>1, <2>2
<1> QED
  BY <1>2, <1>3

LEMMA QuietRead ==
  ASSUME TInv, MessageInv, ServerReads
  PROVE  Quiet
<1> USE DEF TInv
<1>1. NotifiersStay /\ SendersStay
  <2>1. CASE query' = query
    BY <2>1 DEF NotifiersStay, SendersStay, At
  <2>2. ASSUME NEW q \in Queries, At(q, "waiting"), NEW pc,
               pc \in {"done", "relocking"}, Goto(q, pc)
        PROVE  NotifiersStay /\ SendersStay
    <3>1. Others(q) /\ query'[q].pc = pc /\ query[q].pc = "waiting"
      BY <2>2, GotoCall DEF At
    <3> QED
      BY <2>2, <3>1, CalmMove
  <2> QED
    BY <2>1, <2>2, ReadMoves
<1>2. queue # <<>> /\ queue' = Tail(queue)
  BY DEF ServerReads
<1>3. \A f \in Files : View(f)' = View(f)
  BY ReadView
<1>4. ClosesStay
  <2>1. /\ Len(queue) \in Nat \ {0} /\ Len(queue') = Len(queue) - 1
        /\ \A k \in 1..Len(queue') : queue'[k] = queue[k + 1]
    BY <1>2, QueueTail
  <2> SUFFICES ASSUME \A k \in 1..Len(queue) : queue[k].kind # "didClose",
                      NEW k \in 1..Len(queue')
               PROVE  queue'[k].kind # "didClose"
    BY DEF ClosesStay
  <2>2. k + 1 \in 1..Len(queue) /\ queue'[k] = queue[k + 1]
    BY <2>1
  <2> QED
    BY <2>2
<1> QED
  BY <1>1, <1>3, <1>4 DEF Quiet, ServerReads

LEMMA QuietLock ==
  ASSUME TInv, NEW q \in Queries, Lock(q)
  PROVE  Quiet
<1>1. query[q].pc # "notifying"
  BY DEF Lock, At
<1>2. Others(q) /\ query'[q].pc \notin {"notifying", "sending", "resending"}
  BY GotoCall DEF Lock, TInv
<1>3. NotifiersStay /\ SendersStay
  BY <1>1, <1>2, CalmMove
<1> QED
  BY <1>3, QuietMove DEF Lock

LEMMA QuietReadFails ==
  ASSUME TInv, NEW q \in Queries, ReadFails(q)
  PROVE  Quiet
<1>1. query[q].pc # "notifying"
  BY DEF ReadFails, At
<1>2. Others(q) /\ query'[q].pc \notin {"notifying", "sending", "resending"}
  BY GotoCall DEF ReadFails, TInv
<1>3. NotifiersStay /\ SendersStay
  BY <1>1, <1>2, CalmMove
<1> QED
  BY <1>3, QuietMove DEF ReadFails

LEMMA QuietUpdateRefused ==
  ASSUME TInv, NEW q \in Queries, UpdateRefused(q)
  PROVE  Quiet
<1>1. query[q].pc # "notifying"
  BY DEF UpdateRefused, At
<1>2. Others(q) /\ query'[q].pc \notin {"notifying", "sending", "resending"}
  BY GotoCall DEF UpdateRefused, TInv
<1>3. NotifiersStay /\ SendersStay
  BY <1>1, <1>2, CalmMove
<1> QED
  BY <1>3, QuietMove DEF UpdateRefused

LEMMA QuietBegin ==
  ASSUME TInv, NEW q \in Queries, NEW f \in Files, Begin(q, f)
  PROVE  Quiet
<1>1. query[q].pc # "notifying"
  BY DEF Begin, At
<1>2. Others(q) /\ query'[q].pc \notin {"notifying", "sending", "resending"}
  BY DEF Begin, Others, TInv, CallsOK, Calls
<1>3. NotifiersStay /\ SendersStay
  BY <1>1, <1>2, CalmMove
<1> QED
  BY <1>3, QuietMove DEF Begin

LEMMA QuietReading ==
  ASSUME TInv, NEW q \in Queries, Read(q)
  PROVE  Quiet
<1>1. query[q].pc # "notifying"
  BY DEF Read, At
<1>2. Others(q) /\ query'[q].pc \notin {"notifying", "sending", "resending"}
  BY DEF Read, Others, TInv, CallsOK, Calls
<1>3. NotifiersStay /\ SendersStay
  BY <1>1, <1>2, CalmMove
<1> QED
  BY <1>3, QuietMove DEF Read

LEMMA QuietRelock ==
  ASSUME TInv, NEW q \in Queries, Relock(q)
  PROVE  Quiet
<1>1. query[q].pc # "notifying"
  BY DEF Relock, At
<1>2. Others(q) /\ query'[q].pc \notin {"notifying", "sending", "resending"}
  BY DEF Relock, Others, TInv, CallsOK, Calls
<1>3. NotifiersStay /\ SendersStay
  BY <1>1, <1>2, CalmMove
<1> QED
  BY <1>3, QuietMove DEF Relock

LEMMA QuietValidate ==
  ASSUME TInv, NEW q \in Queries, Validate(q)
  PROVE  Quiet
<1>1. query[q].pc # "notifying"
  BY DEF Validate, At
<1>2. CASE Matches(q)
  <2>1. Goto(q, "resending")
    BY <1>2 DEF Validate
  <2>2. /\ Others(q) /\ query'[q].pc = "resending"
        /\ query'[q].file = query[q].file
        /\ query'[q].document = query[q].document
    BY <2>1, GotoCall DEF TInv
  <2>3. ~closed /\ Same(store[query[q].file], query[q].document)
    BY <1>2 DEF Matches
  <2>4. NotifiersStay /\ SendersStay
    BY <1>1, <2>2, <2>3, CalmMove
  <2> QED
    BY <2>4, QuietMove DEF Validate
<1>3. CASE ~Matches(q)
  <2>1. Goto(q, "failed")
    BY <1>3 DEF Validate
  <2>2. Others(q) /\ query'[q].pc = "failed"
    BY <2>1, GotoCall DEF TInv
  <2>3. NotifiersStay /\ SendersStay
    BY <1>1, <2>2, CalmMove
  <2> QED
    BY <2>3, QuietMove DEF Validate
<1> QED
  BY <1>2, <1>3

LEMMA QuietSend ==
  ASSUME TInv, NEW q \in Queries, Send(q)
  PROVE  Quiet
<1>1. query[q].pc # "notifying"
  BY DEF Send, At
<1>2. QueryMessage(q) \in Messages /\ QueryMessage(q).kind = "query"
  BY MessageOK DEF TInv, CallsOK, Calls, QueryMessage, DocumentKinds, Message
<1>3. Goto(q, "waiting") \/ Goto(q, "failed")
  BY DEF Send
<1>4. Others(q) /\ query'[q].pc \in {"waiting", "failed"}
  BY <1>3, GotoCall DEF TInv
<1>5. NotifiersStay /\ SendersStay
  BY <1>1, <1>4, CalmMove
<1>6. CASE Room
  BY <1>2, <1>5, <1>6, QuietQuery DEF Send, TInv
<1>7. CASE ~Room
  BY <1>5, <1>7, QuietMove DEF Send
<1> QED
  BY <1>6, <1>7

LEMMA QuietResend ==
  ASSUME TInv, NEW q \in Queries, Resend(q)
  PROVE  Quiet
<1>1. query[q].pc # "notifying"
  BY DEF Resend, At
<1>2. QueryMessage(q) \in Messages /\ QueryMessage(q).kind = "query"
  BY MessageOK DEF TInv, CallsOK, Calls, QueryMessage, DocumentKinds, Message
<1>3. Goto(q, "waiting") \/ Goto(q, "failed")
  BY DEF Resend
<1>4. Others(q) /\ query'[q].pc \in {"waiting", "failed"}
  BY <1>3, GotoCall DEF TInv
<1>5. NotifiersStay /\ SendersStay
  BY <1>1, <1>4, CalmMove
<1>6. CASE Room
  BY <1>2, <1>5, <1>6, QuietQuery DEF Resend, TInv
<1>7. CASE ~Room
  BY <1>5, <1>7, QuietMove DEF Resend
<1> QED
  BY <1>6, <1>7

-----------------------------------------------------------------------------
(* How far each call is                                                    *)

LEMMA PathOne ==
  ASSUME PathInv, NEW q \in Queries, Others(q), PathOK(query'[q])
  PROVE  PathInv'
<1>1. ASSUME NEW p \in Queries PROVE PathOK(query'[p])
  <2>1. CASE p = q
    BY <2>1
  <2>2. CASE p # q
    BY <2>2 DEF Others, PathInv
  <2> QED
    BY <2>1, <2>2
<1> QED
  BY <1>1 DEF PathInv, PathOK

LEMMA PathGoto ==
  ASSUME CallsOK, PathInv, NEW q \in Queries, NEW pc, Goto(q, pc),
         \/ pc \in {"done", "failed"}
         \/ pc = "reading" /\ query[q].pc = "locking"
         \/ pc = "sending" /\ query[q].pc = "notifying"
         \/ pc = "waiting" /\ query[q].pc \in {"sending", "resending"}
         \/ pc = "relocking" /\ query[q].pc = "waiting"
         \/ pc = "resending" /\ query[q].pc = "validating"
  PROVE  PathInv'
<1>1. /\ Others(q) /\ query'[q].pc = pc
      /\ query'[q].document = query[q].document
      /\ query'[q].attempt = query[q].attempt
  BY GotoCall
<1>2. PathOK(query[q])
  BY DEF PathInv
<1>3. PathOK(query'[q])
  BY <1>1, <1>2 DEF PathOK
<1> QED
  BY <1>1, <1>3, PathOne

LEMMA PathStep == TInv /\ PathInv /\ [Next]_vars => PathInv'
<1> SUFFICES ASSUME TInv, PathInv, [Next]_vars PROVE PathInv'
  OBVIOUS
<1>0. CallsOK /\ query \in [Queries -> Calls]
  BY DEF TInv, CallsOK
<1>1. ASSUME NEW f \in Files, NEW t \in Texts, Edit(f, t) PROVE PathInv'
  BY <1>1 DEF Edit, PathInv
<1>2. CASE ServerReads
  <2>1. CASE query' = query
    BY <2>1 DEF PathInv
  <2>2. ASSUME NEW q \in Queries, At(q, "waiting"), NEW pc,
               pc \in {"done", "relocking"}, Goto(q, pc)
        PROVE  PathInv'
    BY <1>0, <2>2, PathGoto DEF At
  <2> QED
    BY <1>2, <2>1, <2>2, ReadMoves
<1>3. ASSUME NEW q \in Queries, NEW f \in Files, Begin(q, f) PROVE PathInv'
  <2>1. /\ Others(q) /\ query'[q].pc = "locking" /\ PathOK(query[q])
        /\ query'[q].attempt = query[q].attempt
        /\ query[q].attempt = 0
    BY <1>0, <1>3 DEF Begin, Others, Calls, PathInv, PathOK, At
  <2>2. PathOK(query'[q])
    BY <2>1 DEF PathOK
  <2> QED
    BY <2>1, <2>2, PathOne
<1>4. ASSUME NEW q \in Queries, Lock(q) PROVE PathInv'
  BY <1>0, <1>4, PathGoto DEF Lock, At
<1>5. ASSUME NEW q \in Queries, Read(q) PROVE PathInv'
  <2>1. /\ Others(q) /\ query'[q].pc = "updating" /\ PathOK(query[q])
        /\ query'[q].attempt = query[q].attempt
        /\ query[q].attempt = 0
    BY <1>0, <1>5 DEF Read, Others, Calls, PathInv, PathOK, At
  <2>2. PathOK(query'[q])
    BY <2>1 DEF PathOK
  <2> QED
    BY <2>1, <2>2, PathOne
<1>6. ASSUME NEW q \in Queries, ReadFails(q) PROVE PathInv'
  BY <1>0, <1>6, PathGoto DEF ReadFails, At
<1>7. ASSUME NEW q \in Queries, Update(q) PROVE PathInv'
  <2> DEFINE d == Synchronized(store[query[q].file], query[q].read[1])
  <2>1. d # Untracked
    <3>1. query[q].read[1] \in Reads /\ query[q].file \in Files
      BY <1>7 DEF Update, TInv, CallsOK, Calls, At
    <3>2. /\ store[query[q].file] \in Documents
          /\ store[query[q].file] # Untracked =>
               /\ store[query[q].file].version
                    <= store[query[q].file].edition + 1
               /\ Older(store[query[q].file], query[q].read[1])
      BY <1>7, <3>1 DEF Update, TInv, EditionInv, SharedOK
    <3> QED
      BY <3>1, <3>2, SynchronizedDocument
  <2> HIDE DEF d
  <2>2. /\ Others(q) /\ query'[q].pc = "notifying" /\ query'[q].document = d
        /\ query'[q].attempt = query[q].attempt
        /\ query[q].pc = "updating"
    BY <1>0, <1>7 DEF Update, Others, Calls, At, d
  <2>3. query[q].attempt = 0
    BY <2>2 DEF PathInv, PathOK
  <2>4. PathOK(query'[q])
    BY <2>1, <2>2, <2>3 DEF PathOK
  <2> QED
    BY <2>2, <2>4, PathOne
<1>8. ASSUME NEW q \in Queries, UpdateRefused(q) PROVE PathInv'
  BY <1>0, <1>8, PathGoto DEF UpdateRefused, At
<1>9. ASSUME NEW q \in Queries, Notify(q) PROVE PathInv'
  BY <1>0, <1>9, PathGoto DEF Notify, At
<1>10. ASSUME NEW q \in Queries, NotifyFails(q) PROVE PathInv'
  BY <1>0, <1>10, PathGoto DEF NotifyFails, At
<1>11. ASSUME NEW q \in Queries, Send(q) PROVE PathInv'
  BY <1>0, <1>11, PathGoto DEF Send, At
<1>12. ASSUME NEW q \in Queries, Relock(q) PROVE PathInv'
  <2>1. /\ Others(q) /\ query'[q].pc = "validating"
        /\ query'[q].document = query[q].document
        /\ query'[q].attempt = query[q].attempt + 1
        /\ query[q].attempt \in Nat /\ query[q].pc = "relocking"
    BY <1>0, <1>12, DocumentsAssumption DEF Relock, Others, Calls, At
  <2>2. query[q].document # Untracked
    BY <2>1 DEF PathInv, PathOK
  <2>3. PathOK(query'[q])
    BY <2>1, <2>2 DEF PathOK
  <2> QED
    BY <2>1, <2>3, PathOne
<1>13. ASSUME NEW q \in Queries, Validate(q) PROVE PathInv'
  BY <1>0, <1>13, PathGoto DEF Validate, At
<1>14. ASSUME NEW q \in Queries, Resend(q) PROVE PathInv'
  BY <1>0, <1>14, PathGoto DEF Resend, At
<1>15. CASE Close
  BY <1>15 DEF Close, PathInv
<1>16. ASSUME NEW f \in Files, AnnounceClose(f) PROVE PathInv'
  BY <1>16 DEF AnnounceClose, PathInv
<1>17. CASE UNCHANGED vars
  BY <1>17 DEF vars, PathInv
<1> QED
  BY <1>1, <1>2, <1>3, <1>4, <1>5, <1>6, <1>7, <1>8, <1>9, <1>10, <1>11,
     <1>12, <1>13, <1>14, <1>15, <1>16, <1>17 DEF Next

-----------------------------------------------------------------------------
(* The steps that synchronize and that close                               *)

\* The notice fits whoever has open what the store said before the update.
LEMMA NoticeForUpdate ==
  ASSUME OpenClose, NEW tracked \in Documents, NEW read \in Reads,
         tracked # Untracked =>
           /\ tracked.version <= tracked.edition + 1
           /\ Older(tracked, read),
         NEW open, Same(open, tracked)
  PROVE  LET d == Synchronized(tracked, read)
         IN NoticeFits(Notice(tracked, d), d, open)
<1> DEFINE d == Synchronized(tracked, read)
<1>1. /\ d # Untracked
      /\ tracked = Untracked => d.version = 1
      /\ tracked # Untracked =>
           \/ d.version = tracked.version /\ d.text = tracked.text
           \/ d.version = tracked.version + 1
  BY SynchronizedDocument
<1> HIDE DEF d
<1>2. CASE tracked = Untracked
  <2>1. Notice(tracked, d) = "didOpen"
    BY <1>2 DEF Notice
  <2>2. open = Untracked
    BY <1>2, SameDocuments
  <2> QED
    BY <1>1, <1>2, <2>1, <2>2 DEF NoticeFits, d
<1>3. CASE tracked # Untracked
  <2>1. open # Untracked /\ open.version = tracked.version
        /\ open.text = tracked.text
    BY <1>3 DEF Same
  <2>2. CASE tracked.version = d.version
    <3>1. Notice(tracked, d) = "none"
      BY <1>3, <2>2 DEF Notice
    <3>2. tracked.version \in Nat
      BY <1>3 DEF Documents, TrackedDocuments
    <3>3. Same(open, d)
      BY <1>1, <1>3, <2>1, <2>2, <3>2 DEF Same
    <3> QED
      BY <3>1, <3>3 DEF NoticeFits, d
  <2>3. CASE tracked.version # d.version
    <3>1. Notice(tracked, d) = "didChange"
      BY <1>3, <2>3 DEF Notice
    <3>2. d.version = open.version + 1
      BY <1>1, <1>3, <2>1, <2>3
    <3> QED
      BY <2>1, <3>1, <3>2 DEF NoticeFits, d
  <2> QED
    BY <2>2, <2>3
<1> QED
  BY <1>2, <1>3

\* What Update does, in one formula.
Updated(q, f, d, notice) ==
  /\ f \in Files /\ d # Untracked /\ ~closed
  /\ query[q].file = f
  /\ Others(q)
  /\ query'[q].pc = "notifying" /\ query'[q].file = f
  /\ query'[q].document = d /\ query'[q].notice = notice
  /\ \A g \in Files : store'[g] = IF g = f THEN d ELSE store[g]
  /\ \A p \in Queries : ~At(p, "notifying") /\ ~At(p, "resending")
  /\ closed' = closed /\ closing' = closing /\ lost' = lost
  /\ queue' = queue /\ view' = view
  /\ f \notin lost => NoticeFits(notice, d, View(f))

LEMMA UpdateUpdates ==
  ASSUME OpenClose, TInv, FollowInv, NEW q \in Queries, Update(q)
  PROVE  \E f, d, notice : Updated(q, f, d, notice)
<1> DEFINE f == query[q].file
           r == query[q].read[1]
           d == Synchronized(store[f], r)
           notice == Notice(store[f], d)
<1>1. r \in Reads /\ f \in Files
  BY DEF Update, TInv, CallsOK, Calls, At
<1>2. /\ store[f] \in Documents
      /\ store[f] # Untracked =>
           /\ store[f].version <= store[f].edition + 1
           /\ Older(store[f], r)
  BY <1>1 DEF Update, TInv, EditionInv, SharedOK
<1>3. d # Untracked
  BY <1>1, <1>2, SynchronizedDocument
<1>4. lock = q /\ ~closed
  BY DEF Update, At, TInv, LockInv, LockedPCs
<1>5. query[q].pc = "updating"
  BY DEF Update, At
<1>6. \A p \in Queries : ~At(p, "notifying") /\ ~At(p, "resending")
  BY <1>4, <1>5 DEF At, TInv, LockInv, LockedPCs
<1>7. f \notin lost => Same(View(f), store[f])
  BY <1>1, <1>4, <1>6 DEF FollowInv, Notifying
<1>8. f \notin lost => NoticeFits(notice, d, View(f))
  BY <1>1, <1>2, <1>7, NoticeForUpdate
<1>9. /\ closed' = closed /\ closing' = closing /\ lost' = lost
      /\ queue' = queue /\ view' = view
  BY DEF Update
<1>10. store' = [store EXCEPT ![f] = d]
  BY DEF Update
<1>11. query' = [query EXCEPT ![q].pc = "notifying", ![q].document = d,
                              ![q].notice = notice]
  BY DEF Update
<1>12. query \in [Queries -> Calls] /\ store \in [Files -> Documents]
  BY DEF TInv, CallsOK, SharedOK
<1> HIDE DEF d, notice, r
<1>13. /\ Others(q) /\ query'[q].pc = "notifying"
       /\ query'[q].file = query[q].file
       /\ query'[q].document = d /\ query'[q].notice = notice
  BY <1>11, <1>12 DEF Others, Calls
<1> HIDE DEF f
<1>14. \A g \in Files : store'[g] = IF g = f THEN d ELSE store[g]
  BY <1>10, <1>12
<1>15. query[q].file = f
  BY DEF f
<1>16. Updated(q, f, d, notice)
  BY <1>1, <1>3, <1>4, <1>6, <1>8, <1>9, <1>13, <1>14, <1>15 DEF Updated
<1> QED
  BY <1>16

LEMMA UpdateKeeps ==
  ASSUME OpenClose, TInv, ClosedInv, FollowInv, SendInv,
         NEW q \in Queries, Update(q)
  PROVE  ClosedInv' /\ FollowInv' /\ SendInv'
<1>1. PICK f, d, notice : Updated(q, f, d, notice)
  BY UpdateUpdates
<1>2. /\ ~closed /\ closed' = closed /\ closing' = closing /\ lost' = lost
      /\ queue' = queue /\ view' = view
      /\ \A p \in Queries : ~At(p, "notifying") /\ ~At(p, "resending")
  BY <1>1 DEF Updated
<1>3. \A g : View(g)' = View(g)
  BY <1>2 DEF View, Seen
<1>4. ClosedInv'
  BY <1>2 DEF ClosedInv
<1>5. \A p \in Queries : query'[p].pc = "notifying" <=> p = q
  BY <1>1, <1>2 DEF Updated, Others, At
<1>6. FollowInv'
  <2>1. ASSUME NEW g \in Files \ lost,
               \A p \in Queries : ~(query'[p].pc = "notifying"
                                      /\ query'[p].file = g)
        PROVE  Same(View(g), store'[g])
    <3>1. g # f
      BY <1>1, <2>1 DEF Updated
    <3>2. store'[g] = store[g]
      BY <1>1, <3>1 DEF Updated
    <3>3. Same(View(g), store[g])
      BY <1>2 DEF FollowInv, Notifying
    <3> QED
      BY <3>2, <3>3
  <2>2. ASSUME NEW p \in Queries, query'[p].pc = "notifying"
        PROVE  /\ store'[query'[p].file] = query'[p].document
               /\ query'[p].file \notin lost =>
                    NoticeFits(query'[p].notice, query'[p].document,
                               View(query'[p].file))
    BY <1>1, <1>5, <2>2 DEF Updated
  <2>3. \A g \in Files \ lost' :
          (\A p \in Queries : ~Notifying(p, g)') => Same(View(g)', store'[g])
    BY <1>2, <1>3, <2>1 DEF Notifying, At
  <2>4. ASSUME NEW p \in Queries, At(p, "notifying")'
        PROVE  /\ store'[query'[p].file] = query'[p].document
               /\ query'[p].file \notin lost' =>
                    NoticeFits(query'[p].notice, query'[p].document,
                               View(query[p].file)')
    <3>1. query'[p].pc = "notifying"
      BY <2>4 DEF At
    <3> QED
      BY <1>2, <2>2, <3>1 DEF View, Seen
  <2> QED
    BY <2>3, <2>4 DEF FollowInv
<1>7. SendInv'
  <2>1. ASSUME NEW p \in Queries, query'[p].pc \in {"sending", "resending"}
        PROVE  /\ query'[p] = query[p] /\ query[p].pc = "sending"
               /\ query'[p].pc = "sending"
    BY <1>1, <1>2, <2>1 DEF Updated, Others, At
  <2>2. ASSUME NEW p \in Queries, At(p, "sending")',
               query'[p].file \notin lost'
        PROVE  /\ ~closed' => Current(query'[p].document, View(query[p].file)')
               /\ View(query[p].file)' # Untracked =>
                    Current(query'[p].document, View(query[p].file)')
    <3>1. query'[p] = query[p] /\ At(p, "sending")
      BY <2>1, <2>2 DEF At
    <3>2. View(query[p].file)' = View(query[p].file)
      BY <1>2, <3>1 DEF View, Seen
    <3> QED
      BY <1>2, <2>2, <3>1, <3>2 DEF SendInv
  <2>3. \A p \in Queries : ~At(p, "resending")'
    BY <2>1 DEF At
  <2> QED
    BY <2>2, <2>3 DEF SendInv
<1> QED
  BY <1>4, <1>6, <1>7

-----------------------------------------------------------------------------
(* Notifications                                                           *)

LEMMA ViewTyped ==
  ASSUME SharedOK, NEW f \in Files, NEW n \in 0..Len(queue)
  PROVE  Seen(f, n) \in Documents
<1>0. queue \in Seq(Messages)
  BY DEF SharedOK
<1>1. Len(queue) \in Nat /\ n \in Nat
      /\ \A k \in 1..Len(queue) : queue[k].document \in Documents
  <2>1. \A k \in 1..Len(queue) : queue[k] \in Messages
    BY <1>0
  <2> QED
    BY <1>0, <2>1 DEF Messages
<1>2. CASE \A j \in 1..n : ~Tells(queue, j, f)
  <2>1. Seen(f, n) = view[f]
    BY <1>1, <1>2, ViewUntold DEF Seen
  <2> QED
    BY <2>1 DEF SharedOK
<1>3. CASE ~\A j \in 1..n : ~Tells(queue, j, f)
  <2>1. PICK k \in 1..n : /\ Tells(queue, k, f)
                          /\ \A j \in (k + 1)..n : ~Tells(queue, j, f)
    BY <1>1, <1>3, LastTold
  <2>2. Seen(f, n) = queue[k].document
    BY <1>1, <2>1, ViewTold DEF Seen
  <2> QED
    BY <1>1, <2>2
<1> QED
  BY <1>2, <1>3

\* What Notify does, in one formula.
Notified(q, f, d, notice) ==
  /\ f \in Files /\ d \in Documents /\ d # Untracked /\ ~closed
  /\ store[f] = d
  /\ At(q, "notifying") /\ query[q].file = f
  /\ Others(q)
  /\ query'[q].pc = "sending" /\ query'[q].file = f
  /\ query'[q].document = d
  /\ \A p \in Queries : ~At(p, "resending") /\ (At(p, "notifying") => p = q)
  /\ \A g \in Files :
       View(g)' = IF g = f /\ notice # "none" THEN d ELSE View(g)
  /\ notice \in {"none", "didOpen", "didChange"}
  /\ f \notin lost => NoticeFits(notice, d, View(f))
  /\ store' = store /\ closed' = closed /\ closing' = closing /\ lost' = lost
  /\ ClosesStay

NotifyMessage(q) ==
  Message(query[q].notice, query[q].file, query[q].document, q)

LEMMA NotifyMessageOK ==
  ASSUME TInv, NEW q \in Queries, query[q].notice # "none"
  PROVE  /\ NotifyMessage(q) \in Messages
         /\ NotifyMessage(q).kind = query[q].notice
         /\ NotifyMessage(q).file = query[q].file
         /\ NotifyMessage(q).document = query[q].document
         /\ query[q].notice \in DocumentKinds \ {"didClose"}
  BY DEF TInv, CallsOK, Calls, NotifyMessage, Message, Messages,
         DocumentKinds

LEMMA NotifyNotifies ==
  ASSUME TInv, PathInv, ClosedInv, FollowInv, NEW q \in Queries, Notify(q)
  PROVE  Notified(q, query[q].file, query[q].document, query[q].notice)
<1> DEFINE f == query[q].file
           d == query[q].document
           notice == query[q].notice
<1>1. f \in Files /\ d \in Documents
      /\ notice \in {"none", "didOpen", "didChange"}
  BY DEF TInv, CallsOK, Calls
<1>2. At(q, "notifying") /\ query[q].pc = "notifying"
  BY DEF Notify, At
<1>3. d # Untracked /\ ~closed /\ store[f] = d
      /\ (f \notin lost => NoticeFits(notice, d, View(f)))
  BY <1>2 DEF PathInv, PathOK, ClosedInv, FollowInv
<1>4. lock = q
  BY <1>2 DEF TInv, LockInv, LockedPCs
<1>5. \A p \in Queries : ~At(p, "resending") /\ (At(p, "notifying") => p = q)
  BY <1>2, <1>4 DEF At, TInv, LockInv, LockedPCs
<1>6. Goto(q, "sending") /\ store' = store /\ closed' = closed
      /\ closing' = closing /\ lost' = lost /\ view' = view
  BY DEF Notify
<1>7. Others(q) /\ query'[q].pc = "sending" /\ query'[q].file = f
      /\ query'[q].document = d
  BY <1>6, GotoCall DEF TInv
<1>8. (\A g \in Files :
         View(g)' = IF g = f /\ notice # "none" THEN d ELSE View(g))
      /\ ClosesStay
  <2>1. CASE notice = "none"
    <3>1. queue' = queue
      BY <2>1 DEF Notify
    <3> QED
      BY <1>6, <2>1, <3>1 DEF View, Seen, ClosesStay
  <2>2. CASE notice # "none"
    <3> DEFINE m == NotifyMessage(q)
    <3>1. queue' = Append(queue, m)
      BY <2>2 DEF Notify, NotifyMessage
    <3>2. /\ m \in Messages /\ m.kind = notice /\ m.file = f
          /\ m.document = d /\ notice \in DocumentKinds \ {"didClose"}
      BY <2>2, NotifyMessageOK
    <3> HIDE DEF m
    <3>3. \A g : View(g)' = IF m.file = g /\ m.kind \in DocumentKinds
                            THEN m.document ELSE View(g)
      BY <1>6, <3>1, <3>2, AppendView DEF TInv
    <3>4. /\ Len(queue) \in Nat /\ Len(queue') = Len(queue) + 1
          /\ \A k \in 1..Len(queue) : queue'[k] = queue[k]
          /\ queue'[Len(queue) + 1] = m
      BY <3>1, <3>2, QueueAppend DEF TInv
    <3>5. \A k \in 1..Len(queue') :
            k \in 1..Len(queue) \/ k = Len(queue) + 1
      BY <3>4
    <3>6. ClosesStay
      BY <3>2, <3>4, <3>5 DEF ClosesStay
    <3>7. ASSUME NEW g \in Files
          PROVE  View(g)' = IF g = f /\ notice # "none" THEN d ELSE View(g)
      BY <2>2, <3>2, <3>3
    <3> QED
      BY <3>6, <3>7
  <2> QED
    BY <2>1, <2>2
<1> HIDE DEF f, d, notice
<1>9. query[q].file = f
  BY DEF f
<1>10. Notified(q, f, d, notice)
  BY <1>1, <1>2, <1>3, <1>5, <1>6, <1>7, <1>8, <1>9 DEF Notified
<1> QED
  BY <1>10 DEF f, d, notice

LEMMA NotifyKeeps ==
  ASSUME TInv, PathInv, ClosedInv, FollowInv, SendInv,
         NEW q \in Queries, Notify(q)
  PROVE  ClosedInv' /\ FollowInv' /\ SendInv'
<1>1. PICK f, d, notice : Notified(q, f, d, notice)
  BY NotifyNotifies
<1>2. /\ f \in Files /\ d \in Documents /\ d # Untracked
      /\ ~closed /\ closed' = closed /\ closing' = closing /\ lost' = lost
      /\ store' = store /\ store[f] = d
      /\ \A p \in Queries :
           ~At(p, "resending") /\ (At(p, "notifying") => p = q)
      /\ \A g \in Files :
           View(g)' = IF g = f /\ notice # "none" THEN d ELSE View(g)
  BY <1>1 DEF Notified
<1>3. f \notin lost => NoticeFits(notice, d, View(f))
  BY <1>1 DEF Notified
<1>4. ClosedInv'
  BY <1>1, <1>2 DEF ClosedInv, Notified, ClosesStay
<1>5. /\ query'[q].pc = "sending" /\ query'[q].file = f
      /\ query'[q].document = d
      /\ \A p \in Queries \ {q} : query'[p] = query[p]
  BY <1>1 DEF Notified, Others
<1>6. \A p \in Queries : ~At(p, "notifying")' /\ ~At(p, "resending")'
  BY <1>2, <1>5 DEF At
<1>7. f \notin lost => Same(View(f)', d)
  <2>1. CASE notice = "none"
    BY <1>2, <1>3, <2>1 DEF NoticeFits
  <2>2. CASE notice # "none"
    BY <1>2, <2>2, SameDocuments
  <2> QED
    BY <2>1, <2>2
<1>8. FollowInv'
  <2>1. ASSUME NEW g \in Files \ lost PROVE Same(View(g)', store[g])
    <3>1. CASE g = f
      BY <1>2, <1>7, <3>1
    <3>2. CASE g # f
      <4>1. \A p \in Queries : ~Notifying(p, g)
        BY <1>1, <1>2, <3>2 DEF Notifying, Notified
      <4> QED
        BY <1>2, <3>2, <4>1 DEF FollowInv
    <3> QED
      BY <3>1, <3>2
  <2> QED
    BY <1>2, <1>6, <2>1 DEF FollowInv
<1>9. \A p \in Queries :
        query[p].file \in Files /\ query[p].document \in Documents
  BY DEF TInv, CallsOK, Calls
<1>10. ASSUME NEW g \in Files, g \notin lost, NEW e \in Documents,
              Current(e, View(g))
       PROVE  Current(e, View(g)')
  <2>1. CASE g = f /\ notice # "none"
    <3>1. View(g)' = d /\ View(g) # Untracked /\ e.version <= View(g).version
      BY <1>2, <1>10, <2>1 DEF Current
    <3>2. notice \in {"didOpen", "didChange"}
      BY <1>1, <2>1 DEF Notified
    <3>3. d.version = View(g).version + 1
      BY <1>3, <1>10, <2>1, <3>1, <3>2 DEF NoticeFits
    <3>4. View(g) \in Documents
      BY ViewTyped DEF TInv, SharedOK, View
    <3>5. View(g).version \in Nat /\ e.version \in Nat
      BY <3>4 DEF Documents, TrackedDocuments, Untracked
    <3> HIDE DEF View
    <3>6. e.version <= d.version
      BY <3>1, <3>3, <3>5
    <3> QED
      BY <1>2, <3>1, <3>6 DEF Current
  <2>2. CASE ~(g = f /\ notice # "none")
    BY <1>2, <1>10, <2>2
  <2> QED
    BY <2>1, <2>2
<1>11. f \notin lost => Current(d, View(f)')
  <2> SUFFICES ASSUME f \notin lost PROVE Current(d, View(f)')
    OBVIOUS
  <2> DEFINE v == View(f)'
  <2>1. Same(v, d)
    BY <1>7
  <2> HIDE DEF v
  <2>2. v # Untracked /\ v.version = d.version
    BY <1>2, <2>1, SameDocuments
  <2>3. d.version \in Nat
    BY <1>2 DEF Documents, TrackedDocuments
  <2>4. Current(d, v)
    BY <2>2, <2>3 DEF Current
  <2> QED
    BY <2>4 DEF v
<1>12. ASSUME NEW p \in Queries, query'[p].pc = "sending",
              query'[p].file \notin lost
       PROVE  \A g : g = query'[p].file =>
                Current(query'[p].document, View(g)')
  <2>1. CASE p = q
    BY <1>5, <1>11, <1>12, <2>1
  <2>2. CASE p # q
    <3>1. query'[p] = query[p] /\ At(p, "sending")
      BY <1>5, <1>12, <2>2 DEF At
    <3>2. Current(query[p].document, View(query[p].file))
      BY <1>2, <1>12, <3>1 DEF SendInv
    <3> QED
      BY <1>9, <1>10, <1>12, <3>1, <3>2
  <2> QED
    BY <2>1, <2>2
<1>13. ASSUME NEW p \in Queries, At(p, "sending")', query'[p].file \notin lost'
       PROVE  Current(query'[p].document, View(query[p].file)')
  BY <1>2, <1>12, <1>13 DEF At, View, Seen
<1>14. SendInv'
  BY <1>6, <1>13 DEF SendInv
<1> QED
  BY <1>4, <1>8, <1>14

-----------------------------------------------------------------------------
(* Refused notifications, and shutdown                                     *)

LEMMA NotifyFailsKeeps ==
  ASSUME TInv, ClosedInv, FollowInv, SendInv,
         NEW q \in Queries, NotifyFails(q)
  PROVE  ClosedInv' /\ FollowInv' /\ SendInv'
<1> DEFINE f == query[q].file
<1>1. /\ At(q, "notifying") /\ Goto(q, "failed") /\ lost' = lost \cup {f}
      /\ queue' = queue /\ view' = view /\ store' = store
      /\ closed' = closed /\ closing' = closing
  BY DEF NotifyFails
<1>2. /\ f \in Files /\ ~closed
      /\ \A p \in Queries :
           ~At(p, "resending") /\ (At(p, "notifying") => p = q)
  BY <1>1 DEF TInv, CallsOK, Calls, ClosedInv, At, LockInv, LockedPCs
<1>3. /\ query'[q].pc = "failed"
      /\ \A p \in Queries \ {q} : query'[p] = query[p]
  BY <1>1, GotoCall DEF TInv, Others
<1>4. \A g : View(g)' = View(g)
  BY <1>1 DEF View, Seen
<1>5. \A p \in Queries : ~At(p, "notifying")' /\ ~At(p, "resending")'
  BY <1>2, <1>3 DEF At
<1>6. ClosedInv'
  BY <1>1, <1>2 DEF ClosedInv
<1>7. FollowInv'
  <2>1. ASSUME NEW g \in Files \ lost' PROVE Same(View(g)', store'[g])
    <3>1. g \in Files \ lost /\ \A p \in Queries : ~Notifying(p, g)
      BY <1>1, <1>2 DEF Notifying
    <3> QED
      BY <1>1, <1>2, <1>4, <3>1 DEF FollowInv
  <2> QED
    BY <1>5, <2>1 DEF FollowInv
<1>8. ASSUME NEW p \in Queries, At(p, "sending")', query'[p].file \notin lost'
      PROVE  Current(query'[p].document, View(query[p].file)')
  <2>1. query'[p] = query[p] /\ At(p, "sending") /\ query[p].file \notin lost
    BY <1>1, <1>3, <1>8 DEF At
  <2>2. View(query[p].file)' = View(query[p].file)
    BY <1>1, <2>1 DEF View, Seen
  <2> QED
    BY <1>2, <2>1, <2>2 DEF SendInv
<1>9. SendInv'
  BY <1>5, <1>8 DEF SendInv
<1> QED
  BY <1>6, <1>7, <1>9

LEMMA CloseKeeps ==
  ASSUME TInv, ClosedInv, FollowInv, SendInv, Close
  PROVE  ClosedInv' /\ FollowInv' /\ SendInv'
<1>1. /\ lock = Nobody /\ ~closed /\ closed' = TRUE
      /\ \A f \in closing' : f \in Files /\ store[f] # Untracked
      /\ queue' = queue /\ view' = view /\ query' = query /\ lost' = lost
  BY DEF Close
<1>2. \A p \in Queries : ~At(p, "notifying") /\ ~At(p, "resending")
  BY <1>1, DocumentsAssumption DEF TInv, LockInv, LockedPCs, At
<1>3. \A p \in Queries : ~At(p, "notifying")' /\ ~At(p, "resending")'
  BY <1>1, <1>2 DEF At
<1>4. \A g : View(g)' = View(g)
  BY <1>1 DEF View, Seen
<1>5. ASSUME NEW f \in closing' \ lost PROVE View(f)' # Untracked
  <2>1. f \in Files \ lost /\ store[f] # Untracked
        /\ \A p \in Queries : ~Notifying(p, f)
    BY <1>1, <1>2 DEF Notifying
  <2>2. Same(View(f), store[f])
    BY <1>1, <2>1 DEF FollowInv
  <2>3. View(f) # Untracked
    BY <2>1, <2>2, SameDocuments
  <2> QED
    BY <1>4, <2>3
<1>6. ClosedInv'
  BY <1>1, <1>3, <1>5 DEF ClosedInv
<1>7. FollowInv'
  BY <1>1, <1>3 DEF FollowInv
<1>8. ASSUME NEW p \in Queries, At(p, "sending")', query'[p].file \notin lost',
             View(query[p].file)' # Untracked
      PROVE  Current(query'[p].document, View(query[p].file)')
  <2>1. View(query[p].file)' = View(query[p].file)
    BY <1>1 DEF View, Seen
  <2> QED
    BY <1>1, <1>8, <2>1 DEF SendInv, At
<1>9. SendInv'
  BY <1>1, <1>3, <1>8 DEF SendInv
<1> QED
  BY <1>6, <1>7, <1>9

LEMMA CloseMessageOK ==
  ASSUME NEW f \in Files
  PROVE  LET m == Message("didClose", f, Untracked, Closer)
         IN /\ m \in Messages /\ m.kind = "didClose" /\ m.file = f
            /\ m.document = Untracked
  BY MessageOK, UntrackedIsNoDocument DEF Message, DocumentKinds

LEMMA AnnounceKeeps ==
  ASSUME TInv, ClosedInv, FollowInv, SendInv,
         NEW f \in Files, AnnounceClose(f)
  PROVE  ClosedInv' /\ FollowInv' /\ SendInv'
<1>1. /\ f \in closing /\ closing' \subseteq closing
      /\ closed' = closed /\ view' = view /\ query' = query /\ lost' = lost
  BY DEF AnnounceClose
<1>2. closed /\ \A p \in Queries : ~At(p, "notifying") /\ ~At(p, "resending")
  BY <1>1 DEF ClosedInv
<1>3. \A p \in Queries : ~At(p, "notifying")' /\ ~At(p, "resending")'
  BY <1>1, <1>2 DEF At
<1>4. \A g : /\ g \in closing' => g # f \/ View(g)' = View(g)
             /\ View(g)' = View(g) \/ (g = f /\ View(g)' = Untracked)
  <2>1. CASE Room
    <3> DEFINE m == Message("didClose", f, Untracked, Closer)
    <3>1. queue' = Append(queue, m) /\ closing' = closing \ {f}
      BY <2>1 DEF AnnounceClose
    <3>2. /\ m \in Messages /\ m.kind = "didClose" /\ m.file = f
          /\ m.document = Untracked
      BY CloseMessageOK
    <3> HIDE DEF m
    <3>3. \A g : View(g)' = IF m.file = g /\ m.kind \in DocumentKinds
                            THEN m.document ELSE View(g)
      BY <1>1, <3>1, <3>2, AppendView DEF TInv
    <3> QED
      BY <3>1, <3>2, <3>3
  <2>2. CASE ~Room
    <3>1. queue' = queue
      BY <2>2 DEF AnnounceClose
    <3> QED
      BY <1>1, <3>1 DEF View, Seen
  <2> QED
    BY <2>1, <2>2
<1>5. ClosedInv'
  BY <1>1, <1>2, <1>3, <1>4 DEF ClosedInv
<1>6. FollowInv'
  BY <1>1, <1>2, <1>3 DEF FollowInv
<1>7. ASSUME NEW p \in Queries, At(p, "sending")', query'[p].file \notin lost',
             View(query[p].file)' # Untracked
      PROVE  Current(query'[p].document, View(query[p].file)')
  <2>1. \A g : g = query[p].file =>
          View(g)' = View(g) \/ View(g)' = Untracked
    BY <1>4
  <2>2. query'[p] = query[p] /\ At(p, "sending")
    BY <1>1, <1>7 DEF At
  <2>3. View(query[p].file)' = View(query[p].file)
    BY <1>7, <2>1, <2>2 DEF View, Seen
  <2> QED
    BY <1>1, <1>7, <2>2, <2>3 DEF SendInv
<1>8. SendInv'
  BY <1>1, <1>2, <1>3, <1>7 DEF SendInv
<1> QED
  BY <1>5, <1>6, <1>8

-----------------------------------------------------------------------------
(* The invariant and the theorems                                          *)

LEMMA StateStep ==
  ASSUME OpenClose, StreamInv, [Next]_vars
  PROVE  ClosedInv' /\ FollowInv' /\ SendInv'
<1>0. /\ TInv /\ MessageInv /\ PathInv /\ ClosedInv /\ FollowInv /\ SendInv
  BY DEF StreamInv
<1>1. CASE Quiet
  BY <1>0, <1>1, QuietKeepsClosed, QuietKeepsFollow, QuietKeepsSend
<1>2. ASSUME NEW q \in Queries, Update(q)
      PROVE  ClosedInv' /\ FollowInv' /\ SendInv'
  BY <1>0, <1>2, UpdateKeeps
<1>3. ASSUME NEW q \in Queries, Notify(q)
      PROVE  ClosedInv' /\ FollowInv' /\ SendInv'
  BY <1>0, <1>3, NotifyKeeps
<1>4. ASSUME NEW q \in Queries, NotifyFails(q)
      PROVE  ClosedInv' /\ FollowInv' /\ SendInv'
  BY <1>0, <1>4, NotifyFailsKeeps
<1>5. CASE Close
  BY <1>0, <1>5, CloseKeeps
<1>6. ASSUME NEW f \in Files, AnnounceClose(f)
      PROVE  ClosedInv' /\ FollowInv' /\ SendInv'
  BY <1>0, <1>6, AnnounceKeeps
<1>7. ASSUME NEW q \in Queries,
             \/ \E f \in Files : Begin(q, f)
             \/ Lock(q) \/ Read(q) \/ ReadFails(q) \/ UpdateRefused(q)
             \/ Send(q) \/ Relock(q) \/ Validate(q) \/ Resend(q)
      PROVE  Quiet
  BY <1>0, <1>7, QuietBegin, QuietLock, QuietReading, QuietReadFails,
     QuietUpdateRefused, QuietSend, QuietRelock, QuietValidate, QuietResend
<1>8. \/ ServerReads
      \/ UNCHANGED vars
      \/ \E f \in Files, t \in Texts : Edit(f, t)
      => Quiet
  BY <1>0, QuietRead, QuietEdit, QuietStutter
<1> QED
  BY <1>1, <1>2, <1>3, <1>4, <1>5, <1>6, <1>7, <1>8 DEF Next

LEMMA AttemptsGoto ==
  ASSUME CallsOK, NEW q \in Queries, NEW pc, Goto(q, pc)
  PROVE  AttemptsStay
  BY PcAfterGoto DEF AttemptsStay

LEMMA AttemptsStep == TInv /\ [Next]_vars => AttemptsStay
<1> SUFFICES ASSUME TInv, [Next]_vars PROVE AttemptsStay
  OBVIOUS
<1>0. CallsOK /\ query \in [Queries -> Calls]
  BY DEF TInv, CallsOK
<1>1. ASSUME NEW f \in Files, NEW t \in Texts, Edit(f, t) PROVE AttemptsStay
  BY <1>1 DEF Edit, AttemptsStay
<1>2. CASE ServerReads
  <2>1. CASE query' = query
    BY <2>1 DEF AttemptsStay
  <2> QED
    BY <1>0, <1>2, <2>1, ReadMoves, AttemptsGoto
<1>3. ASSUME NEW q \in Queries, NEW f \in Files, Begin(q, f) PROVE AttemptsStay
  BY <1>0, <1>3 DEF Begin, AttemptsStay, At, Calls
<1>4. ASSUME NEW q \in Queries, Lock(q) PROVE AttemptsStay
  BY <1>0, <1>4, AttemptsGoto DEF Lock
<1>5. ASSUME NEW q \in Queries, Read(q) PROVE AttemptsStay
  BY <1>0, <1>5 DEF Read, AttemptsStay, At, Calls
<1>6. ASSUME NEW q \in Queries, ReadFails(q) PROVE AttemptsStay
  BY <1>0, <1>6, AttemptsGoto DEF ReadFails
<1>7. ASSUME NEW q \in Queries, Update(q) PROVE AttemptsStay
  BY <1>0, <1>7 DEF Update, AttemptsStay, At, Calls
<1>8. ASSUME NEW q \in Queries, UpdateRefused(q) PROVE AttemptsStay
  BY <1>0, <1>8, AttemptsGoto DEF UpdateRefused
<1>9. ASSUME NEW q \in Queries, Notify(q) PROVE AttemptsStay
  BY <1>0, <1>9, AttemptsGoto DEF Notify
<1>10. ASSUME NEW q \in Queries, NotifyFails(q) PROVE AttemptsStay
  BY <1>0, <1>10, AttemptsGoto DEF NotifyFails
<1>11. ASSUME NEW q \in Queries, Send(q) PROVE AttemptsStay
  <2>1. Goto(q, "waiting") \/ Goto(q, "failed")
    BY <1>11 DEF Send
  <2> QED
    BY <1>0, <2>1, AttemptsGoto
<1>12. ASSUME NEW q \in Queries, Relock(q) PROVE AttemptsStay
  BY <1>0, <1>12 DEF Relock, AttemptsStay, At, Calls
<1>13. ASSUME NEW q \in Queries, Validate(q) PROVE AttemptsStay
  <2>1. Goto(q, "resending") \/ Goto(q, "failed")
    BY <1>13 DEF Validate
  <2> QED
    BY <1>0, <2>1, AttemptsGoto
<1>14. ASSUME NEW q \in Queries, Resend(q) PROVE AttemptsStay
  <2>1. Goto(q, "waiting") \/ Goto(q, "failed")
    BY <1>14 DEF Resend
  <2> QED
    BY <1>0, <2>1, AttemptsGoto
<1>15. CASE Close
  BY <1>15 DEF Close, AttemptsStay
<1>16. ASSUME NEW f \in Files, AnnounceClose(f) PROVE AttemptsStay
  BY <1>16 DEF AnnounceClose, AttemptsStay
<1>17. CASE UNCHANGED vars
  BY <1>17 DEF vars, AttemptsStay
<1> QED
  BY <1>1, <1>2, <1>3, <1>4, <1>5, <1>6, <1>7, <1>8, <1>9, <1>10, <1>11,
     <1>12, <1>13, <1>14, <1>15, <1>16, <1>17 DEF Next

\* A first attempt fits what the server has open, and a retry fits it exactly.
LEMMA SendFits ==
  ASSUME StreamInv, AttemptsStay, NEW q \in Queries, Send(q), Room
  PROVE  Fits(QueryMessage(q))
<1> DEFINE m == QueryMessage(q)
           f == query[q].file
<1>1. m.kind = "query" /\ m.file = f /\ m.query = q
      /\ m.document = query[q].document
  BY DEF QueryMessage, Message
<1>2. At(q, "sending") /\ query[q].pc = "sending"
  BY DEF Send, At
<1>3. query[q].attempt = 0 /\ query[q].document # Untracked
  BY <1>2 DEF StreamInv, PathInv, PathOK
<1>4. query'[q].attempt = 0
  BY <1>3, GotoCall DEF Send, StreamInv, TInv
<1>5. f \notin lost =>
        /\ ~closed => Current(query[q].document, View(f))
        /\ View(f) # Untracked => Current(query[q].document, View(f))
  BY <1>2 DEF StreamInv, SendInv
<1> HIDE DEF m, f
<1>6. f \notin lost => Answered(m, View(f), closed, query'[m.query].attempt)
  BY <1>1, <1>4, <1>5 DEF Answered, Current
<1> QED
  BY <1>1, <1>3, <1>6 DEF Fits, Formed, m

LEMMA ResendFits ==
  ASSUME StreamInv, AttemptsStay, NEW q \in Queries, Resend(q), Room
  PROVE  Fits(QueryMessage(q))
<1> DEFINE m == QueryMessage(q)
           f == query[q].file
           d == query[q].document
<1>1. m.kind = "query" /\ m.file = f /\ m.query = q /\ m.document = d
  BY DEF QueryMessage, Message
<1>2. At(q, "resending") /\ query[q].pc = "resending" /\ f \in Files
      /\ d \in Documents
  BY DEF Resend, At, StreamInv, TInv, CallsOK, Calls
<1>3. d # Untracked /\ ~closed /\ Same(store[f], d)
  BY <1>2 DEF StreamInv, PathInv, PathOK, ClosedInv, SendInv
<1>4. \A p \in Queries : ~At(p, "notifying")
  BY <1>2 DEF At, StreamInv, TInv, LockInv, LockedPCs
<1>5. f \notin lost => Same(View(f), store[f])
  BY <1>2, <1>3, <1>4 DEF StreamInv, FollowInv, Notifying
<1> HIDE DEF m, f, d
<1>6. ASSUME f \notin lost
      PROVE  Answered(m, View(f), closed, query'[m.query].attempt)
  <2>1. Same(View(f), d)
    BY <1>3, <1>5, <1>6, SameDocuments
  <2>2. View(f) # Untracked /\ View(f).version = d.version
    BY <1>3, <2>1, SameDocuments
  <2>3. d.version \in Nat
    BY <1>2, <1>3 DEF Documents, TrackedDocuments
  <2> QED
    BY <1>1, <2>1, <2>2, <2>3 DEF Answered
<1> QED
  BY <1>1, <1>3, <1>6 DEF Fits, Formed, m

LEMMA MessagesStep ==
  ASSUME StreamInv, [Next]_vars
  PROVE  MessagesOK'
<1>0. /\ TInv /\ SharedOK /\ CallsOK /\ WaitInv /\ MessagesOK /\ MessageInv
      /\ PathInv /\ ClosedInv /\ FollowInv /\ AttemptsStay
  BY AttemptsStep DEF StreamInv, TInv, MessagesOK
<1>1. ASSUME NEW f \in Files, NEW t \in Texts, Edit(f, t) PROVE MessagesOK'
  BY <1>0, <1>1, MessagesFrame DEF Edit
<1>2. CASE ServerReads
  BY <1>0, <1>2, MessagesRead
<1>3. ASSUME NEW q \in Queries, NEW f \in Files, Begin(q, f) PROVE MessagesOK'
  BY <1>0, <1>3, MessagesFrame DEF Begin
<1>4. ASSUME NEW q \in Queries, Lock(q) PROVE MessagesOK'
  BY <1>0, <1>4, MessagesFrame DEF Lock
<1>5. ASSUME NEW q \in Queries, Read(q) PROVE MessagesOK'
  BY <1>0, <1>5, MessagesFrame DEF Read
<1>6. ASSUME NEW q \in Queries, ReadFails(q) PROVE MessagesOK'
  BY <1>0, <1>6, MessagesFrame DEF ReadFails
<1>7. ASSUME NEW q \in Queries, Update(q) PROVE MessagesOK'
  BY <1>0, <1>7, MessagesFrame DEF Update
<1>8. ASSUME NEW q \in Queries, UpdateRefused(q) PROVE MessagesOK'
  BY <1>0, <1>8, MessagesFrame DEF UpdateRefused
<1>9. ASSUME NEW q \in Queries, Notify(q) PROVE MessagesOK'
  <2>1. CASE query[q].notice = "none"
    BY <1>0, <1>9, <2>1, MessagesFrame DEF Notify
  <2>2. CASE query[q].notice # "none"
    <3> DEFINE m == NotifyMessage(q)
               f == query[q].file
               d == query[q].document
               notice == query[q].notice
    <3>1. /\ queue' = Append(queue, m) /\ view' = view /\ lost' = lost
          /\ closed' = closed
      BY <1>9, <2>2 DEF Notify, NotifyMessage
    <3>2. /\ m \in Messages /\ m.kind = notice /\ m.file = f
          /\ m.document = d /\ notice \in DocumentKinds \ {"didClose"}
      BY <1>0, <2>2, NotifyMessageOK
    <3>3. Notified(q, f, d, notice)
      BY <1>0, <1>9, NotifyNotifies
    <3> HIDE DEF m, f, d, notice
    <3>4. d # Untracked /\ ~closed
          /\ (f \notin lost => NoticeFits(notice, d, View(f)))
      BY <3>3 DEF Notified
    <3>5. \A j \in 1..Len(queue) : queue[j].kind # "didClose"
      BY <1>0, <3>4 DEF ClosedInv
    <3>6. m.kind # "query" /\ m.kind # "didClose"
      BY <3>2 DEF DocumentKinds
    <3>7. f \notin lost => Formed(m, View(f))
      BY <3>2, <3>4, <3>6 DEF Formed, NoticeFits
    <3>8. Fits(m)
      BY <3>2, <3>4, <3>5, <3>6, <3>7 DEF Fits
    <3> QED
      BY <1>0, <3>1, <3>2, <3>8, MessagesAppend
  <2> QED
    BY <2>1, <2>2
<1>10. ASSUME NEW q \in Queries, NotifyFails(q) PROVE MessagesOK'
  BY <1>0, <1>10, MessagesFrame DEF NotifyFails
<1>11. ASSUME NEW q \in Queries, Send(q) PROVE MessagesOK'
  <2>1. CASE Room
    <3> DEFINE m == QueryMessage(q)
    <3>1. /\ queue' = Append(queue, m) /\ view' = view /\ lost' = lost
          /\ closed' = closed
      BY <1>11, <2>1 DEF Send
    <3>2. m \in Messages
      BY <1>0, MessageOK DEF CallsOK, Calls, QueryMessage, DocumentKinds
    <3>3. Fits(m)
      BY <1>0, <1>11, <2>1, SendFits
    <3> HIDE DEF m
    <3> QED
      BY <1>0, <3>1, <3>2, <3>3, MessagesAppend
  <2>2. CASE ~Room
    BY <1>0, <1>11, <2>2, MessagesFrame DEF Send
  <2> QED
    BY <2>1, <2>2
<1>12. ASSUME NEW q \in Queries, Relock(q) PROVE MessagesOK'
  BY <1>0, <1>12, MessagesFrame DEF Relock
<1>13. ASSUME NEW q \in Queries, Validate(q) PROVE MessagesOK'
  BY <1>0, <1>13, MessagesFrame DEF Validate
<1>14. ASSUME NEW q \in Queries, Resend(q) PROVE MessagesOK'
  <2>1. CASE Room
    <3> DEFINE m == QueryMessage(q)
    <3>1. /\ queue' = Append(queue, m) /\ view' = view /\ lost' = lost
          /\ closed' = closed
      BY <1>14, <2>1 DEF Resend
    <3>2. m \in Messages
      BY <1>0, MessageOK DEF CallsOK, Calls, QueryMessage, DocumentKinds
    <3>3. Fits(m)
      BY <1>0, <1>14, <2>1, ResendFits
    <3> HIDE DEF m
    <3> QED
      BY <1>0, <3>1, <3>2, <3>3, MessagesAppend
  <2>2. CASE ~Room
    BY <1>0, <1>14, <2>2, MessagesFrame DEF Resend
  <2> QED
    BY <2>1, <2>2
<1>15. CASE Close
  BY <1>0, <1>15, MessagesFrame DEF Close
<1>16. ASSUME NEW f \in Files, AnnounceClose(f) PROVE MessagesOK'
  <2>1. CASE Room
    <3> DEFINE m == Message("didClose", f, Untracked, Closer)
    <3>1. /\ queue' = Append(queue, m) /\ view' = view /\ lost' = lost
          /\ closed' = closed /\ f \in closing
      BY <1>16, <2>1 DEF AnnounceClose
    <3>2. /\ m \in Messages /\ m.kind = "didClose" /\ m.file = f
          /\ m.document = Untracked
      BY CloseMessageOK
    <3> HIDE DEF m
    <3>3. f \notin lost => View(f) # Untracked
      BY <1>0, <3>1 DEF ClosedInv
    <3>4. Fits(m)
      BY <3>2, <3>3 DEF Fits, Formed
    <3> QED
      BY <1>0, <3>1, <3>2, <3>4, MessagesAppend
  <2>2. CASE ~Room
    BY <1>0, <1>16, <2>2, MessagesFrame DEF AnnounceClose
  <2> QED
    BY <2>1, <2>2
<1>17. CASE UNCHANGED vars
  BY <1>0, <1>17, MessagesFrame DEF vars
<1> QED
  BY <1>1, <1>2, <1>3, <1>4, <1>5, <1>6, <1>7, <1>8, <1>9, <1>10, <1>11,
     <1>12, <1>13, <1>14, <1>15, <1>16, <1>17 DEF Next

LEMMA StreamInit == Init => StreamInv
<1> SUFFICES ASSUME Init PROVE StreamInv
  OBVIOUS
<1>1. TInv
  BY TInvInit
<1>2. /\ queue = <<>> /\ ~closed /\ closing = {}
      /\ \A f \in Files : store[f] = Untracked /\ view[f] = Untracked
      /\ \A q \in Queries : query[q].pc = "idle" /\ query[q].attempt = 0
  BY DEF Init
<1>3. MessageInv /\ FormedInv /\ LastWordInv /\ AnsweredInv
  BY <1>2 DEF MessageInv, FormedInv, LastWordInv, AnsweredInv
<1>4. PathInv
  BY <1>2 DEF PathInv, PathOK
<1>5. ClosedInv
  BY <1>2 DEF ClosedInv
<1>6. FollowInv
  <2>1. \A f \in Files : View(f) = view[f]
    BY <1>2, ViewUntold DEF View, Seen
  <2> QED
    BY <1>2, <2>1, SameDocuments DEF FollowInv, At
<1>7. SendInv
  BY <1>2 DEF SendInv, At
<1> QED
  BY <1>1, <1>3, <1>4, <1>5, <1>6, <1>7 DEF StreamInv

LEMMA StreamStep ==
  ASSUME OpenClose
  PROVE  StreamInv /\ [Next]_vars => StreamInv'
<1> SUFFICES ASSUME StreamInv, [Next]_vars PROVE StreamInv'
  OBVIOUS
<1>1. TInv'
  BY TInvStep DEF StreamInv
<1>2. PathInv'
  BY PathStep DEF StreamInv
<1>3. ClosedInv' /\ FollowInv' /\ SendInv'
  BY StateStep
<1>4. MessagesOK'
  BY MessagesStep
<1> QED
  BY <1>1, <1>2, <1>3, <1>4 DEF StreamInv, MessagesOK

LEMMA AlwaysStreamInv ==
  ASSUME OpenClose
  PROVE  Spec => []StreamInv
<1>1. Init => StreamInv
  BY StreamInit
<1>2. StreamInv /\ [Next]_vars => StreamInv'
  BY StreamStep
<1> QED
  BY <1>1, <1>2, PTL DEF Spec

\* The view of the properties is the view of this module.
LEMMA ViewAfterIsSeen == \A f, n : ViewAfter(f, n) = Seen(f, n)
  BY DEF ViewAfter, Seen, ViewOf, Tells

\* When the documents mutex is free and the documents are not closed, the
\* server has, or will have once it has read the queue, exactly the documents
\* of the store, except where a notification found no room, provided that the
\* server wants didOpen: without it, it is never told of a first text.
THEOREM FollowsStore ==
  ASSUME OpenClose
  PROVE  Spec => []ServerFollowsStore
<1>1. StreamInv => ServerFollowsStore
  <2> SUFFICES ASSUME StreamInv, lock = Nobody, ~closed,
                      NEW f \in Files \ lost
               PROVE  Same(ViewAfter(f, Len(queue)), store[f])
    BY DEF ServerFollowsStore
  <2>1. \A q \in Queries : ~Notifying(q, f)
    BY DocumentsAssumption
       DEF StreamInv, TInv, LockInv, LockedPCs, Notifying, At
  <2>2. Same(View(f), store[f])
    BY <2>1 DEF StreamInv, FollowInv
  <2> QED
    BY <2>2, ViewAfterIsSeen DEF View
<1> QED
  BY <1>1, AlwaysStreamInv, PTL

\* In the queue each document is opened once, changed one version at a time,
\* and closed if it was open, and nothing is opened or changed after the first
\* didClose, whoever was in the middle of a synchronization at shutdown.
THEOREM StreamsWellFormed ==
  ASSUME OpenClose
  PROVE  Spec => []StreamWellFormed
<1>1. StreamInv => StreamWellFormed
  <2> SUFFICES ASSUME StreamInv, NEW k \in 1..Len(queue)
               PROVE  LET m == queue[k]
                          before == ViewAfter(m.file, k - 1)
                      IN /\ m.file \notin lost => Formed(m, before)
                         /\ m.kind = "didClose" =>
                              \A j \in k..Len(queue) :
                                queue[j].kind \notin {"didOpen", "didChange"}
    BY DEF StreamWellFormed, Formed
  <2>1. queue[k].file \notin lost =>
          Formed(queue[k], ViewAfter(queue[k].file, k - 1))
    BY ViewAfterIsSeen DEF StreamInv, FormedInv
  <2>2. ASSUME queue[k].kind = "didClose", NEW j \in k..Len(queue)
        PROVE  queue[j].kind \notin {"didOpen", "didChange"}
    <3>1. j \in 1..Len(queue) /\ k <= j
      OBVIOUS
    <3> QED
      BY <2>2, <3>1 DEF StreamInv, LastWordInv
  <2> QED
    BY <2>1, <2>2
<1> QED
  BY <1>1, AlwaysStreamInv, PTL

\* A query meets its own document or a later version of it until the documents
\* are closed, and a retry meets the very document that its positions refer
\* to, whatever was synchronized while it was away.
THEOREM QueriesSee ==
  ASSUME OpenClose
  PROVE  Spec => []QueriesSeeTheirDocument
<1>1. StreamInv => QueriesSeeTheirDocument
  <2> SUFFICES ASSUME StreamInv, NEW k \in 1..Len(queue),
                      queue[k].kind = "query", queue[k].file \notin lost
               PROVE  Answered(queue[k], ViewAfter(queue[k].file, k - 1),
                               closed, query[queue[k].query].attempt)
    BY DEF QueriesSeeTheirDocument, Answered
  <2> QED
    BY ViewAfterIsSeen DEF StreamInv, AnsweredInv
<1> QED
  BY <1>1, AlwaysStreamInv, PTL
=============================================================================
