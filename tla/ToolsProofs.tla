---------------------------- MODULE ToolsProofs -----------------------------
(***************************************************************************)
(* Proofs about Tools, for every set of callers, loads, files and texts,   *)
(* and every bound: first of the write gate and what a rename that is      *)
(* applied owes the server (GInv), then of the calls, what they asked and  *)
(* what a preview is made of (PInv), last of how previews go.              *)
(***************************************************************************)
EXTENDS Tools, PreviewsProofs, FiniteSetTheorems, TLAPS

\* A call has what its handler has left, which is of an application
\* exactly behind the write gate; there is one of those.
Applications == {
  Applying, <<"commit", "documents", "resynchronize">>,
  <<"documents", "resynchronize">>, <<"resynchronize">>}
Fields == {"todo", "steps", "gate", "generation", "file", "snapshots",
           "stage", "retries", "wasBusy", "reply", "computed", "busy",
           "edit", "files", "stability"}

Fits(record) ==
  /\ DOMAIN record = Fields
  /\ record.todo \in Seq(DOMAIN Program)
  /\ IF record.gate = "write" THEN record.steps \in Applications
     ELSE record.steps \in Seq(QuerySteps)

Shape ==
  /\ server \in [generation : 0..MaxGenerations,
                 state : {"none", "up", "failed"}]
  /\ DOMAIN documents = 0..MaxGenerations
  /\ \A g \in 0..MaxGenerations : DOMAIN documents[g] = Files
  /\ DOMAIN call = Callers
  /\ \A c \in Callers : Fits(call[c])

OneWriter ==
  \A c, d \in Callers :
    call[c].gate = "write" /\ call[d].gate = "write" => c = d

\* The files that the server does not know of are those that it has open and
\* that are still to be announced, to it.
Announces(c) ==
  /\ call[c].gate = "write"
  /\ Announcing(c)
  /\ behind \subseteq call[c].edit
  /\ At(c, "resynchronize") => call[c].generation = server.generation
BehindInv ==
  behind # {} =>
    /\ server.state # "none"
    /\ \A f \in behind : f \in Files /\ Tracked(server.generation, f)
    /\ \E c \in Callers : Announces(c)

GInv == Shape /\ OneWriter /\ BehindInv

\* A step of a caller that applies nothing.
QueryStep(c) ==
  /\ call[c].gate # "write"
  /\ \E r : Set(c, r) /\ Fits(r) /\ r.gate # "write"

\* What was tracked stays so.
Grows ==
  /\ DOMAIN documents' = DOMAIN documents
  /\ \A g \in DOMAIN documents :
       /\ DOMAIN documents'[g] = DOMAIN documents[g]
       /\ \A f \in DOMAIN documents[g] : Tracked(g, f) => Tracked(g, f)'

-----------------------------------------------------------------------------
(* Steps                                                                   *)

LEMMA TailOfQuery ==
  ASSUME NEW steps \in Seq(QuerySteps), steps # <<>>
  PROVE  /\ Tail(steps) \in Seq(QuerySteps)
         /\ <<"request">> \o Tail(steps) \in Seq(QuerySteps)
         /\ Head(steps) \notin ApplySteps
<1>1. Tail(steps) \in Seq(QuerySteps) /\ Head(steps) \in QuerySteps
  OBVIOUS
<1>2. "request" \in QuerySteps
  BY DEF QuerySteps, Requesting, ApplySteps
<1>3. <<"request">> \in Seq(QuerySteps)
  BY <1>2
<1>4. <<"request">> \o Tail(steps) \in Seq(QuerySteps)
  BY <1>1, <1>3
<1> QED
  BY <1>1, <1>4 DEF QuerySteps

LEMMA ShortQueries ==
  <<>> \in Seq(QuerySteps) /\ <<"return">> \in Seq(QuerySteps)
<1>1. "return" \in QuerySteps
  BY DEF QuerySteps, ApplySteps
<1> QED
  BY <1>1

\* The next step tells whether a caller applies a rename.
LEMMA GateOfStep ==
  ASSUME Shape, NEW c \in Callers, Inside(c)
  PROVE  call[c].gate = "write" <=> Head(call[c].steps) \in ApplySteps
<1>1. Fits(call[c]) /\ call[c].steps # <<>>
  BY DEF Shape, Inside
<1>2. CASE call[c].gate = "write"
  <2>1. call[c].steps \in Applications
    BY <1>1, <1>2 DEF Fits
  <2> QED
    BY <1>2, <2>1 DEF Applications, Applying, ApplySteps
<1>3. CASE call[c].gate # "write"
  BY <1>1, <1>3, TailOfQuery DEF Fits
<1> QED
  BY <1>2, <1>3

LEMMA IdleFits ==
  ASSUME NEW todo \in Seq(DOMAIN Program)
  PROVE  Fits(Idle(todo)) /\ Idle(todo).gate = "none"
  BY ShortQueries DEF Fits, Idle, Fields

LEMMA FinishIsQuery ==
  ASSUME Shape, NEW c \in Callers, call[c].gate # "write", Finish(c)
  PROVE  QueryStep(c)
  BY IdleFits DEF QueryStep, Finish, Shape, Fits

LEMMA GotoIsQuery ==
  ASSUME Shape, NEW c \in Callers, call[c].gate # "write",
         NEW record, Fits(record), record.gate # "write",
         record.steps # <<>>, Goto(c, record)
  PROVE  QueryStep(c)
<1>1. record.steps \in Seq(QuerySteps)
  BY DEF Fits
<1>2. CASE Tail(record.steps) = <<>>
  BY <1>2, FinishIsQuery DEF Goto
<1>3. CASE Tail(record.steps) # <<>>
  <2> DEFINE stage == IF Head(Tail(record.steps)) \in Requesting
                        THEN "attempt" ELSE "none"
             r == [record EXCEPT !.steps = Tail(record.steps),
                                 !.stage = stage]
  <2>1. Set(c, r)
    BY <1>3 DEF Goto
  <2>2. Fits(r) /\ r.gate # "write"
    BY <1>1, TailOfQuery DEF Fits, Fields
  <2> QED
    BY <2>1, <2>2 DEF QueryStep
<1> QED
  BY <1>2, <1>3

\* A call that has gone no further.
Alike(record, c) ==
  /\ DOMAIN record = Fields
  /\ record.todo = call[c].todo
  /\ record.gate = call[c].gate
  /\ record.steps = call[c].steps

LEMMA AlikeIsQuery ==
  ASSUME Shape, NEW c \in Callers, Inside(c), call[c].gate # "write",
         NEW record, Alike(record, c),
         Set(c, record) \/ Goto(c, record)
  PROVE  QueryStep(c)
<1>1. Fits(record) /\ record.gate # "write" /\ record.steps # <<>>
  BY DEF Shape, Fits, Alike, Inside
<1>2. CASE Set(c, record)
  BY <1>1, <1>2 DEF QueryStep
<1>3. CASE Goto(c, record)
  BY <1>1, <1>3, GotoIsQuery
<1> QED
  BY <1>2, <1>3

LEMMA NotApplying ==
  ASSUME Shape, NEW c \in Callers, Inside(c),
         Head(call[c].steps) \notin ApplySteps
  PROVE  /\ call[c].gate # "write"
         /\ Alike(call[c], c)
         /\ DOMAIN call[c] = Fields
  BY GateOfStep DEF Shape, Fits, Alike

-----------------------------------------------------------------------------
(* The steps of callers that apply nothing                                 *)

Queries(c) ==
  \/ Fail(c) \/ Attached(c) \/ Acquire(c) \/ Start(c) \/ StartFails(c)
  \/ Synchronize(c) \/ SynchronizeRefused(c) \/ Attempt(c)
  \/ \E reply \in {"items", "empty"} : LookUp(c, reply)
  \/ \E reply \in {"items", "empty", "gave up"} : Answer(c, reply)
  \/ \E edit \in SUBSET Files : AnswerRename(c, edit)
  \/ Receive(c) \/ Retry(c) \/ Expand(c) \/ Qualify(c)
  \/ ShowSignatures(c) \/ Return(c) \/ Compare(c)
  \/ \E f \in Files : NormalizeFile(c, f)
  \/ Normalized(c) \/ InsertPreview(c)

LEMMA QueriesAreQuerySteps ==
  ASSUME Shape, NEW c \in Callers, Queries(c)
  PROVE  QueryStep(c)
<1>1. Inside(c) /\ Head(call[c].steps) \notin ApplySteps
  BY DEF Queries, Fail, Attached, Acquire, Start, StartFails, Synchronize,
         SynchronizeRefused, Attempt, LookUp, Answer, AnswerRename, Receive,
         Retry, Expand, Qualify, ShowSignatures, Return, Compare,
         NormalizeFile, Normalized, InsertPreview, InRequest, At,
         Requesting, Recovering, ApplySteps
<1>2. /\ call[c].gate # "write"
      /\ Alike(call[c], c)
      /\ DOMAIN call[c] = Fields
  BY <1>1, NotApplying
<1>3. CASE Finish(c)
  BY <1>2, <1>3, FinishIsQuery
<1>4. ASSUME NEW record, Alike(record, c),
             Set(c, record) \/ Goto(c, record)
      PROVE  QueryStep(c)
  BY <1>1, <1>2, <1>4, AlikeIsQuery
<1>5. CASE Fail(c) \/ Return(c) \/ InsertPreview(c) \/ StartFails(c)
           \/ SynchronizeRefused(c)
  BY <1>3, <1>5
     DEF Fail, Return, InsertPreview, StartFails, SynchronizeRefused
<1>6. CASE Attached(c) \/ ShowSignatures(c) \/ Compare(c)
  BY <1>2, <1>3, <1>4, <1>6 DEF Attached, ShowSignatures, Compare
<1>7. CASE Acquire(c) \/ Start(c)
  <2>1. ASSUME NEW g
        PROVE  Alike([call[c] EXCEPT !.generation = g], c)
    BY <1>2 DEF Alike, Fields
  <2> QED
    BY <1>4, <1>7, <2>1 DEF Acquire, Start
<1>8. CASE Synchronize(c)
  <2>1. ASSUME NEW snapshots
        PROVE  Alike([call[c] EXCEPT !.snapshots = snapshots], c)
    BY <1>2 DEF Alike, Fields
  <2> QED
    BY <1>4, <1>8, <2>1 DEF Synchronize
<1>9. CASE Attempt(c)
  <2>1. ASSUME NEW wasBusy PROVE Alike(Sent(c, wasBusy), c)
    BY <1>2 DEF Alike, Fields, Sent
  <2> QED
    BY <1>4, <1>9, <2>1 DEF Attempt
<1>10. ASSUME NEW reply, LookUp(c, reply) PROVE QueryStep(c)
  <2>1. Alike([call[c] EXCEPT !.reply = reply], c)
    BY <1>2 DEF Alike, Fields
  <2> QED
    BY <1>4, <1>10, <2>1 DEF LookUp
<1>11. ASSUME NEW reply, Answer(c, reply) PROVE QueryStep(c)
  <2>1. ASSUME NEW busy
        PROVE  Alike([call[c] EXCEPT !.stage = "answered",
                        !.reply = reply, !.busy = busy], c)
    BY <1>2 DEF Alike, Fields
  <2>2. PICK busy : Set(c, [call[c] EXCEPT !.stage = "answered",
                              !.reply = reply, !.busy = busy])
    BY <1>11 DEF Answer
  <2> QED
    BY <1>4, <2>1, <2>2
<1>12. ASSUME NEW edit, AnswerRename(c, edit) PROVE QueryStep(c)
  <2>1. ASSUME NEW computed
        PROVE  Alike([call[c] EXCEPT !.stage = "answered",
                        !.reply = "items", !.edit = edit,
                        !.computed = computed], c)
    BY <1>2 DEF Alike, Fields
  <2>2. PICK computed : Set(c, [call[c] EXCEPT !.stage = "answered",
                                  !.reply = "items", !.edit = edit,
                                  !.computed = computed])
    BY <1>12 DEF AnswerRename
  <2> QED
    BY <1>4, <2>1, <2>2
<1>13. CASE Receive(c)
  <2>1. Alike([call[c] EXCEPT !.stage = "waiting", !.busy = <<>>], c)
    BY <1>2 DEF Alike, Fields
  <2>2. ASSUME NEW busy
        PROVE  Alike([call[c] EXCEPT !.wasBusy = FALSE, !.busy = busy], c)
    BY <1>2 DEF Alike, Fields
  <2>3. \/ Set(c, [call[c] EXCEPT !.stage = "waiting", !.busy = <<>>])
        \/ \E busy : Goto(c, [call[c] EXCEPT !.wasBusy = FALSE,
                                             !.busy = busy])
    BY <1>13 DEF Receive
  <2> QED
    BY <1>4, <2>1, <2>2, <2>3
<1>14. CASE Retry(c)
  <2>1. ASSUME NEW wasBusy
        PROVE  Alike([Sent(c, wasBusy) EXCEPT
                        !.retries = call[c].retries + 1,
                        !.reply = "none"], c)
    BY <1>2 DEF Alike, Fields, Sent
  <2>2. PICK wasBusy :
          Set(c, [Sent(c, wasBusy) EXCEPT !.retries = call[c].retries + 1,
                                          !.reply = "none"])
    BY <1>2, <1>14 DEF Retry, Sent, Fields
  <2> QED
    BY <1>4, <2>1, <2>2
<1>15. call[c].todo \in Seq(DOMAIN Program)
       /\ call[c].steps \in Seq(QuerySteps) /\ call[c].steps # <<>>
  BY <1>1, <1>2 DEF Shape, Fits, Inside
<1>16. CASE Expand(c)
  <2> DEFINE r == [call[c] EXCEPT !.stage = "attempt", !.reply = "none",
                     !.retries = 0,
                     !.steps = <<"request">> \o Tail(call[c].steps)]
  <2>1. CASE Goto(c, call[c])
    BY <1>2, <1>4, <2>1
  <2>2. CASE Set(c, r)
    <3>1. Fits(r) /\ r.gate # "write"
      BY <1>2, <1>15, TailOfQuery DEF Fits, Fields
    <3> QED
      BY <1>2, <2>2, <3>1 DEF QueryStep
  <2> QED
    BY <1>16, <2>1, <2>2 DEF Expand
<1>17. CASE Qualify(c)
  <2>1. CASE Goto(c, call[c])
    BY <1>2, <1>4, <2>1
  <2>2. ASSUME NEW stability,
               Set(c, [call[c] EXCEPT !.steps = <<"return">>,
                                      !.stability = stability])
        PROVE  QueryStep(c)
    <3> DEFINE r == [call[c] EXCEPT !.steps = <<"return">>,
                                    !.stability = stability]
    <3>1. Fits(r) /\ r.gate # "write"
      BY <1>2, <1>15, ShortQueries DEF Fits, Fields
    <3> QED
      BY <1>2, <2>2, <3>1 DEF QueryStep
  <2> QED
    BY <1>17, <2>1, <2>2 DEF Qualify
<1>18. ASSUME NEW f \in Files, NormalizeFile(c, f) PROVE QueryStep(c)
  <2>1. ASSUME NEW files
        PROVE  Alike([call[c] EXCEPT !.edit = call[c].edit \ {f},
                                     !.files = files], c)
    BY <1>2 DEF Alike, Fields
  <2>2. PICK files : Set(c, [call[c] EXCEPT !.edit = call[c].edit \ {f},
                                            !.files = files])
    BY <1>2, <1>18 DEF NormalizeFile, Fields
  <2> QED
    BY <1>4, <2>1, <2>2
<1>19. CASE Normalized(c)
  <2>1. ASSUME NEW reply
        PROVE  Alike([call[c] EXCEPT !.reply = reply, !.computed = <<>>,
                                     !.snapshots = NoDocuments], c)
    BY <1>2 DEF Alike, Fields
  <2> QED
    BY <1>4, <1>19, <2>1 DEF Normalized
<1> QED
  BY <1>5, <1>6, <1>7, <1>8, <1>9, <1>10, <1>11, <1>12, <1>13, <1>14,
     <1>16, <1>17, <1>18, <1>19 DEF Queries

-----------------------------------------------------------------------------
(* Documents, and the calls of the others                                  *)

LEMMA StillTracked ==
  ASSUME NEW g, NEW f PROVE Synchronized(g, f) # Untracked
<1>1. ASSUME NEW version, NEW text
      PROVE  Document(version, text) # Untracked
  <2>1. "text" \in DOMAIN Document(version, text)
    BY DEF Document
  <2>2. "text" \notin DOMAIN Untracked
    BY DEF Untracked
  <2> QED
    BY <2>1, <2>2
<1> QED
  BY <1>1 DEF Synchronized

LEMMA SynchronizingGrows ==
  ASSUME Shape, NEW g, NEW f,
         documents' = [documents EXCEPT ![g] =
                         [documents[g] EXCEPT ![f] = Synchronized(g, f)]]
  PROVE  Grows
  BY StillTracked DEF Grows, Shape, Tracked

LEMMA SetKeeps ==
  ASSUME Shape, OneWriter, NEW c \in Callers, NEW r, Set(c, r), Fits(r),
         r.gate = "write" => call[c].gate = "write"
  PROVE  /\ DOMAIN call' = Callers
         /\ \A d \in Callers : Fits(call[d])'
         /\ OneWriter'
         /\ call'[c] = r
         /\ \A d \in Callers \ {c} : call'[d] = call[d]
<1>1. /\ DOMAIN call' = Callers
      /\ call'[c] = r
      /\ \A d \in Callers \ {c} : call'[d] = call[d]
  BY DEF Set, Shape
<1>2. \A d \in Callers : Fits(call[d])'
  BY <1>1 DEF Shape, Fits
<1>3. OneWriter'
  BY <1>1 DEF OneWriter
<1> QED
  BY <1>1, <1>2, <1>3

LEMMA SettledKeeps ==
  ASSUME GInv, NEW c \in Callers, QueryStep(c), Grows,
         server' \in [generation : 0..MaxGenerations,
                      state : {"none", "up", "failed"}],
         behind' = {}
  PROVE  GInv'
<1>1. PICK r : Set(c, r) /\ Fits(r) /\ r.gate # "write"
  BY DEF QueryStep
<1>2. /\ DOMAIN call' = Callers
      /\ \A d \in Callers : Fits(call[d])'
      /\ OneWriter'
  BY <1>1, SetKeeps DEF GInv
<1>3. Shape'
  BY <1>2 DEF GInv, Shape, Grows
<1>4. BehindInv'
  BY DEF BehindInv
<1> QED
  BY <1>2, <1>3, <1>4 DEF GInv

LEMMA QueryKeeps ==
  ASSUME GInv, NEW c \in Callers, QueryStep(c), Grows,
         UNCHANGED <<server, behind>>
  PROVE  GInv'
<1>1. PICK r : Set(c, r) /\ Fits(r) /\ r.gate # "write"
  BY DEF QueryStep
<1>2. /\ DOMAIN call' = Callers
      /\ \A d \in Callers : Fits(call[d])'
      /\ OneWriter'
      /\ \A d \in Callers \ {c} : call'[d] = call[d]
  BY <1>1, SetKeeps DEF GInv
<1>3. Shape'
  BY <1>2 DEF GInv, Shape, Grows
<1>4. ASSUME behind # {} PROVE BehindInv'
  <2>1. PICK d \in Callers : Announces(d)
    BY <1>4 DEF GInv, BehindInv
  <2>2. d # c
    BY <2>1 DEF Announces, QueryStep
  <2>3. Announces(d)'
    BY <1>2, <2>1, <2>2 DEF Announces, Announcing, At, Inside
  <2>4. \A f \in behind : f \in Files /\ Tracked(server.generation, f)'
    BY <1>4 DEF GInv, BehindInv, Grows, Shape
  <2> QED
    BY <1>4, <2>1, <2>3, <2>4 DEF GInv, BehindInv, Tracked
<1>5. ASSUME behind = {} PROVE BehindInv'
  BY <1>5 DEF BehindInv
<1> QED
  BY <1>2, <1>3, <1>4, <1>5 DEF GInv

LEMMA QueriesKeep ==
  ASSUME GInv, NEW c \in Callers, Queries(c)
  PROVE  GInv'
<1>1. QueryStep(c)
  BY QueriesAreQuerySteps DEF GInv
<1>2. CASE Start(c)
  <2>1. Grows
    BY <1>2 DEF Start, Grows, Tracked
  <2>2. server' \in [generation : 0..MaxGenerations,
                     state : {"none", "up", "failed"}]
    BY <1>2, ToolsAssumption DEF Start, GInv, Shape
  <2> QED
    BY <1>1, <1>2, <2>1, <2>2, SettledKeeps DEF Start
<1>3. CASE StartFails(c)
  <2>1. Grows
    BY <1>3 DEF StartFails, Grows, Tracked
  <2>2. server' \in [generation : 0..MaxGenerations,
                     state : {"none", "up", "failed"}]
    BY <1>3 DEF StartFails, GInv, Shape
  <2> QED
    BY <1>1, <1>3, <2>1, <2>2, SettledKeeps DEF StartFails
<1>4. CASE ~Start(c) /\ ~StartFails(c)
  <2>1. UNCHANGED <<server, behind>>
    BY <1>4 DEF Queries, Fail, Attached, Acquire, Synchronize,
         SynchronizeRefused, Attempt, LookUp, Answer, AnswerRename, Receive,
         Retry, Expand, Qualify, ShowSignatures, Return, Compare,
         NormalizeFile, Normalized, InsertPreview
  <2>2. CASE Synchronize(c) \/ SynchronizeRefused(c)
    <3>1. PICK g, f : documents' =
            [documents EXCEPT ![g] =
               [documents[g] EXCEPT ![f] = Synchronized(g, f)]]
      BY <2>2 DEF Synchronize, SynchronizeRefused
    <3> QED
      BY <1>1, <2>1, <3>1, SynchronizingGrows, QueryKeeps DEF GInv
  <2>3. CASE ~Synchronize(c) /\ ~SynchronizeRefused(c)
    <3>1. documents' = documents
      BY <1>4, <2>3 DEF Queries, Fail, Attached, Acquire, Attempt, LookUp,
           Answer, AnswerRename, Receive, Retry, Expand, Qualify,
           ShowSignatures, Return, Compare, NormalizeFile, Normalized,
           InsertPreview
    <3>2. Grows
      BY <3>1 DEF Grows, Tracked
    <3> QED
      BY <1>1, <2>1, <3>2, QueryKeeps
  <2> QED
    BY <2>2, <2>3
<1> QED
  BY <1>2, <1>3, <1>4

-----------------------------------------------------------------------------
(* Entering, and what a rename that is applied does                        *)

\* What is left of an application, step by step.
LEMMA ApplicationTails ==
  ASSUME NEW steps \in Applications
  PROVE  /\ steps # <<>>
         /\ Head(steps) \in ApplySteps
         /\ Head(steps) = "take" =>
              Tail(steps) = <<"commit", "documents", "resynchronize">>
         /\ Head(steps) = "commit" =>
              /\ Tail(steps) = <<"documents", "resynchronize">>
              /\ Tail(steps) # <<>>
         /\ Head(steps) = "documents" =>
              /\ Tail(steps) = <<"resynchronize">>
              /\ Tail(steps) # <<>>
         /\ Head(steps) = "resynchronize" => Tail(steps) = <<>>
<1>1. CASE steps = Applying
  BY <1>1 DEF Applying, ApplySteps
<1>2. CASE steps = <<"commit", "documents", "resynchronize">>
  BY <1>2 DEF ApplySteps
<1>3. CASE steps = <<"documents", "resynchronize">>
  BY <1>3 DEF ApplySteps
<1>4. CASE steps = <<"resynchronize">>
  BY <1>4 DEF ApplySteps
<1> QED
  BY <1>1, <1>2, <1>3, <1>4 DEF Applications

LEMMA EnterKeeps ==
  ASSUME GInv, NEW c \in Callers, NEW f, Enter(c, f)
  PROVE  GInv'
<1> DEFINE tool == Head(call[c].todo)
           gate == IF Has(tool, "gate") THEN "read"
                   ELSE IF Has(tool, "write gate") THEN "write" ELSE "none"
           r == [call[c] EXCEPT !.todo = Tail(call[c].todo), !.gate = gate,
                                !.file = f, !.steps = SharedSteps(tool)]
<1>1. Set(c, r) /\ GateFree(gate) /\ ~Inside(c)
  BY DEF Enter
<1>2. Fits(call[c]) /\ call[c].todo # <<>>
  BY DEF GInv, Shape, Enter
<1>3. tool \in DOMAIN Program /\ Tail(call[c].todo) \in Seq(DOMAIN Program)
  <2>1. call[c].todo \in Seq(DOMAIN Program)
    BY <1>2 DEF Fits
  <2>2. ASSUME NEW S, NEW todo \in Seq(S), todo # <<>>
        PROVE  Head(todo) \in S /\ Tail(todo) \in Seq(S)
    BY <2>2
  <2> QED
    BY <1>2, <2>1, <2>2
<1>4. Has(tool, "gate") => ~Has(tool, "write gate")
  BY <1>3, GatesAssumption
<1>5. Fits(r)
  <2>1. CASE Has(tool, "write gate")
    <3>1. SharedSteps(tool) = Applying /\ gate = "write"
      BY <1>3, <1>4, <2>1, ApplyingAssumption
    <3> QED
      BY <1>2, <1>3, <3>1 DEF Fits, Fields, Applications
  <2>2. CASE ~Has(tool, "write gate")
    <3>1. SharedSteps(tool) \in Seq(QuerySteps) /\ gate # "write"
      BY <1>3, <2>2, ApplyingAssumption
    <3> QED
      BY <1>2, <1>3, <3>1 DEF Fits, Fields
  <2> QED
    BY <2>1, <2>2
<1>6. /\ call[c].gate # "write"
      /\ r.gate = gate
  BY <1>1, <1>2, ApplicationTails DEF Fits, Fields, Inside
<1>7. /\ DOMAIN call' = Callers
      /\ call'[c] = r
      /\ \A d \in Callers \ {c} : call'[d] = call[d]
  BY <1>1 DEF Set, GInv, Shape
<1>8. \A d \in Callers : Fits(call[d])'
  BY <1>5, <1>7 DEF GInv, Shape, Fits
<1>9. OneWriter'
  <2>1. CASE gate = "write"
    <3>1. \A d \in Callers \ {c} : call'[d].gate = "none"
      BY <1>1, <1>7, <2>1 DEF GateFree
    <3> QED
      BY <3>1 DEF OneWriter
  <2>2. CASE gate # "write"
    <3>1. call'[c].gate # "write"
      BY <1>6, <1>7, <2>2
    <3> QED
      BY <1>7, <3>1 DEF OneWriter, GInv
  <2> QED
    BY <2>1, <2>2
<1>10. Shape'
  BY <1>7, <1>8 DEF Enter, GInv, Shape
<1>11. BehindInv'
  <2>1. CASE behind = {}
    BY <2>1 DEF BehindInv, Enter
  <2>2. CASE behind # {}
    <3>1. PICK d \in Callers : Announces(d)
      BY <2>2 DEF GInv, BehindInv
    <3>2. d # c
      BY <1>6, <3>1 DEF Announces
    <3>3. Announces(d)'
      BY <1>7, <3>1, <3>2 DEF Announces, Announcing, At, Inside, Enter
    <3> QED
      BY <2>2, <3>1, <3>3 DEF GInv, BehindInv, Tracked, Enter
  <2> QED
    BY <2>1, <2>2
<1> QED
  BY <1>9, <1>10, <1>11 DEF GInv

\* Who applies a rename goes on with the next of its steps.
ApplyingStep(c, record) ==
  \E r : /\ Set(c, r)
         /\ Fits(r)
         /\ Tail(call[c].steps) # <<>> =>
              /\ r.gate = "write"
              /\ r.steps = Tail(call[c].steps)
              /\ r.edit = record.edit
              /\ r.generation = record.generation

LEMMA ApplyingGoes ==
  ASSUME GInv, NEW c \in Callers, NEW record, Alike(record, c), Inside(c),
         Head(call[c].steps) \in ApplySteps, Goto(c, record)
  PROVE  /\ call[c].gate = "write"
         /\ call[c].steps \in Applications
         /\ ApplyingStep(c, record)
<1>1. call[c].gate = "write" /\ Fits(call[c])
  BY GateOfStep DEF GInv, Shape
<1>2. call[c].steps \in Applications
  BY <1>1 DEF Fits
<1>3. CASE Tail(call[c].steps) = <<>>
  BY <1>1, <1>2, <1>3, IdleFits
     DEF Goto, Finish, Fits, Alike, ApplyingStep
<1>4. CASE Tail(call[c].steps) # <<>>
  <2> DEFINE stage == IF Head(Tail(record.steps)) \in Requesting
                        THEN "attempt" ELSE "none"
             r == [record EXCEPT !.steps = Tail(record.steps),
                                 !.stage = stage]
  <2>1. Set(c, r)
    BY <1>4 DEF Goto, Alike
  <2>2. Tail(call[c].steps) \in Applications
    BY <1>2, <1>4, ApplicationTails DEF Applications, ApplySteps
  <2>3. /\ Fits(r)
        /\ r.gate = "write"
        /\ r.steps = Tail(call[c].steps)
        /\ r.edit = record.edit
        /\ r.generation = record.generation
    BY <1>1, <2>2 DEF Fits, Fields, Alike
  <2> QED
    BY <1>1, <1>2, <2>1, <2>3 DEF ApplyingStep
<1> QED
  BY <1>3, <1>4

LEMMA AnnouncesItself ==
  ASSUME GInv, NEW c \in Callers, call[c].gate = "write", behind # {}
  PROVE  Announces(c)
  BY DEF GInv, OneWriter, BehindInv, Announces

LEMMA NothingBehindKeeps ==
  ASSUME GInv, NEW c \in Callers, NEW r, Set(c, r), Fits(r),
         call[c].gate = "write", documents' = documents,
         server' \in [generation : 0..MaxGenerations,
                      state : {"none", "up", "failed"}],
         behind' = {}
  PROVE  GInv'
<1>1. /\ DOMAIN call' = Callers
      /\ \A d \in Callers : Fits(call[d])'
      /\ OneWriter'
  BY SetKeeps DEF GInv
<1>2. Shape'
  BY <1>1 DEF GInv, Shape
<1> QED
  BY <1>1, <1>2 DEF GInv, BehindInv

Applies(c) ==
  \/ \E id \in 1..made : TakePreview(c, id)
  \/ Commit(c) \/ CommitFails(c) \/ LookUpDocuments(c)
  \/ \E f \in Files : Resynchronize(c, f)
  \/ Resynchronized(c) \/ ResynchronizeFails(c)

LEMMA ApplicationKeeps ==
  ASSUME GInv, NEW c \in Callers, Applies(c)
  PROVE  GInv'
<1>1. Inside(c) /\ Head(call[c].steps) \in ApplySteps
  BY DEF Applies, TakePreview, Commit, CommitFails, LookUpDocuments,
         Resynchronize, Resynchronized, ResynchronizeFails, At, ApplySteps
<1>2. /\ call[c].gate = "write"
      /\ Fits(call[c]) /\ DOMAIN call[c] = Fields
      /\ call[c].steps \in Applications
      /\ server \in [generation : 0..MaxGenerations,
                     state : {"none", "up", "failed"}]
  BY <1>1, GateOfStep DEF GInv, Shape, Fits
<1>3. ASSUME Finish(c), documents' = documents, behind' = {},
             server' \in [generation : 0..MaxGenerations,
                          state : {"none", "up", "failed"}]
      PROVE  GInv'
  BY <1>2, <1>3, IdleFits, NothingBehindKeeps DEF Finish, Fits
<1>4. ASSUME ~Announcing(c) PROVE behind = {}
  BY <1>2, <1>4, AnnouncesItself DEF Announces
<1>5. ASSUME NEW id, TakePreview(c, id) PROVE GInv'
  <2>1. behind' = {} /\ server' = server /\ documents' = documents
    BY <1>4, <1>5 DEF TakePreview, Announcing, At
  <2>2. CASE Finish(c)
    BY <1>2, <1>3, <2>1, <2>2
  <2>3. ASSUME NEW files, Goto(c, [call[c] EXCEPT !.files = files])
        PROVE  GInv'
    <3> DEFINE record == [call[c] EXCEPT !.files = files]
    <3>1. Alike(record, c)
      BY <1>2 DEF Alike, Fields
    <3>2. Goto(c, record)
      BY <2>3
    <3> HIDE DEF record
    <3>3. ApplyingStep(c, record)
      BY <1>1, <3>1, <3>2, ApplyingGoes
    <3>4. PICK r : Set(c, r) /\ Fits(r)
      BY <3>3 DEF ApplyingStep
    <3> QED
      BY <1>2, <2>1, <3>4, NothingBehindKeeps
  <2> QED
    BY <1>5, <2>2, <2>3 DEF TakePreview
<1>6. CASE CommitFails(c)
  BY <1>2, <1>3, <1>4, <1>6 DEF CommitFails, Announcing, At
<1>7. CASE Resynchronized(c)
  <2>1. behind = {}
    BY <1>2, <1>7, AnnouncesItself DEF Announces, Resynchronized
  <2> QED
    BY <1>2, <1>3, <1>7, <2>1 DEF Resynchronized
<1>8. CASE ResynchronizeFails(c)
  BY <1>2, <1>3, <1>8 DEF ResynchronizeFails
<1>9. CASE Commit(c)
  <2> DEFINE files == DOMAIN call[c].files
             record == [call[c] EXCEPT !.edit = files, !.files = <<>>]
  <2>1. /\ Alike(record, c)
        /\ record.edit = files
    BY <1>2 DEF Alike, Fields
  <2>2. /\ Tail(call[c].steps) = <<"documents", "resynchronize">>
        /\ Tail(call[c].steps) # <<>>
    BY <1>2, <1>9, ApplicationTails DEF Commit, At
  <2>3. Goto(c, record)
    BY <1>9 DEF Commit
  <2> HIDE DEF record
  <2>4. ApplyingStep(c, record)
    BY <1>1, <2>1, <2>3, ApplyingGoes
  <2>5. PICK r : /\ Set(c, r) /\ Fits(r) /\ r.gate = "write"
                 /\ r.steps = <<"documents", "resynchronize">>
                 /\ r.edit = files
    BY <2>4, <2>1, <2>2 DEF ApplyingStep
  <2>6. /\ DOMAIN call' = Callers
        /\ \A d \in Callers : Fits(call[d])'
        /\ OneWriter'
        /\ call'[c] = r
    BY <1>2, <2>5, SetKeeps DEF GInv
  <2>7. Shape'
    BY <1>9, <2>6 DEF GInv, Shape, Commit
  <2>8. behind' \subseteq files
    BY <1>9 DEF Commit
  <2>9. Announces(c)'
    BY <2>5, <2>6, <2>8 DEF Announces, Announcing, At, Inside
  <2>10. ASSUME NEW f \in behind'
        PROVE  /\ server.state # "none"
               /\ f \in Files /\ Tracked(server.generation, f)
    BY <1>9 DEF Commit
  <2>11. BehindInv'
    BY <1>9, <2>9, <2>10 DEF BehindInv, Commit, Tracked
  <2> QED
    BY <2>6, <2>7, <2>11 DEF GInv
<1>10. CASE LookUpDocuments(c)
  <2> DEFINE known == {f \in call[c].edit :
                         server.state # "none"
                           /\ Tracked(server.generation, f)}
             record == [call[c] EXCEPT !.generation = server.generation,
                                       !.edit = known]
  <2>1. /\ Alike(record, c)
        /\ record.edit = known
        /\ record.generation = server.generation
    BY <1>2 DEF Alike, Fields
  <2>2. /\ Tail(call[c].steps) = <<"resynchronize">>
        /\ Tail(call[c].steps) # <<>>
    BY <1>2, <1>10, ApplicationTails DEF LookUpDocuments, At
  <2>3. Goto(c, record)
    BY <1>2, <1>10 DEF LookUpDocuments, Fields
  <2> HIDE DEF record
  <2>4. ApplyingStep(c, record)
    BY <1>1, <2>1, <2>3, ApplyingGoes
  <2>5. PICK r : /\ Set(c, r) /\ Fits(r) /\ r.gate = "write"
                 /\ r.steps = <<"resynchronize">>
                 /\ r.edit = known
                 /\ r.generation = server.generation
    BY <2>4, <2>1, <2>2 DEF ApplyingStep
  <2>6. /\ DOMAIN call' = Callers
        /\ \A d \in Callers : Fits(call[d])'
        /\ OneWriter'
        /\ call'[c] = r
    BY <1>2, <2>5, SetKeeps DEF GInv
  <2>7. Shape'
    BY <1>10, <2>6 DEF GInv, Shape, LookUpDocuments
  <2>8. CASE behind = {}
    BY <1>10, <2>6, <2>7, <2>8 DEF GInv, BehindInv, LookUpDocuments
  <2>9. CASE behind # {}
    <3>1. behind \subseteq call[c].edit
      BY <1>2, <2>9, AnnouncesItself DEF Announces
    <3>2. behind \subseteq known
      BY <2>9, <3>1 DEF GInv, BehindInv
    <3>3. Announces(c)'
      BY <1>10, <2>5, <2>6, <3>2
         DEF Announces, Announcing, At, Inside, LookUpDocuments
    <3>4. BehindInv'
      BY <1>10, <2>9, <3>3 DEF GInv, BehindInv, Tracked, LookUpDocuments
    <3> QED
      BY <2>6, <2>7, <3>4 DEF GInv
  <2> QED
    BY <2>8, <2>9
<1>11. ASSUME NEW f \in Files, Resynchronize(c, f) PROVE GInv'
  <2> DEFINE g == call[c].generation
             r == [call[c] EXCEPT !.edit = call[c].edit \ {f}]
  <2>1. Set(c, r)
    BY <1>2, <1>11 DEF Resynchronize, Fields
  <2>2. /\ Fits(r) /\ r.gate = "write" /\ r.steps = call[c].steps
        /\ r.edit = call[c].edit \ {f} /\ r.generation = g
    BY <1>2 DEF Fits, Fields
  <2>3. /\ DOMAIN call' = Callers
        /\ \A d \in Callers : Fits(call[d])'
        /\ OneWriter'
        /\ call'[c] = r
    BY <1>2, <2>1, <2>2, SetKeeps DEF GInv
  <2>4. Grows
    <3>1. documents' = [documents EXCEPT ![g] =
                          [documents[g] EXCEPT ![f] = Synchronized(g, f)]]
      BY <1>11 DEF Resynchronize
    <3> QED
      BY <3>1, SynchronizingGrows DEF GInv
  <2>5. Shape'
    BY <1>11, <2>3, <2>4 DEF GInv, Shape, Grows, Resynchronize
  <2>6. behind' \subseteq behind /\ server' = server
    BY <1>11 DEF Resynchronize
  <2>7. CASE behind' = {}
    BY <2>3, <2>5, <2>7 DEF GInv, BehindInv
  <2>8. CASE behind' # {}
    <3>1. Announces(c)
      BY <1>2, <2>6, <2>8, AnnouncesItself
    <3>2. g = server.generation
      BY <1>11, <3>1 DEF Announces, Resynchronize
    <3>3. behind' = behind \ {f}
      BY <1>11, <3>2 DEF Resynchronize
    <3>4. Announces(c)'
      BY <2>2, <2>3, <2>6, <3>1, <3>2, <3>3
         DEF Announces, Announcing, At, Inside
    <3>5. \A e \in behind' :
            e \in Files /\ Tracked(server.generation, e)'
      BY <2>4, <2>6, <2>8 DEF GInv, BehindInv, Grows, Shape
    <3>6. BehindInv'
      BY <2>6, <2>8, <3>4, <3>5 DEF GInv, BehindInv, Tracked
    <3> QED
      BY <2>3, <2>5, <3>6 DEF GInv
  <2> QED
    BY <2>7, <2>8
<1> QED
  BY <1>5, <1>6, <1>7, <1>8, <1>9, <1>10, <1>11 DEF Applies

-----------------------------------------------------------------------------
(* The rest of the world                                                   *)

World ==
  \/ \E f \in Files, text \in Texts : EditFile(f, text)
  \/ \E token \in Tokens : BeginProgress(token) \/ EndProgress(token)
  \/ \E health \in Healths, quiescent \in BOOLEAN :
       ReportStatus(health, quiescent)
  \/ Crash
  \/ Tick
  \/ \E size \in 1..(MaxBytes + 1) : PreviewElsewhere(size)

\* A crash leaves the generation in its slot, where the rename that is being
\* applied finds it.
LEMMA WorldKeeps ==
  ASSUME GInv, World
  PROVE  GInv'
<1>1. UNCHANGED <<call, documents, behind>>
  BY DEF World, EditFile, BeginProgress, EndProgress, ReportStatus, Report,
         Crash, Tick, PreviewElsewhere
<1>2. CASE Crash
  <2>1. /\ server' \in [generation : 0..MaxGenerations,
                        state : {"none", "up", "failed"}]
        /\ server'.state # "none"
        /\ server'.generation = server.generation
    BY <1>2 DEF Crash, GInv, Shape
  <2>2. Shape' /\ OneWriter'
    BY <1>1, <2>1 DEF GInv, Shape, OneWriter, Fits
  <2>3. BehindInv'
    BY <1>1, <2>1 DEF GInv, BehindInv, Tracked, Announces, Announcing, At,
                      Inside
  <2> QED
    BY <2>2, <2>3 DEF GInv
<1>3. CASE ~Crash
  <2>1. server' = server
    BY <1>3 DEF World, EditFile, BeginProgress, EndProgress, ReportStatus,
                Report, Tick, PreviewElsewhere
  <2>2. Shape' /\ OneWriter'
    BY <1>1, <2>1 DEF GInv, Shape, OneWriter, Fits
  <2>3. BehindInv'
    BY <1>1, <2>1 DEF GInv, BehindInv, Tracked, Announces, Announcing, At,
                      Inside
  <2> QED
    BY <2>2, <2>3 DEF GInv
<1> QED
  BY <1>2, <1>3

-----------------------------------------------------------------------------
(* The theorem about the gate                                              *)

LEMMA InitGInv == Init => GInv
<1> SUFFICES ASSUME Init PROVE GInv
  OBVIOUS
<1>1. PICK load \in Loads : call = [c \in Callers |-> Idle(load[c])]
  BY DEF Init
<1>2. \A c \in Callers : Fits(call[c]) /\ call[c].gate = "none"
  BY <1>1, LoadsAssumption, IdleFits
<1>3. Shape
  BY <1>1, <1>2, ToolsAssumption DEF Shape, Init, NoDocuments
<1>4. OneWriter /\ BehindInv
  BY <1>2 DEF OneWriter, BehindInv, Init
<1> QED
  BY <1>3, <1>4 DEF GInv

LEMMA StutterKeeps ==
  ASSUME GInv, UNCHANGED vars
  PROVE  GInv'
<1>1. UNCHANGED <<server, documents, call, behind>>
  BY DEF vars
<1> QED
  BY <1>1 DEF GInv, Shape, Fits, OneWriter, BehindInv, Tracked, Announces,
              Announcing, At, Inside

LEMMA NextKeeps ==
  ASSUME GInv, [Next]_vars
  PROVE  GInv'
<1>1. CASE UNCHANGED vars
  BY <1>1, StutterKeeps
<1>2. CASE World
  BY <1>2, WorldKeeps
<1>3. ASSUME NEW c \in Callers, NEW f, Enter(c, f) PROVE GInv'
  BY <1>3, EnterKeeps
<1>4. ASSUME NEW c \in Callers, Queries(c) PROVE GInv'
  BY <1>4, QueriesKeep
<1>5. ASSUME NEW c \in Callers, Applies(c) PROVE GInv'
  BY <1>5, ApplicationKeeps
<1>6. Next => \/ World
              \/ \E c \in Callers :
                   \/ \E f \in Files \cup {NoFile} : Enter(c, f)
                   \/ Queries(c)
                   \/ Applies(c)
  BY DEF Next, World, Queries, Applies
<1> QED
  BY <1>1, <1>2, <1>3, <1>4, <1>5, <1>6

\* The reason holds in every state: the steps a call has left are those of
\* its handler, there is one writer, and what a rename wrote is still in the
\* list of documents that it is going to announce.
THEOREM WritersAnnounce == Spec => []GInv
BY InitGInv, NextKeeps, PTL DEF Spec

\* When no rename is being applied, the server knows of every write of those
\* that were, or is gone: call_apply_rename holds the write gate until the
\* documents are announced or the server is invalidated.
THEOREM StaleServersHidden == Spec => []GateHidesStaleServers
<1>1. GInv => GateHidesStaleServers
  BY DEF GInv, BehindInv, Announces, GateHidesStaleServers
<1> QED
  BY <1>1, WritersAnnounce, PTL

-----------------------------------------------------------------------------
(* Calls, previews and types: the calls                                    *)

\* What a preview has of a file the server was told of is what it computed
\* the edits from.
Agrees(files) ==
  \A f \in DOMAIN files : files[f].computed \in {files[f].before, Unknown}

BasicsOK(r) ==
  /\ r.retries \in 0..MaxRetries
  /\ r.generation \in 0..MaxGenerations
  /\ r.busy \in Seq(BOOLEAN)
  /\ r.steps = <<>> => r = Idle(r.todo)
FilesOK(files) == IsFiniteSet(DOMAIN files) /\ Agrees(files)

\* Whether an answer was empty of a server at work shows in what was seen as
\* the request was sent and as its answer was taken.
NoAsk(steps) == \A i \in DOMAIN steps : steps[i] \notin Requesting
NoExpand(steps) == \A i \in DOMAIN steps : steps[i] # "expand"
Settled(r) == r.retries = MaxRetries \/ ~(r.busy[1] \/ r.busy[3])
SeenBusy(r) == Head(r.steps) \in Recovering /\ r.busy[1] => r.wasBusy
AskOK(r) ==
  /\ Straight(r.steps)
  /\ r.stage \in {"none", "attempt", "sent", "answered", "waiting"}
  /\ r.stage # "none" => r.steps # <<>> /\ Head(r.steps) \in Requesting
  /\ r.stability # "none" => r.steps = <<"return">>
  /\ r.stage = "none" /\ r.busy # <<>> =>
       /\ Settled(r)
       /\ NoAsk(r.steps)
       /\ NoExpand(r.steps) \/ r.reply = "empty"
  /\ r.stage \in {"attempt", "waiting"} => r.busy = <<>>
  /\ r.stage = "sent" => Len(r.busy) = 1 /\ SeenBusy(r)
  /\ r.stage = "answered" =>
       /\ Head(r.steps) \in Recovering => Len(r.busy) = 2
       /\ SeenBusy(r)
  /\ r.stage = "waiting" => r.retries < MaxRetries

-----------------------------------------------------------------------------
(* Lists of steps                                                          *)

LEMMA TailFacts ==
  ASSUME NEW S, NEW steps \in Seq(S), steps # <<>>
  PROVE  /\ Tail(steps) \in Seq(S)
         /\ Len(Tail(steps)) = Len(steps) - 1
         /\ \A i \in DOMAIN Tail(steps) :
              i + 1 \in DOMAIN steps /\ Tail(steps)[i] = steps[i + 1]
         /\ 1 \in DOMAIN steps /\ Head(steps) = steps[1]
  OBVIOUS

LEMMA TailStraight ==
  ASSUME NEW S, NEW steps \in Seq(S), steps # <<>>, Straight(steps)
  PROVE  /\ Straight(Tail(steps))
         /\ Head(steps) \in Requesting \cup {"expand"} => NoAsk(Tail(steps))
         /\ NoAsk(steps) => NoAsk(Tail(steps))
         /\ NoExpand(steps) => NoExpand(Tail(steps))
         /\ NoAsk(steps) => Head(steps) \notin Requesting
         /\ Head(steps) = "expand" => ~NoExpand(steps)
<1>1. /\ DOMAIN steps = 1..Len(steps)
      /\ DOMAIN Tail(steps) = 1..(Len(steps) - 1)
      /\ \A i \in DOMAIN Tail(steps) :
           i + 1 \in DOMAIN steps /\ Tail(steps)[i] = steps[i + 1]
      /\ 1 \in DOMAIN steps /\ Head(steps) = steps[1]
  BY TailFacts
<1> DEFINE t == Tail(steps)
<1> HIDE DEF t
<1>2. ASSUME NEW i \in DOMAIN t, NEW j \in DOMAIN t, i < j,
             t[i] \in Requesting \cup {"expand"}
      PROVE  t[j] \notin Requesting
  <2>1. i + 1 < j + 1 /\ i + 1 \in DOMAIN steps /\ j + 1 \in DOMAIN steps
    BY <1>1, <1>2 DEF t
  <2> QED
    BY <1>1, <1>2, <2>1 DEF Straight, t
<1>3. ASSUME NEW i \in DOMAIN t, Head(steps) \in Requesting \cup {"expand"}
      PROVE  t[i] \notin Requesting
  <2>1. 1 < i + 1 /\ i + 1 \in DOMAIN steps
    BY <1>1 DEF t
  <2> QED
    BY <1>1, <1>3, <2>1 DEF Straight, t
<1>4. Straight(t)
  BY <1>2 DEF Straight
<1> QED
  BY <1>1, <1>3, <1>4 DEF NoAsk, NoExpand, t

LEMMA ShortStraight ==
  /\ Straight(<<>>)
  /\ Straight(<<"return">>) /\ NoAsk(<<"return">>) /\ NoExpand(<<"return">>)
  BY DEF Straight, NoAsk, NoExpand, Requesting, Recovering

LEMMA RequestStraight ==
  ASSUME NEW S, NEW steps \in Seq(S), Straight(steps), NoAsk(steps),
         "request" \in S
  PROVE  Straight(<<"request">> \o steps)
<1> DEFINE z == <<"request">> \o steps
<1>1. z \in Seq(S) /\ DOMAIN z = 1..(Len(steps) + 1)
      /\ \A i \in DOMAIN z : i # 1 => i - 1 \in DOMAIN steps
                                      /\ z[i] = steps[i - 1]
  OBVIOUS
<1> HIDE DEF z
<1>2. ASSUME NEW i \in DOMAIN z, NEW j \in DOMAIN z, i < j
      PROVE  z[j] \notin Requesting
  <2>1. j # 1
    BY <1>1, <1>2
  <2> QED
    BY <1>1, <2>1 DEF NoAsk
<1> QED
  BY <1>2 DEF Straight, z

-----------------------------------------------------------------------------
(* The steps of one call, and what it asks                                 *)

\* Where a call goes.
Become(c, record) ==
  LET rest == Tail(record.steps) IN
  IF rest = <<>> THEN Idle(call[c].todo)
  ELSE [record EXCEPT !.steps = rest, !.stage =
          IF Head(rest) \in Requesting THEN "attempt" ELSE "none"]

LEMMA IdleOK ==
  ASSUME NEW todo
  PROVE  BasicsOK(Idle(todo)) /\ AskOK(Idle(todo))
         /\ FilesOK(Idle(todo).files) /\ Idle(todo).steps = <<>>
<1>1. /\ Idle(todo).retries = 0 /\ Idle(todo).generation = 0
      /\ Idle(todo).steps = <<>> /\ Idle(todo).todo = todo
      /\ Idle(todo).files = <<>> /\ Idle(todo).stage = "none"
      /\ Idle(todo).stability = "none" /\ Idle(todo).busy = <<>>
  BY DEF Idle
<1>2. DOMAIN <<>> = {}
  OBVIOUS
<1>3. IsFiniteSet(DOMAIN <<>>) /\ Agrees(<<>>)
  BY <1>2, FS_EmptySet DEF Agrees
<1>4. BasicsOK(Idle(todo))
  BY <1>1, ToolsAssumption DEF BasicsOK
<1>5. AskOK(Idle(todo))
  BY <1>1, ShortStraight DEF AskOK
<1> QED
  BY <1>1, <1>3, <1>4, <1>5 DEF FilesOK

\* A call may go on from what has the answer that was to be waited for.
Passes(r) ==
  /\ r.steps # <<>> /\ Straight(r.steps)
  /\ r.stability = "none"
  /\ r.busy # <<>> =>
       /\ Settled(r)
       /\ NoAsk(Tail(r.steps))
       /\ NoExpand(Tail(r.steps)) \/ r.reply = "empty"

LEMMA BecomeOK ==
  ASSUME NEW c, NEW record, DOMAIN record = Fields,
         NEW S, record.steps \in Seq(S), BasicsOK(record), Passes(record)
  PROVE  BasicsOK(Become(c, record)) /\ AskOK(Become(c, record))
<1> DEFINE rest == Tail(record.steps)
<1>1. CASE rest = <<>>
  BY <1>1, IdleOK DEF Become
<1>2. CASE rest # <<>>
  <2> DEFINE stage == IF Head(rest) \in Requesting THEN "attempt"
                      ELSE "none"
             r == [record EXCEPT !.steps = rest, !.stage = stage]
  <2>1. Become(c, record) = r
    BY <1>2 DEF Become
  <2>2. /\ r.steps = rest /\ r.stage = stage
        /\ r.retries = record.retries /\ r.generation = record.generation
        /\ r.files = record.files /\ r.stability = record.stability
        /\ r.busy = record.busy /\ r.reply = record.reply
    BY DEF Fields
  <2>3. rest \in Seq(S) /\ Straight(rest)
        /\ (NoAsk(rest) => Head(rest) \notin Requesting)
    <3>1. rest \in Seq(S) /\ Straight(rest)
      BY TailFacts, TailStraight DEF Passes
    <3> QED
      BY <1>2, <3>1, TailStraight
  <2>4. stage \in {"none", "attempt"}
        /\ (stage = "attempt" <=> Head(rest) \in Requesting)
    OBVIOUS
  <2> HIDE DEF r, rest, stage
  <2>5. BasicsOK(r)
    BY <1>2, <2>2 DEF BasicsOK
  <2>6. AskOK(r)
    BY <1>2, <2>2, <2>3, <2>4 DEF AskOK, Passes, Settled, rest
  <2> QED
    BY <2>1, <2>5, <2>6
<1> QED
  BY <1>1, <1>2

LEMMA OneMore ==
  ASSUME NEW S, NEW s \in Seq(S), NEW x \in S
  PROVE  /\ Append(s, x) \in Seq(S) /\ Len(Append(s, x)) = Len(s) + 1
         /\ Append(s, x)[Len(s) + 1] = x
         /\ \A i \in 1..Len(s) : Append(s, x)[i] = s[i]
         /\ <<x>> \in Seq(S) /\ Len(<<x>>) = 1 /\ <<x>>[1] = x
  OBVIOUS

LEMMA ApplicationSteps ==
  ASSUME NEW steps \in Applications
  PROVE  steps \in Seq(ApplySteps)
<1>1. Applying \in Seq(ApplySteps)
  BY DEF Applying, ApplySteps
<1>2. <<"commit", "documents", "resynchronize">> \in Seq(ApplySteps)
  BY DEF ApplySteps
<1>3. <<"documents", "resynchronize">> \in Seq(ApplySteps)
  BY DEF ApplySteps
<1>4. <<"resynchronize">> \in Seq(ApplySteps)
  BY DEF ApplySteps
<1> QED
  BY <1>1, <1>2, <1>3, <1>4 DEF Applications

LEMMA StepList ==
  ASSUME Shape, NEW c \in Callers
  PROVE  \E S : call[c].steps \in Seq(S)
  BY ApplicationSteps DEF Shape, Fits

LEMMA Moved ==
  ASSUME DOMAIN call = Callers, NEW c \in Callers
  PROVE  /\ Finish(c) => call'[c] = Idle(call[c].todo)
         /\ \A r : Set(c, r) => call'[c] = r
         /\ \A r : Goto(c, r) => call'[c] = Become(c, r)
<1>1. \A r : Set(c, r) => call'[c] = r
  BY DEF Set
<1>2. Finish(c) => call'[c] = Idle(call[c].todo)
  BY <1>1 DEF Finish
<1> QED
  BY <1>1, <1>2 DEF Goto, Become

\* A call that has got an answer, or asks nothing, may go on.
SameAsk(r, c) ==
  /\ DOMAIN r = Fields
  /\ r.steps = call[c].steps /\ r.busy = call[c].busy
  /\ r.reply = call[c].reply /\ r.retries = call[c].retries
  /\ r.stability = call[c].stability /\ r.stage = call[c].stage
  /\ r.generation \in 0..MaxGenerations

LEMMA UnaskedPasses ==
  ASSUME Shape, NEW c \in Callers, BasicsOK(call[c]), AskOK(call[c]),
         Inside(c), Head(call[c].steps) \notin Requesting \cup {"return"},
         NEW r, SameAsk(r, c), Goto(c, r)
  PROVE  BasicsOK(call'[c]) /\ AskOK(call'[c])
<1>1. PICK S : call[c].steps \in Seq(S)
  BY StepList
<1>2. call[c].steps # <<>>
  BY DEF Inside
<1>3. /\ NoAsk(call[c].steps) => NoAsk(Tail(call[c].steps))
      /\ NoExpand(call[c].steps) => NoExpand(Tail(call[c].steps))
  BY <1>1, <1>2, TailStraight DEF AskOK
<1>4. call[c].stage = "none" /\ call[c].stability = "none"
  <2>1. call[c].steps = <<"return">> => Head(call[c].steps) = "return"
    OBVIOUS
  <2> QED
    BY <2>1 DEF AskOK
<1>5. Passes(r)
  BY <1>2, <1>3, <1>4 DEF Passes, SameAsk, AskOK, Settled
<1>6. BasicsOK(r)
  BY <1>2 DEF BasicsOK, SameAsk
<1>7. r.steps \in Seq(S) /\ DOMAIN r = Fields
  BY <1>1 DEF SameAsk
<1>8. BasicsOK(Become(c, r)) /\ AskOK(Become(c, r))
  BY <1>5, <1>6, <1>7, BecomeOK
<1>9. call'[c] = Become(c, r)
  BY Moved DEF Shape
<1> QED
  BY <1>8, <1>9

LEMMA FinishAsks ==
  ASSUME Shape, NEW c \in Callers, Finish(c)
  PROVE  BasicsOK(call'[c]) /\ AskOK(call'[c])
<1>1. call'[c] = Idle(call[c].todo)
  BY Moved DEF Shape
<1> QED
  BY <1>1, IdleOK

\* A call that has gone no further asks what it asked.
LEMMA SetAsks ==
  ASSUME Shape, NEW c \in Callers, BasicsOK(call[c]), AskOK(call[c]),
         Inside(c), Head(call[c].steps) \notin Requesting \cup {"return"},
         NEW r, SameAsk(r, c), Set(c, r)
  PROVE  BasicsOK(call'[c]) /\ AskOK(call'[c])
<1>1. call'[c] = r
  BY Moved DEF Shape
<1>2. BasicsOK(r)
  BY DEF BasicsOK, SameAsk, Inside
<1>3. AskOK(r)
  BY DEF AskOK, SameAsk, Settled, SeenBusy
<1> QED
  BY <1>1, <1>2, <1>3

-----------------------------------------------------------------------------
(* Requests                                                                *)

LEMMA AttemptAsks ==
  ASSUME Shape, NEW c \in Callers, BasicsOK(call[c]), AskOK(call[c]),
         Attempt(c) \/ Retry(c)
  PROVE  BasicsOK(call'[c]) /\ AskOK(call'[c])
<1> DEFINE b == Busy(call[c].generation)
           w == Recovers(c) /\ b
           r == [call[c] EXCEPT !.stage = "sent", !.wasBusy = w,
                                !.busy = <<b>>]
           q == [r EXCEPT !.retries = call[c].retries + 1, !.reply = "none"]
<1>1. /\ DOMAIN call[c] = Fields
      /\ Inside(c) /\ Head(call[c].steps) \in Requesting
  BY DEF Shape, Fits, Attempt, Retry, InRequest
<1>2. Sent(c, w) = r
  BY DEF Sent
<1>3. /\ r.stage = "sent" /\ r.wasBusy = w /\ r.busy = <<b>>
      /\ r.steps = call[c].steps /\ r.retries = call[c].retries
      /\ r.generation = call[c].generation /\ r.stability = call[c].stability
      /\ DOMAIN r = Fields
  BY <1>1 DEF Fields
<1>4. b \in BOOLEAN
  BY DEF Busy
<1>5. (w <=> Recovers(c) /\ b) /\ (Recovers(c) <=> Head(call[c].steps)
                                                      \in Recovering)
  BY DEF Recovers
<1>6. <<b>> \in Seq(BOOLEAN) /\ Len(<<b>>) = 1 /\ <<b>>[1] = b
  <2>1. <<>> \in Seq(BOOLEAN)
    OBVIOUS
  <2> QED
    BY <1>4, <2>1, OneMore
<1>7. call[c].steps # <<"return">> /\ call[c].steps # <<>>
  BY <1>1 DEF Requesting, Recovering, Inside
<1> HIDE DEF b, w
<1>8. CASE Attempt(c)
  <2>1. call'[c] = r
    BY <1>2, <1>8, Moved DEF Attempt, Shape, b, w
  <2> HIDE DEF r
  <2>2. BasicsOK(r)
    BY <1>3, <1>6, <1>7 DEF BasicsOK
  <2>3. SeenBusy(r)
    BY <1>3, <1>5, <1>6 DEF SeenBusy
  <2>4. AskOK(r)
    BY <1>1, <1>3, <1>6, <1>7, <2>3 DEF AskOK
  <2> QED
    BY <2>1, <2>2, <2>4
<1>9. CASE Retry(c)
  <2>1. call'[c] = q
    <3>1. Set(c, [Sent(c, w) EXCEPT !.retries = @ + 1, !.reply = "none"])
      BY <1>9 DEF Retry, b, w
    <3> QED
      BY <1>2, <1>3, <3>1, Moved DEF Shape, Fields
  <2>2. /\ q.stage = "sent" /\ q.wasBusy = w /\ q.busy = <<b>>
        /\ q.steps = call[c].steps /\ q.retries = call[c].retries + 1
        /\ q.generation = call[c].generation
        /\ q.stability = call[c].stability
    BY <1>3 DEF Fields
  <2> HIDE DEF r, q
  <2>3. call[c].retries < MaxRetries
    BY <1>9 DEF Retry, InRequest, AskOK
  <2>4. BasicsOK(q)
    BY <1>6, <1>7, <2>2, <2>3, ToolsAssumption DEF BasicsOK
  <2>5. SeenBusy(q)
    BY <1>5, <1>6, <2>2 DEF SeenBusy
  <2>6. AskOK(q)
    BY <1>1, <1>6, <1>7, <2>2, <2>5 DEF AskOK
  <2> QED
    BY <2>1, <2>4, <2>6
<1> QED
  BY <1>8, <1>9

LEMMA AnswerAsks ==
  ASSUME Shape, NEW c \in Callers, BasicsOK(call[c]), AskOK(call[c]),
         NEW reply, Answer(c, reply)
  PROVE  BasicsOK(call'[c]) /\ AskOK(call'[c])
<1> DEFINE b == Busy(call[c].generation)
           busy == Append(call[c].busy, b)
           r == [call[c] EXCEPT !.stage = "answered", !.reply = reply,
                                !.busy = busy]
<1>1. /\ DOMAIN call[c] = Fields
      /\ Inside(c) /\ Head(call[c].steps) \in Requesting
      /\ call[c].stage = "sent"
  BY DEF Shape, Fits, Answer, InRequest
<1>2. call'[c] = r
  BY <1>1, Moved DEF Answer, Shape, Fields
<1>3. /\ r.stage = "answered" /\ r.wasBusy = call[c].wasBusy
      /\ r.busy = busy /\ r.steps = call[c].steps
      /\ r.retries = call[c].retries
      /\ r.generation = call[c].generation /\ r.stability = call[c].stability
  BY <1>1 DEF Fields
<1>4. b \in BOOLEAN
  BY DEF Busy
<1>5. /\ busy \in Seq(BOOLEAN) /\ Len(busy) = 2
      /\ busy[1] = call[c].busy[1]
  <2>1. call[c].busy \in Seq(BOOLEAN) /\ Len(call[c].busy) = 1
    BY <1>1 DEF BasicsOK, AskOK
  <2> HIDE DEF b
  <2>2. busy \in Seq(BOOLEAN)
    BY <1>4, <2>1
  <2>3. Len(busy) = Len(call[c].busy) + 1
    <3> DEFINE s == call[c].busy
    <3>1. s \in Seq(BOOLEAN)
      BY <2>1
    <3> HIDE DEF s
    <3>2. \A x \in BOOLEAN : Len(Append(s, x)) = Len(s) + 1
      BY <3>1, OneMore
    <3>3. Len(Append(s, b)) = Len(s) + 1
      BY <1>4, <3>2
    <3> QED
      BY <3>3 DEF s
  <2>4. busy[1] = call[c].busy[1]
    BY <1>4, <2>1
  <2> QED
    BY <2>1, <2>2, <2>3, <2>4
<1>6. call[c].steps # <<"return">> /\ call[c].steps # <<>>
  BY <1>1 DEF Requesting, Recovering, Inside
<1> HIDE DEF b, busy, r
<1>7. BasicsOK(r)
  BY <1>3, <1>5, <1>6 DEF BasicsOK
<1>8. SeenBusy(r)
  BY <1>1, <1>3, <1>5 DEF SeenBusy, AskOK
<1>9. AskOK(r)
  BY <1>1, <1>3, <1>5, <1>6, <1>8 DEF AskOK
<1> QED
  BY <1>2, <1>7, <1>9

LEMMA AnswerRenameAsks ==
  ASSUME Shape, NEW c \in Callers, BasicsOK(call[c]), AskOK(call[c]),
         Head(call[c].steps) \notin Recovering,
         NEW edit, AnswerRename(c, edit)
  PROVE  BasicsOK(call'[c]) /\ AskOK(call'[c])
<1>1. /\ DOMAIN call[c] = Fields
      /\ Inside(c) /\ Head(call[c].steps) \in Requesting
      /\ call[c].stage = "sent"
  BY DEF Shape, Fits, AnswerRename, InRequest
<1>2. PICK computed :
        call'[c] = [call[c] EXCEPT !.stage = "answered", !.reply = "items",
                      !.edit = edit, !.computed = computed]
  BY <1>1, Moved DEF AnswerRename, Shape, Fields
<1>3. /\ call'[c].stage = "answered" /\ call'[c].busy = call[c].busy
      /\ call'[c].steps = call[c].steps
      /\ call'[c].retries = call[c].retries
      /\ call'[c].generation = call[c].generation
      /\ call'[c].stability = call[c].stability
  BY <1>1, <1>2 DEF Fields
<1>4. call[c].steps # <<"return">> /\ call[c].steps # <<>>
  BY <1>1 DEF Requesting, Recovering, Inside
<1> HIDE <1>2
<1>5. BasicsOK(call'[c])
  BY <1>3, <1>4 DEF BasicsOK
<1>6. AskOK(call'[c])
  BY <1>1, <1>3, <1>4 DEF AskOK, SeenBusy
<1> QED
  BY <1>5, <1>6

LEMMA ReceiveAsks ==
  ASSUME Shape, NEW c \in Callers, BasicsOK(call[c]), AskOK(call[c]),
         Receive(c)
  PROVE  BasicsOK(call'[c]) /\ AskOK(call'[c])
<1> DEFINE b == Busy(call[c].generation)
           again == call[c].reply = "gave up" \/ EmptyWhileBusy(c)
           last == call[c].retries = MaxRetries
           seen == IF Recovers(c) /\ call[c].reply = "empty"
                     THEN Append(call[c].busy, b) ELSE <<>>
           wait == [call[c] EXCEPT !.stage = "waiting", !.busy = <<>>]
           done == [call[c] EXCEPT !.wasBusy = FALSE, !.busy = seen]
<1>1. /\ DOMAIN call[c] = Fields
      /\ Inside(c) /\ Head(call[c].steps) \in Requesting
      /\ call[c].stage = "answered"
      /\ ~(last /\ call[c].reply = "gave up")
  BY DEF Shape, Fits, Receive, InRequest
<1>2. call[c].steps # <<"return">> /\ call[c].steps # <<>>
  <2>1. Inside(c) /\ Head(call[c].steps) \in Requesting
    BY <1>1
  <2> QED
    BY <2>1 DEF Requesting, Recovering, Inside
<1>3. IF again /\ ~last THEN call'[c] = wait
      ELSE call'[c] = Become(c, done)
  BY Moved DEF Receive, Shape
<1>4. b \in BOOLEAN
  BY DEF Busy
<1>5. PICK S : call[c].steps \in Seq(S)
  BY StepList
<1>6. NoAsk(Tail(call[c].steps)) /\ Straight(call[c].steps)
      /\ call[c].stability = "none"
  BY <1>1, <1>2, <1>5, TailStraight DEF AskOK
<1>7. CASE again /\ ~last
  <2>1. /\ wait.stage = "waiting" /\ wait.busy = <<>>
        /\ wait.steps = call[c].steps
        /\ wait.retries = call[c].retries
        /\ wait.generation = call[c].generation
        /\ wait.stability = call[c].stability
    BY <1>1 DEF Fields
  <2>2. <<>> \in Seq(BOOLEAN)
    OBVIOUS
  <2> HIDE DEF wait
  <2>3. call[c].retries < MaxRetries
    <3>1. call[c].retries \in 0..MaxRetries
      BY DEF BasicsOK
    <3>2. call[c].retries # MaxRetries
      BY <1>7
    <3> QED
      BY <3>1, <3>2, ToolsAssumption
  <2>4. BasicsOK(wait)
    BY <1>2, <2>1, <2>2 DEF BasicsOK
  <2>5. AskOK(wait)
    BY <1>1, <1>2, <2>1, <2>3 DEF AskOK
  <2> QED
    BY <1>3, <1>7, <2>4, <2>5
<1>8. CASE ~(again /\ ~last)
  <2>1. /\ done.busy = seen /\ done.steps = call[c].steps
        /\ done.retries = call[c].retries
        /\ done.reply = call[c].reply
        /\ done.generation = call[c].generation
        /\ done.stability = call[c].stability
        /\ DOMAIN done = Fields
    BY <1>1 DEF Fields
  <2>2. CASE Recovers(c) /\ call[c].reply = "empty"
    <3>1. Head(call[c].steps) \in Recovering
      BY <2>2 DEF Recovers
    <3>2. call[c].busy \in Seq(BOOLEAN) /\ Len(call[c].busy) = 2
          /\ (call[c].busy[1] => call[c].wasBusy)
      BY <1>1, <3>1 DEF BasicsOK, AskOK, SeenBusy
    <3>3. seen = Append(call[c].busy, b)
      BY <2>2
    <3>4. ~last => ~call[c].wasBusy /\ ~b
      BY <1>8, <2>2 DEF EmptyWhileBusy
    <3> HIDE DEF b, seen
    <3>5. /\ seen \in Seq(BOOLEAN)
          /\ seen[1] = call[c].busy[1] /\ seen[3] = b
      BY <1>4, <3>2, <3>3
    <3>6. last \/ ~(seen[1] \/ seen[3])
      BY <3>2, <3>4, <3>5
    <3> HIDE DEF last, done
    <3>7. Settled(done)
      BY <2>1, <3>6 DEF Settled, last
    <3>8. BasicsOK(done)
      BY <1>2, <2>1, <3>5 DEF BasicsOK
    <3>9. Passes(done)
      BY <1>2, <1>6, <2>1, <2>2, <3>7 DEF Passes
    <3> QED
      BY <1>3, <1>5, <1>8, <2>1, <3>8, <3>9, BecomeOK DEF last
  <2>3. CASE ~(Recovers(c) /\ call[c].reply = "empty")
    <3>1. seen = <<>> /\ <<>> \in Seq(BOOLEAN)
      BY <2>3
    <3> HIDE DEF seen, done, b
    <3>2. BasicsOK(done)
      BY <1>2, <2>1, <3>1 DEF BasicsOK
    <3>3. Passes(done)
      BY <1>2, <1>6, <2>1, <3>1 DEF Passes
    <3> QED
      BY <1>3, <1>5, <1>8, <2>1, <3>2, <3>3, BecomeOK
  <2> QED
    BY <2>2, <2>3
<1> QED
  BY <1>7, <1>8

-----------------------------------------------------------------------------
(* What a rename has of the server's documents                             *)

\* What a rename has left to do.
ToSynchronize == <<"synchronize", "request", "compare", "normalize",
                   "qualify", "insert">>
ToRequest == <<"request", "compare", "normalize", "qualify", "insert">>
ToCompare == <<"compare", "normalize", "qualify", "insert">>
ToNormalize == <<"normalize", "qualify", "insert">>
ToQualify == <<"qualify", "insert">>
ToInsert == <<"insert">>
RenamingTails == {Renaming, ToSynchronize, ToRequest, ToCompare, ToNormalize,
                  ToQualify, ToInsert}
NoRename(steps) == \A i \in DOMAIN steps : steps[i] \notin RenameSteps

\* Between the synchronization and the comparison the store only goes on from
\* the snapshot, and what it held as the server answered lies between the two.
Asking(r) == r.steps \in {ToRequest, ToCompare}
Asked(r, store) ==
  /\ DOMAIN r.computed \subseteq r.edit
  /\ \A f \in Files :
       /\ r.snapshots[f].version \in Nat
       /\ r.snapshots[f].version <= store[r.generation][f].version
  /\ \A f \in DOMAIN r.computed :
       /\ store[r.generation][f] # Untracked
       /\ r.snapshots[f] = store[r.generation][f] =>
            r.computed[f] = r.snapshots[f].text

RenameOK(r) ==
  /\ r.steps \in RenamingTails \/ NoRename(r.steps)
  /\ r.steps \in {Renaming, ToSynchronize} =>
       r.computed = <<>> /\ r.files = <<>> /\ r.edit = {}
  /\ Asking(r) => r.files = <<>> /\ r.edit \subseteq Files
  /\ r.steps = ToNormalize =>
       /\ r.edit \subseteq Files
       /\ \A f \in DOMAIN r.computed :
            /\ r.snapshots[f] # Untracked
            /\ r.computed[f] = r.snapshots[f].text

Versioned(d) ==
  d # Untracked => d.version \in Nat \ {0} /\ d.text \in Texts
DocumentsOK ==
  /\ disk \in [Files -> Texts]
  /\ \A g \in 0..MaxGenerations, f \in Files : Versioned(documents[g][f])

\* A document in the store that changes gets a greater version.
GoesOn ==
  \A g \in 0..MaxGenerations, f \in Files :
    \/ documents'[g][f] = documents[g][f]
    \/ documents'[g][f].version = documents[g][f].version + 1

-----------------------------------------------------------------------------
(* The store of documents                                                  *)

LEMMA UntrackedVersion == Untracked.version = 0
  BY DEF Untracked

LEMMA VersionInNat ==
  ASSUME NEW d, Versioned(d)
  PROVE  d.version \in Nat
  BY UntrackedVersion DEF Versioned

LEMMA SynchronizedIs ==
  ASSUME DocumentsOK, NEW g \in 0..MaxGenerations, NEW f \in Files
  PROVE  /\ Versioned(Synchronized(g, f))
         /\ \/ Synchronized(g, f) = documents[g][f]
            \/ Synchronized(g, f).version = documents[g][f].version + 1
<1> DEFINE d == documents[g][f]
<1>1. Versioned(d) /\ disk[f] \in Texts
  BY DEF DocumentsOK
<1>2. CASE d = Untracked
  <2>1. Synchronized(g, f) = Document(1, disk[f])
    BY <1>2 DEF Synchronized
  <2> QED
    BY <1>1, <1>2, <2>1, UntrackedVersion DEF Document, Versioned
<1>3. CASE d # Untracked /\ d.text = disk[f]
  BY <1>1, <1>3 DEF Synchronized
<1>4. CASE d # Untracked /\ d.text # disk[f]
  <2>1. Synchronized(g, f) = Document(d.version + 1, disk[f])
    BY <1>4 DEF Synchronized
  <2>2. d.version \in Nat
    BY <1>1, VersionInNat
  <2> HIDE DEF d
  <2>3. Versioned(Synchronized(g, f))
        /\ Synchronized(g, f).version = d.version + 1
    BY <1>1, <2>1, <2>2 DEF Document, Versioned
  <2> QED
    BY <2>3 DEF d
<1> QED
  BY <1>2, <1>3, <1>4

LEMMA StoreSynchronized ==
  ASSUME Shape, DocumentsOK, NEW g, NEW f,
         documents' = [documents EXCEPT ![g] =
                         [documents[g] EXCEPT ![f] = Synchronized(g, f)]],
         disk' = disk
  PROVE  DocumentsOK' /\ GoesOn
<1>1. \A h \in 0..MaxGenerations, e \in Files :
        documents'[h][e] = IF h = g /\ e = f THEN Synchronized(g, f)
                           ELSE documents[h][e]
  BY DEF Shape
<1>2. ASSUME NEW h \in 0..MaxGenerations, NEW e \in Files
      PROVE  /\ Versioned(documents'[h][e])
             /\ \/ documents'[h][e] = documents[h][e]
                \/ documents'[h][e].version = documents[h][e].version + 1
  BY <1>1, SynchronizedIs DEF DocumentsOK
<1> QED
  BY <1>2 DEF DocumentsOK, GoesOn, Versioned

LEMMA AskedStays ==
  ASSUME DocumentsOK, GoesOn, NEW r, Asked(r, documents),
         r.generation \in 0..MaxGenerations, r.edit \subseteq Files
  PROVE  Asked(r, documents')
<1> DEFINE g == r.generation
<1>1. ASSUME NEW f \in Files
      PROVE  /\ documents[g][f].version \in Nat
             /\ \/ documents'[g][f] = documents[g][f]
                \/ /\ documents'[g][f].version \in Nat
                   /\ documents[g][f].version < documents'[g][f].version
  <2>1. documents[g][f].version \in Nat
    BY VersionInNat DEF DocumentsOK
  <2> QED
    BY <2>1 DEF GoesOn
<1>2. ASSUME NEW f \in Files
      PROVE  /\ r.snapshots[f].version \in Nat
             /\ r.snapshots[f].version <= documents'[g][f].version
  BY <1>1 DEF Asked
<1>3. ASSUME NEW f \in DOMAIN r.computed
      PROVE  /\ documents'[g][f] # Untracked
             /\ r.snapshots[f] = documents'[g][f] =>
                  r.computed[f] = r.snapshots[f].text
  <2>1. f \in Files
    BY DEF Asked
  <2>2. CASE documents'[g][f] = documents[g][f]
    BY <2>2 DEF Asked
  <2>3. CASE documents'[g][f] # documents[g][f]
    <3>1. /\ documents[g][f].version < documents'[g][f].version
          /\ documents[g][f].version \in Nat
          /\ documents'[g][f].version \in Nat
          /\ r.snapshots[f].version \in Nat
          /\ r.snapshots[f].version <= documents[g][f].version
      BY <1>1, <2>1, <2>3 DEF Asked
    <3>2. documents'[g][f].version # 0
          /\ documents'[g][f].version # r.snapshots[f].version
      BY <3>1
    <3> QED
      BY <3>2, UntrackedVersion
  <2> QED
    BY <2>2, <2>3
<1> QED
  BY <1>2, <1>3 DEF Asked

-----------------------------------------------------------------------------
(* Where a rename is                                                       *)

LEMMA RenamingFacts ==
  ASSUME NEW steps \in RenamingTails
  PROVE  /\ steps # <<>>
         /\ Head(steps) = "acquire" =>
              steps = Renaming /\ Tail(steps) = ToSynchronize
         /\ Head(steps) = "synchronize" =>
              steps = ToSynchronize /\ Tail(steps) = ToRequest
         /\ Head(steps) = "request" =>
              steps = ToRequest /\ Tail(steps) = ToCompare
         /\ Head(steps) = "compare" =>
              steps = ToCompare /\ Tail(steps) = ToNormalize
         /\ Head(steps) = "normalize" =>
              steps = ToNormalize /\ Tail(steps) = ToQualify
         /\ Head(steps) = "qualify" =>
              steps = ToQualify /\ Tail(steps) = ToInsert
         /\ Head(steps) = "insert" => Tail(steps) = <<>>
         /\ Head(steps) \in {"acquire", "synchronize", "request", "compare",
                             "normalize", "qualify", "insert"}
         /\ ~NoRename(steps)
<1>1. CASE steps = Renaming
  <2>1. 7 \in DOMAIN steps /\ steps[7] = "insert"
    BY <1>1 DEF Renaming
  <2> QED
    BY <1>1, <2>1 DEF Renaming, ToSynchronize, NoRename, RenameSteps
<1>2. CASE steps = ToSynchronize
  <2>1. 6 \in DOMAIN steps /\ steps[6] = "insert"
    BY <1>2 DEF ToSynchronize
  <2> QED
    BY <1>2, <2>1 DEF ToSynchronize, ToRequest, NoRename, RenameSteps
<1>3. CASE steps = ToRequest
  <2>1. 5 \in DOMAIN steps /\ steps[5] = "insert"
    BY <1>3 DEF ToRequest
  <2> QED
    BY <1>3, <2>1 DEF ToRequest, ToCompare, NoRename, RenameSteps
<1>4. CASE steps = ToCompare
  <2>1. 4 \in DOMAIN steps /\ steps[4] = "insert"
    BY <1>4 DEF ToCompare
  <2> QED
    BY <1>4, <2>1 DEF ToCompare, ToNormalize, NoRename, RenameSteps
<1>5. CASE steps = ToNormalize
  <2>1. 3 \in DOMAIN steps /\ steps[3] = "insert"
    BY <1>5 DEF ToNormalize
  <2> QED
    BY <1>5, <2>1 DEF ToNormalize, ToQualify, NoRename, RenameSteps
<1>6. CASE steps = ToQualify
  <2>1. 2 \in DOMAIN steps /\ steps[2] = "insert"
    BY <1>6 DEF ToQualify
  <2> QED
    BY <1>6, <2>1 DEF ToQualify, ToInsert, NoRename, RenameSteps
<1>7. CASE steps = ToInsert
  <2>1. 1 \in DOMAIN steps /\ steps[1] = "insert"
    BY <1>7 DEF ToInsert
  <2> QED
    BY <1>7, <2>1 DEF ToInsert, NoRename, RenameSteps
<1> QED
  BY <1>1, <1>2, <1>3, <1>4, <1>5, <1>6, <1>7 DEF RenamingTails

\* Nothing is claimed of a call that is no rename.
LEMMA NoRenameOK ==
  ASSUME NEW r, NoRename(r.steps)
  PROVE  RenameOK(r) /\ ~Asking(r)
<1>1. r.steps \notin RenamingTails
  BY RenamingFacts
<1> QED
  BY <1>1 DEF RenameOK, Asking, RenamingTails

LEMMA NoRenameGoes ==
  ASSUME NEW S, NEW steps \in Seq(S), NoRename(steps), steps # <<>>,
         "request" \in S
  PROVE  /\ NoRename(Tail(steps))
         /\ NoRename(<<"request">> \o Tail(steps))
         /\ Head(steps) \notin RenameSteps
<1> DEFINE t == Tail(steps)
           z == <<"request">> \o t
<1>1. /\ t \in Seq(S)
      /\ \A i \in DOMAIN t : i + 1 \in DOMAIN steps /\ t[i] = steps[i + 1]
      /\ 1 \in DOMAIN steps /\ Head(steps) = steps[1]
  BY TailFacts
<1> HIDE DEF t
<1>2. \A i \in DOMAIN z : \/ z[i] = "request"
                          \/ i - 1 \in DOMAIN t /\ z[i] = t[i - 1]
  BY <1>1
<1> HIDE DEF z
<1>3. NoRename(t)
  BY <1>1 DEF NoRename
<1>4. NoRename(z)
  BY <1>2, <1>3 DEF NoRename, RenameSteps
<1> QED
  BY <1>1, <1>3, <1>4 DEF NoRename, t, z

LEMMA ShortNoRename == NoRename(<<>>) /\ NoRename(<<"return">>)
  BY DEF NoRename, RenameSteps

-----------------------------------------------------------------------------
(* What the other steps ask, and what each keeps of its call               *)

LEMMA ExpandAsks ==
  ASSUME Shape, NEW c \in Callers, BasicsOK(call[c]), AskOK(call[c]),
         Expand(c)
  PROVE  BasicsOK(call'[c]) /\ AskOK(call'[c])
<1>1. /\ DOMAIN call[c] = Fields
      /\ Inside(c) /\ Head(call[c].steps) = "expand"
      /\ call[c].steps # <<>>
  BY DEF Shape, Fits, Expand, At, Inside
<1>2. Head(call[c].steps) \notin Requesting \cup {"return"}
  BY <1>1 DEF Requesting, Recovering
<1>3. CASE Goto(c, call[c])
  BY <1>1, <1>2, <1>3, UnaskedPasses DEF SameAsk, BasicsOK
<1>4. CASE ~Goto(c, call[c])
  <2> DEFINE next == <<"request">> \o Tail(call[c].steps)
             r == [call[c] EXCEPT !.stage = "attempt", !.reply = "none",
                     !.retries = 0, !.steps = next]
  <2>1. call'[c] = r /\ call[c].reply # "empty"
    BY <1>1, <1>4, Moved DEF Expand, Shape, Fields
  <2>2. /\ r.stage = "attempt" /\ r.retries = 0 /\ r.steps = next
        /\ r.busy = call[c].busy /\ r.stability = call[c].stability
        /\ r.generation = call[c].generation
    BY <1>1 DEF Fields
  <2>3. /\ call[c].stage = "none"
        /\ call[c].stability = "none"
    <3>1. call[c].steps = <<"return">> => Head(call[c].steps) = "return"
      OBVIOUS
    <3> QED
      BY <1>1, <1>2, <3>1 DEF AskOK
  <2>4. PICK S : call[c].steps \in Seq(S)
    BY StepList
  <2>5. call[c].busy = <<>>
    BY <1>1, <2>1, <2>3, <2>4, TailStraight DEF AskOK
  <2>6. Straight(next) /\ next # <<>> /\ Head(next) \in Requesting
    <3>1. Tail(call[c].steps) \in Seq(S \cup {"request"})
      BY <1>1, <2>4
    <3>2. Straight(Tail(call[c].steps)) /\ NoAsk(Tail(call[c].steps))
      BY <1>1, <2>4, TailStraight DEF AskOK
    <3>3. Straight(next)
      BY <3>1, <3>2, RequestStraight
    <3>4. next # <<>> /\ Head(next) = "request"
      BY <3>1
    <3> QED
      BY <3>3, <3>4 DEF Requesting
  <2> HIDE DEF r, next
  <2>7. BasicsOK(r)
    BY <2>2, <2>6, ToolsAssumption DEF BasicsOK
  <2>8. AskOK(r)
    BY <2>2, <2>3, <2>5, <2>6 DEF AskOK
  <2> QED
    BY <2>1, <2>7, <2>8
<1> QED
  BY <1>3, <1>4

LEMMA QualifyAsks ==
  ASSUME Shape, NEW c \in Callers, BasicsOK(call[c]), AskOK(call[c]),
         Qualify(c)
  PROVE  BasicsOK(call'[c]) /\ AskOK(call'[c])
<1>1. /\ DOMAIN call[c] = Fields
      /\ Inside(c) /\ Head(call[c].steps) \in {"qualify", "qualify null"}
      /\ call[c].steps # <<>>
  BY DEF Shape, Fits, Qualify, At, Inside
<1>2. Head(call[c].steps) \notin Requesting \cup {"return"}
  BY <1>1 DEF Requesting, Recovering
<1>3. CASE Goto(c, call[c])
  BY <1>1, <1>2, <1>3, UnaskedPasses DEF SameAsk, BasicsOK
<1>4. CASE ~Goto(c, call[c])
  <2>1. PICK stability :
          call'[c] = [call[c] EXCEPT !.steps = <<"return">>,
                                     !.stability = stability]
    BY <1>1, <1>4, Moved DEF Qualify, Shape, Fields
  <2>2. /\ call'[c].steps = <<"return">> /\ call'[c].stage = call[c].stage
        /\ call'[c].busy = call[c].busy
        /\ call'[c].retries = call[c].retries
        /\ call'[c].generation = call[c].generation
        /\ <<"return">> # <<>>
    BY <1>1, <2>1 DEF Fields
  <2>3. call[c].stage = "none"
    BY <1>2 DEF AskOK
  <2> HIDE <2>1
  <2>4. BasicsOK(call'[c])
    BY <2>2 DEF BasicsOK
  <2>5. AskOK(call'[c])
    BY <2>2, <2>3, ShortStraight DEF AskOK, Settled
  <2> QED
    BY <2>4, <2>5
<1> QED
  BY <1>3, <1>4

LEMMA NormalizedAsks ==
  ASSUME Shape, NEW c \in Callers, BasicsOK(call[c]), AskOK(call[c]),
         RenameOK(call[c]), Normalized(c)
  PROVE  BasicsOK(call'[c]) /\ AskOK(call'[c])
<1>1. /\ DOMAIN call[c] = Fields
      /\ Inside(c) /\ Head(call[c].steps) = "normalize"
      /\ call[c].steps # <<>>
  BY DEF Shape, Fits, Normalized, At, Inside
<1>2. Head(call[c].steps) \notin Requesting \cup {"return"}
  BY <1>1 DEF Requesting, Recovering
<1>3. PICK S : call[c].steps \in Seq(S)
  BY StepList
<1>4. call[c].steps = ToNormalize
  <2>1. 1 \in DOMAIN call[c].steps /\ Head(call[c].steps) = call[c].steps[1]
    BY <1>1, <1>3, TailFacts
  <2>2. ~NoRename(call[c].steps)
    BY <1>1, <2>1 DEF NoRename, RenameSteps
  <2> QED
    BY <1>1, <2>2, RenamingFacts DEF RenameOK
<1>5. NoExpand(Tail(call[c].steps)) /\ NoExpand(call[c].steps)
  BY <1>4 DEF NoExpand, ToNormalize
<1>6. /\ call[c].stage = "none" /\ call[c].stability = "none"
  <2>1. call[c].steps = <<"return">> => Head(call[c].steps) = "return"
    OBVIOUS
  <2> QED
    BY <1>1, <1>2, <2>1 DEF AskOK
<1>7. PICK reply :
        Goto(c, [call[c] EXCEPT !.reply = reply, !.computed = <<>>,
                                !.snapshots = NoDocuments])
  BY DEF Normalized
<1> DEFINE r == [call[c] EXCEPT !.reply = reply, !.computed = <<>>,
                                !.snapshots = NoDocuments]
<1>8. /\ DOMAIN r = Fields /\ r.steps = call[c].steps
      /\ r.busy = call[c].busy /\ r.retries = call[c].retries
      /\ r.stability = call[c].stability
      /\ r.generation = call[c].generation
  BY <1>1 DEF Fields
<1>9. call'[c] = Become(c, r)
  BY <1>7, Moved DEF Shape
<1> HIDE DEF r
<1>10. NoAsk(call[c].steps) => NoAsk(Tail(call[c].steps))
  BY <1>1, <1>3, TailStraight DEF AskOK
<1>11. Passes(r)
  BY <1>1, <1>5, <1>6, <1>8, <1>10 DEF Passes, AskOK, Settled
<1>12. BasicsOK(r)
  BY <1>1, <1>8 DEF BasicsOK
<1> QED
  BY <1>3, <1>8, <1>9, <1>11, <1>12, BecomeOK

LEMMA LookUpAsks ==
  ASSUME Shape, NEW c \in Callers, BasicsOK(call[c]), AskOK(call[c]),
         NEW reply, LookUp(c, reply)
  PROVE  BasicsOK(call'[c]) /\ AskOK(call'[c])
<1>1. /\ DOMAIN call[c] = Fields
      /\ Inside(c) /\ Head(call[c].steps) = "pull"
      /\ call[c].steps # <<>> /\ call[c].stage = "attempt"
  BY DEF Shape, Fits, LookUp, At, Inside, InRequest
<1>2. /\ call[c].busy = <<>> /\ call[c].stability = "none"
  <2>1. call[c].steps = <<"return">> => Head(call[c].steps) = "return"
    OBVIOUS
  <2> QED
    BY <1>1, <2>1 DEF AskOK
<1> DEFINE r == [call[c] EXCEPT !.reply = reply]
<1>3. /\ DOMAIN r = Fields /\ r.steps = call[c].steps
      /\ r.busy = call[c].busy /\ r.retries = call[c].retries
      /\ r.stability = call[c].stability
      /\ r.generation = call[c].generation
  BY <1>1 DEF Fields
<1>4. call'[c] = Become(c, r)
  BY Moved DEF Shape, LookUp
<1> HIDE DEF r
<1>5. PICK S : call[c].steps \in Seq(S)
  BY StepList
<1>6. Passes(r)
  BY <1>1, <1>2, <1>3 DEF Passes, AskOK
<1>7. BasicsOK(r)
  BY <1>1, <1>3 DEF BasicsOK
<1> QED
  BY <1>3, <1>4, <1>5, <1>6, <1>7, BecomeOK

\* What a call is to remember of what it asked, it remembers.
LEMMA StepsAsk ==
  ASSUME Shape, NEW c \in Callers,
         BasicsOK(call[c]), AskOK(call[c]), RenameOK(call[c]),
         Queries(c) \/ Applies(c)
  PROVE  BasicsOK(call'[c]) /\ AskOK(call'[c])
<1> DEFINE OK == BasicsOK(call'[c]) /\ AskOK(call'[c])
<1>1. /\ DOMAIN call[c] = Fields
      /\ server.generation \in 0..MaxGenerations
      /\ call[c].generation \in 0..MaxGenerations
  BY DEF Shape, Fits, BasicsOK
<1>2. CASE Finish(c)
  BY <1>2, FinishAsks
<1>3. ASSUME NEW step, step \notin Requesting \cup {"return"},
             At(c, step), NEW r, SameAsk(r, c), Set(c, r) \/ Goto(c, r)
      PROVE  OK
  BY <1>3, UnaskedPasses, SetAsks DEF At
<1>4. /\ SameAsk(call[c], c)
      /\ \A x \in 0..MaxGenerations :
           SameAsk([call[c] EXCEPT !.generation = x], c)
      /\ \A x : SameAsk([call[c] EXCEPT !.snapshots = x], c)
      /\ \A x : SameAsk([call[c] EXCEPT !.files = x], c)
      /\ \A x : SameAsk([call[c] EXCEPT !.edit = x], c)
      /\ \A x, y : SameAsk([call[c] EXCEPT !.edit = x, !.files = y], c)
      /\ \A x \in 0..MaxGenerations : \A y :
           SameAsk([call[c] EXCEPT !.generation = x, !.edit = y], c)
  BY <1>1 DEF SameAsk, Fields
<1>5. /\ "attached" \notin Requesting \cup {"return"}
      /\ "acquire" \notin Requesting \cup {"return"}
      /\ "synchronize" \notin Requesting \cup {"return"}
      /\ "qualify null" \notin Requesting \cup {"return"}
      /\ "compare" \notin Requesting \cup {"return"}
      /\ "normalize" \notin Requesting \cup {"return"}
      /\ "take" \notin Requesting \cup {"return"}
      /\ "commit" \notin Requesting \cup {"return"}
      /\ "documents" \notin Requesting \cup {"return"}
      /\ "resynchronize" \notin Requesting \cup {"return"}
  BY DEF Requesting, Recovering
<1>6. CASE Fail(c) \/ Return(c) \/ InsertPreview(c) \/ StartFails(c)
           \/ SynchronizeRefused(c) \/ CommitFails(c) \/ Resynchronized(c)
           \/ ResynchronizeFails(c)
  BY <1>2, <1>6
     DEF Fail, Return, InsertPreview, StartFails, SynchronizeRefused,
         CommitFails, Resynchronized, ResynchronizeFails
<1>7. CASE Attached(c) \/ ShowSignatures(c) \/ Compare(c)
  BY <1>2, <1>3, <1>4, <1>5, <1>7 DEF Attached, ShowSignatures, Compare
<1>8. CASE Acquire(c)
  BY <1>1, <1>3, <1>4, <1>5, <1>8 DEF Acquire
<1>9. CASE Start(c)
  <2>1. server.generation + 1 \in 0..MaxGenerations
    BY <1>1, <1>9, ToolsAssumption DEF Start
  <2> QED
    BY <1>3, <1>4, <1>5, <1>9, <2>1 DEF Start
<1>10. CASE Synchronize(c)
  BY <1>3, <1>4, <1>5, <1>10 DEF Synchronize
<1>11. CASE Attempt(c) \/ Retry(c)
  BY <1>11, AttemptAsks
<1>12. ASSUME NEW reply, LookUp(c, reply) PROVE OK
  BY <1>12, LookUpAsks
<1>13. ASSUME NEW reply, Answer(c, reply) PROVE OK
  BY <1>13, AnswerAsks
<1>14. ASSUME NEW edit, AnswerRename(c, edit) PROVE OK
  <2>1. Head(call[c].steps) \notin Recovering
    <3>1. PICK i \in DOMAIN call[c].steps : call[c].steps[i] = "normalize"
      BY <1>14 DEF AnswerRename, Renames
    <3>2. call[c].steps \in RenamingTails
      BY <3>1 DEF RenameOK, NoRename, RenameSteps
    <3> QED
      BY <3>2, RenamingFacts DEF Recovering
  <2> QED
    BY <1>14, <2>1, AnswerRenameAsks
<1>15. CASE Receive(c)
  BY <1>15, ReceiveAsks
<1>16. CASE Expand(c)
  BY <1>16, ExpandAsks
<1>17. CASE Qualify(c)
  BY <1>17, QualifyAsks
<1>18. ASSUME NEW f \in Files, NormalizeFile(c, f) PROVE OK
  <2>1. PICK files : Set(c, [call[c] EXCEPT !.edit = call[c].edit \ {f},
                                            !.files = files])
    BY <1>1, <1>18 DEF NormalizeFile, Fields
  <2> QED
    BY <1>3, <1>4, <1>5, <1>18, <2>1 DEF NormalizeFile
<1>19. CASE Normalized(c)
  BY <1>19, NormalizedAsks
<1>20. ASSUME NEW id, TakePreview(c, id) PROVE OK
  BY <1>2, <1>3, <1>4, <1>5, <1>20 DEF TakePreview
<1>21. CASE Commit(c)
  BY <1>3, <1>4, <1>5, <1>21 DEF Commit
<1>22. CASE LookUpDocuments(c)
  <2>1. \E edit : Goto(c, [call[c] EXCEPT !.generation = server.generation,
                                          !.edit = edit])
    BY <1>1, <1>22 DEF LookUpDocuments, Fields
  <2> QED
    BY <1>1, <1>3, <1>4, <1>5, <1>22, <2>1 DEF LookUpDocuments
<1>23. ASSUME NEW f \in Files, Resynchronize(c, f) PROVE OK
  <2>1. Set(c, [call[c] EXCEPT !.edit = call[c].edit \ {f}])
    BY <1>1, <1>23 DEF Resynchronize, Fields
  <2> QED
    BY <1>3, <1>4, <1>5, <1>23, <2>1 DEF Resynchronize
<1> QED
  BY <1>6, <1>7, <1>8, <1>9, <1>10, <1>11, <1>12, <1>13, <1>14, <1>15,
     <1>16, <1>17, <1>18, <1>19, <1>20, <1>21, <1>22, <1>23
     DEF Queries, Applies

\* What is left of a call once it went on, whatever it did.
Left(c) == {<<>>, call[c].steps, Tail(call[c].steps), <<"return">>,
            <<"request">> \o Tail(call[c].steps)}
Kept(r, c) ==
  /\ r.steps \in Left(c)
  /\ r.files \in {<<>>, call[c].files}
  /\ r.gate \in {"none", call[c].gate}

LEMMA BecomeFields ==
  ASSUME NEW c, NEW record, DOMAIN record = Fields
  PROVE  /\ Tail(record.steps) = <<>> => Become(c, record) = Idle(call[c].todo)
         /\ Tail(record.steps) # <<>> =>
              LET r == Become(c, record)
              IN /\ r.steps = Tail(record.steps)
                 /\ r.generation = record.generation
                 /\ r.snapshots = record.snapshots
                 /\ r.computed = record.computed
                 /\ r.edit = record.edit
                 /\ r.files = record.files
                 /\ r.gate = record.gate
  BY DEF Become, Fields

LEMMA IdleKept ==
  ASSUME NEW c PROVE Kept(Idle(call[c].todo), c)
  BY DEF Kept, Idle, Left

LEMMA SteppedKept ==
  ASSUME Shape, NEW c \in Callers, NEW r, DOMAIN r = Fields,
         r.steps = call[c].steps, r.files \in {<<>>, call[c].files},
         r.gate = call[c].gate, Set(c, r) \/ Goto(c, r)
  PROVE  Kept(call'[c], c)
<1>1. CASE Set(c, r)
  <2>1. call'[c] = r
    BY <1>1, Moved DEF Shape
  <2> QED
    BY <2>1 DEF Kept, Left
<1>2. CASE Goto(c, r)
  <2>1. call'[c] = Become(c, r)
    BY <1>2, Moved DEF Shape
  <2>2. CASE Tail(r.steps) = <<>>
    BY <2>1, <2>2, BecomeFields, IdleKept
  <2>3. CASE Tail(r.steps) # <<>>
    <3>1. /\ call'[c].steps = Tail(call[c].steps)
          /\ call'[c].files = r.files /\ call'[c].gate = r.gate
      BY <2>1, <2>3, BecomeFields
    <3> QED
      BY <3>1 DEF Kept, Left
  <2> QED
    BY <2>2, <2>3
<1> QED
  BY <1>1, <1>2

LEMMA StepsKeep ==
  ASSUME Shape, NEW c \in Callers, Queries(c) \/ Applies(c),
         \A f \in Files : ~NormalizeFile(c, f),
         \A id \in 1..made : ~TakePreview(c, id)
  PROVE  Kept(call'[c], c)
<1> DEFINE OK == Kept(call'[c], c)
<1>1. DOMAIN call[c] = Fields
  BY DEF Shape, Fits
<1>2. CASE Finish(c)
  BY <1>2, IdleKept, Moved DEF Shape
<1>3. ASSUME NEW r, DOMAIN r = Fields, r.steps = call[c].steps,
             r.files \in {<<>>, call[c].files}, r.gate = call[c].gate,
             Set(c, r) \/ Goto(c, r)
      PROVE  OK
  BY <1>3, SteppedKept
<1>4. CASE Fail(c) \/ Return(c) \/ InsertPreview(c) \/ StartFails(c)
           \/ SynchronizeRefused(c) \/ CommitFails(c) \/ Resynchronized(c)
           \/ ResynchronizeFails(c)
  BY <1>2, <1>4
     DEF Fail, Return, InsertPreview, StartFails, SynchronizeRefused,
         CommitFails, Resynchronized, ResynchronizeFails
<1>5. CASE Attached(c) \/ ShowSignatures(c) \/ Compare(c)
  BY <1>1, <1>2, <1>3, <1>5 DEF Attached, ShowSignatures, Compare
<1>6. CASE Acquire(c) \/ Start(c)
  <2>1. PICK g : Goto(c, [call[c] EXCEPT !.generation = g])
    BY <1>6 DEF Acquire, Start
  <2> QED
    BY <1>1, <1>3, <2>1 DEF Fields
<1>7. CASE Synchronize(c)
  <2>1. PICK x : Goto(c, [call[c] EXCEPT !.snapshots = x])
    BY <1>7 DEF Synchronize
  <2> QED
    BY <1>1, <1>3, <2>1 DEF Fields
<1>8. CASE Attempt(c)
  <2>1. PICK w, b : Set(c, [call[c] EXCEPT !.stage = "sent", !.wasBusy = w,
                                           !.busy = b])
    BY <1>8 DEF Attempt, Sent
  <2> QED
    BY <1>1, <1>3, <2>1 DEF Fields
<1>9. CASE Retry(c)
  <2>1. PICK w, b : Set(c, [[call[c] EXCEPT !.stage = "sent", !.wasBusy = w,
                                            !.busy = b]
                              EXCEPT !.retries = call[c].retries + 1,
                                     !.reply = "none"])
    BY <1>1, <1>9 DEF Retry, Sent, Fields
  <2> QED
    BY <1>1, <1>3, <2>1 DEF Fields
<1>10. ASSUME NEW reply, LookUp(c, reply) PROVE OK
  <2>1. Goto(c, [call[c] EXCEPT !.reply = reply])
    BY <1>10 DEF LookUp
  <2> QED
    BY <1>1, <1>3, <2>1 DEF Fields
<1>11. ASSUME NEW reply, Answer(c, reply) PROVE OK
  <2>1. PICK busy : Set(c, [call[c] EXCEPT !.stage = "answered",
                              !.reply = reply, !.busy = busy])
    BY <1>11 DEF Answer
  <2> QED
    BY <1>1, <1>3, <2>1 DEF Fields
<1>12. ASSUME NEW edit, AnswerRename(c, edit) PROVE OK
  <2>1. PICK computed : Set(c, [call[c] EXCEPT !.stage = "answered",
                                  !.reply = "items", !.edit = edit,
                                  !.computed = computed])
    BY <1>12 DEF AnswerRename
  <2> QED
    BY <1>1, <1>3, <2>1 DEF Fields
<1>13. CASE Receive(c)
  <2>1. \/ Set(c, [call[c] EXCEPT !.stage = "waiting", !.busy = <<>>])
        \/ \E busy : Goto(c, [call[c] EXCEPT !.wasBusy = FALSE,
                                             !.busy = busy])
    BY <1>13 DEF Receive
  <2>2. CASE Set(c, [call[c] EXCEPT !.stage = "waiting", !.busy = <<>>])
    BY <1>1, <1>3, <2>2 DEF Fields
  <2>3. ASSUME NEW busy,
               Goto(c, [call[c] EXCEPT !.wasBusy = FALSE, !.busy = busy])
        PROVE  OK
    BY <1>1, <1>3, <2>3 DEF Fields
  <2> QED
    BY <2>1, <2>2, <2>3
<1>14. CASE Expand(c)
  <2>1. CASE Goto(c, call[c])
    BY <1>1, <1>3, <2>1
  <2>2. CASE ~Goto(c, call[c])
    <3>1. call'[c] = [call[c] EXCEPT !.stage = "attempt", !.reply = "none",
                        !.retries = 0,
                        !.steps = <<"request">> \o Tail(call[c].steps)]
      BY <1>1, <1>14, <2>2, Moved DEF Expand, Shape, Fields
    <3>2. /\ call'[c].steps = <<"request">> \o Tail(call[c].steps)
          /\ call'[c].files = call[c].files /\ call'[c].gate = call[c].gate
      BY <1>1, <3>1 DEF Fields
    <3> QED
      BY <3>2 DEF Kept, Left
  <2> QED
    BY <2>1, <2>2
<1>15. CASE Qualify(c)
  <2>1. CASE Goto(c, call[c])
    BY <1>1, <1>3, <2>1
  <2>2. CASE ~Goto(c, call[c])
    <3>1. PICK stability :
            call'[c] = [call[c] EXCEPT !.steps = <<"return">>,
                                       !.stability = stability]
      BY <1>1, <1>15, <2>2, Moved DEF Qualify, Shape, Fields
    <3>2. /\ call'[c].steps = <<"return">>
          /\ call'[c].files = call[c].files /\ call'[c].gate = call[c].gate
      BY <1>1, <3>1 DEF Fields
    <3> QED
      BY <3>2 DEF Kept, Left
  <2> QED
    BY <2>1, <2>2
<1>16. CASE Normalized(c)
  <2>1. PICK reply :
          Goto(c, [call[c] EXCEPT !.reply = reply, !.computed = <<>>,
                                  !.snapshots = NoDocuments])
    BY <1>16 DEF Normalized
  <2> QED
    BY <1>1, <1>3, <2>1 DEF Fields
<1>17. CASE Commit(c)
  <2>1. PICK edit : Goto(c, [call[c] EXCEPT !.edit = edit, !.files = <<>>])
    BY <1>17 DEF Commit
  <2> QED
    BY <1>1, <1>3, <2>1 DEF Fields
<1>18. CASE LookUpDocuments(c)
  <2>1. PICK g, edit : Goto(c, [call[c] EXCEPT !.generation = g,
                                               !.edit = edit])
    BY <1>1, <1>18 DEF LookUpDocuments, Fields
  <2> QED
    BY <1>1, <1>3, <2>1 DEF Fields
<1>19. ASSUME NEW f \in Files, Resynchronize(c, f) PROVE OK
  <2>1. Set(c, [call[c] EXCEPT !.edit = call[c].edit \ {f}])
    BY <1>1, <1>19 DEF Resynchronize, Fields
  <2> QED
    BY <1>1, <1>3, <2>1 DEF Fields
<1> QED
  BY <1>4, <1>5, <1>6, <1>7, <1>8, <1>9, <1>10, <1>11, <1>12, <1>13, <1>14,
     <1>15, <1>16, <1>17, <1>18, <1>19
     DEF Queries, Applies

-----------------------------------------------------------------------------
(* The steps of a rename                                                   *)

RenOK(r, store) ==
  RenameOK(r) /\ FilesOK(r.files) /\ (Asking(r) => Asked(r, store))

LEMMA IdleRenames ==
  ASSUME NEW todo, NEW store PROVE RenOK(Idle(todo), store)
  BY IdleOK, ShortNoRename, NoRenameOK DEF RenOK

LEMMA NoFilesOK == FilesOK(<<>>)
<1>1. DOMAIN <<>> = {}
  OBVIOUS
<1> QED
  BY <1>1, FS_EmptySet DEF FilesOK, Agrees

LEMMA OthersGo ==
  ASSUME Shape, NEW c \in Callers, Inside(c), NoRename(call[c].steps),
         FilesOK(call[c].files), Kept(call'[c], c), NEW store
  PROVE  RenOK(call'[c], store)
<1>1. PICK S : call[c].steps \in Seq(S)
  BY StepList
<1>2. call[c].steps \in Seq(S \cup {"request"}) /\ call[c].steps # <<>>
  BY <1>1 DEF Inside
<1>3. /\ NoRename(Tail(call[c].steps))
      /\ NoRename(<<"request">> \o Tail(call[c].steps))
  BY <1>2, NoRenameGoes
<1>4. NoRename(call'[c].steps)
  BY <1>3, ShortNoRename DEF Kept, Left
<1>5. FilesOK(call'[c].files)
  BY NoFilesOK DEF Kept
<1> QED
  BY <1>4, <1>5, NoRenameOK DEF RenOK

\* The places of a rename.
LEMMA Places ==
  /\ Head(Renaming) = "acquire" /\ Head(ToSynchronize) = "synchronize"
  /\ Head(ToRequest) = "request" /\ Head(ToCompare) = "compare"
  /\ Head(ToNormalize) = "normalize" /\ Head(ToQualify) = "qualify"
  /\ Head(ToInsert) = "insert"
  /\ Renaming \in RenamingTails /\ ToSynchronize \in RenamingTails
  /\ ToRequest \in RenamingTails /\ ToCompare \in RenamingTails
  /\ ToNormalize \in RenamingTails /\ ToQualify \in RenamingTails
  /\ ToInsert \in RenamingTails
  /\ ToSynchronize # <<>> /\ ToRequest # <<>> /\ ToCompare # <<>>
  /\ ToNormalize # <<>> /\ ToQualify # <<>> /\ ToInsert # <<>>
<1>1. /\ Head(Renaming) = "acquire" /\ Head(ToSynchronize) = "synchronize"
      /\ Head(ToRequest) = "request" /\ Head(ToCompare) = "compare"
      /\ Head(ToNormalize) = "normalize" /\ Head(ToQualify) = "qualify"
      /\ Head(ToInsert) = "insert"
  BY DEF Renaming, ToSynchronize, ToRequest, ToCompare, ToNormalize,
         ToQualify, ToInsert
<1>2. /\ Renaming \in RenamingTails /\ ToSynchronize \in RenamingTails
      /\ ToRequest \in RenamingTails /\ ToCompare \in RenamingTails
      /\ ToNormalize \in RenamingTails /\ ToQualify \in RenamingTails
      /\ ToInsert \in RenamingTails
  BY DEF RenamingTails
<1> QED
  BY <1>1, <1>2, RenamingFacts

\* A rename that goes on with what it has.
LEMMA RenameGoes ==
  ASSUME Shape, NEW c \in Callers, RenOK(call[c], documents),
         call[c].steps \in RenamingTails, NEW r, DOMAIN r = Fields,
         r.steps = call[c].steps, FilesOK(r.files), Goto(c, r), NEW store,
         \/ /\ call[c].steps = Renaming
            /\ r.computed = <<>> /\ r.files = <<>> /\ r.edit = {}
         \/ /\ call[c].steps \in {ToSynchronize, ToRequest}
            /\ r.files = <<>> /\ r.edit \subseteq Files /\ Asked(r, store)
         \/ /\ call[c].steps = ToCompare
            /\ r.edit \subseteq Files
            /\ \A f \in DOMAIN r.computed :
                 /\ r.snapshots[f] # Untracked
                 /\ r.computed[f] = r.snapshots[f].text
         \/ call[c].steps \in {ToNormalize, ToQualify, ToInsert}
  PROVE  RenOK(call'[c], store)
<1> DEFINE q == Become(c, r)
<1>1. call'[c] = q
  BY Moved DEF Shape
<1>2. CASE Tail(r.steps) = <<>>
  BY <1>1, <1>2, BecomeFields, IdleRenames
<1>3. CASE Tail(r.steps) # <<>>
  <2>1. /\ q.steps = Tail(call[c].steps) /\ q.generation = r.generation
        /\ q.snapshots = r.snapshots /\ q.computed = r.computed
        /\ q.edit = r.edit /\ q.files = r.files
    BY <1>3, BecomeFields
  <2> HIDE DEF q
  <2>2. CASE call[c].steps = Renaming
    <3>1. q.steps = ToSynchronize /\ r.computed = <<>> /\ r.files = <<>>
          /\ r.edit = {}
      BY <2>1, <2>2, Places, RenamingFacts
    <3>2. RenameOK(q) /\ ~Asking(q)
      BY <2>1, <3>1, Places DEF RenameOK, Asking
    <3> QED
      BY <1>1, <2>1, <3>2 DEF RenOK
  <2>3. CASE call[c].steps \in {ToSynchronize, ToRequest}
    <3>1. /\ q.steps \in {ToRequest, ToCompare}
          /\ r.files = <<>> /\ r.edit \subseteq Files /\ Asked(r, store)
      BY <2>1, <2>3, Places, RenamingFacts
    <3>2. RenameOK(q)
      BY <2>1, <3>1, Places DEF RenameOK, Asking
    <3>3. Asked(q, store)
      BY <2>1, <3>1 DEF Asked
    <3> QED
      BY <1>1, <2>1, <3>2, <3>3 DEF RenOK
  <2>4. CASE call[c].steps = ToCompare
    <3>1. /\ q.steps = ToNormalize /\ r.edit \subseteq Files
          /\ \A f \in DOMAIN r.computed :
               /\ r.snapshots[f] # Untracked
               /\ r.computed[f] = r.snapshots[f].text
      BY <2>1, <2>4, Places, RenamingFacts
    <3>2. RenameOK(q) /\ ~Asking(q)
      BY <2>1, <3>1, Places DEF RenameOK, Asking
    <3> QED
      BY <1>1, <2>1, <3>2 DEF RenOK
  <2>5. CASE call[c].steps \in {ToNormalize, ToQualify, ToInsert}
    <3>1. q.steps \in {ToQualify, ToInsert}
      BY <1>3, <2>1, <2>5, Places, RenamingFacts
    <3>2. RenameOK(q) /\ ~Asking(q)
      BY <2>1, <3>1, Places DEF RenameOK, Asking
    <3> QED
      BY <1>1, <2>1, <3>2 DEF RenOK
  <2> QED
    BY <2>2, <2>3, <2>4, <2>5
<1> QED
  BY <1>2, <1>3

\* A rename that stays where it is.
LEMMA RenameWaits ==
  ASSUME Shape, NEW c \in Callers, call[c].steps = ToRequest,
         NEW r, Set(c, r), r.steps = call[c].steps, r.files = <<>>,
         r.edit \subseteq Files, NEW store, Asked(r, store)
  PROVE  RenOK(call'[c], store)
<1>1. call'[c] = r
  BY Moved DEF Shape
<1>2. RenameOK(r)
  BY Places DEF RenameOK, Asking
<1> QED
  BY <1>1, <1>2, NoFilesOK DEF RenOK

\* The same as what was asked.
LEMMA AskedAlike ==
  ASSUME NEW r, NEW q, NEW store, Asked(r, store),
         q.generation = r.generation, q.snapshots = r.snapshots,
         q.computed = r.computed, q.edit = r.edit
  PROVE  Asked(q, store)
  BY DEF Asked

LEMMA SynchronizeRenames ==
  ASSUME Shape, DocumentsOK, DocumentsOK', NEW c \in Callers,
         BasicsOK(call[c]), RenOK(call[c], documents),
         call[c].steps \in RenamingTails, Synchronize(c)
  PROVE  RenOK(call'[c], documents')
<1> DEFINE g == call[c].generation
           f == call[c].file
           synchronized == [documents[g] EXCEPT ![f] = Synchronized(g, f)]
           r == [call[c] EXCEPT !.snapshots = synchronized]
<1>1. /\ DOMAIN call[c] = Fields
      /\ Head(call[c].steps) = "synchronize"
      /\ g \in 0..MaxGenerations
  BY DEF Shape, Fits, BasicsOK, Synchronize, At
<1>2. call[c].steps = ToSynchronize
  BY <1>1, RenamingFacts
<1>3. Renames(c)
  <2>1. 4 \in DOMAIN ToSynchronize /\ ToSynchronize[4] = "normalize"
    BY DEF ToSynchronize
  <2> QED
    BY <1>2, <2>1 DEF Renames
<1>4. documents' = [documents EXCEPT ![g] = synchronized]
  BY DEF Synchronize
<1>5. documents'[g] = synchronized
  BY <1>1, <1>4 DEF Shape
<1>6. Goto(c, r)
  BY <1>3 DEF Synchronize
<1>7. /\ DOMAIN r = Fields /\ r.steps = call[c].steps
      /\ r.snapshots = synchronized /\ r.generation = g
      /\ r.computed = call[c].computed /\ r.files = call[c].files
      /\ r.edit = call[c].edit
  BY <1>1 DEF Fields
<1>8. /\ call[c].computed = <<>> /\ call[c].files = <<>>
      /\ call[c].edit = {}
  BY <1>2 DEF RenOK, RenameOK
<1> HIDE DEF r, synchronized
<1>9. \A e \in Files : synchronized[e].version \in Nat
  <2>1. \A e \in Files : Versioned(documents'[g][e])
    BY <1>1 DEF DocumentsOK, Versioned
  <2> QED
    BY <1>5, <2>1, VersionInNat
<1>10. DOMAIN <<>> = {}
  OBVIOUS
<1>11. Asked(r, documents')
  <2>1. \A e \in Files :
          /\ r.snapshots[e].version \in Nat
          /\ r.snapshots[e].version <= documents'[g][e].version
    BY <1>5, <1>7, <1>9
  <2> QED
    BY <1>7, <1>8, <1>10, <2>1 DEF Asked
<1> QED
  BY <1>2, <1>6, <1>7, <1>8, <1>11, NoFilesOK, RenameGoes

LEMMA AnswerRenames ==
  ASSUME Shape, NEW c \in Callers, RenOK(call[c], documents),
         call[c].steps \in RenamingTails, NEW edit \in SUBSET Files,
         AnswerRename(c, edit)
  PROVE  RenOK(call'[c], documents')
<1> DEFINE g == call[c].generation
           open == {f \in edit : Tracked(g, f) /\ <<g, f>> \notin missed}
           computed == [f \in open |-> documents[g][f].text]
           r == [call[c] EXCEPT !.stage = "answered", !.reply = "items",
                   !.edit = edit, !.computed = computed]
<1>1. /\ DOMAIN call[c] = Fields
      /\ Head(call[c].steps) \in Requesting
  BY DEF Shape, Fits, AnswerRename, InRequest
<1>2. call[c].steps = ToRequest
  BY <1>1, RenamingFacts DEF Requesting, Recovering
<1>3. Asked(call[c], documents) /\ call[c].files = <<>>
  BY <1>2 DEF RenOK, RenameOK, Asking
<1>4. Set(c, r) /\ documents' = documents
  BY DEF AnswerRename
<1>5. /\ r.steps = call[c].steps /\ r.files = call[c].files
      /\ r.edit = edit /\ r.computed = computed
      /\ r.snapshots = call[c].snapshots /\ r.generation = g
  BY <1>1 DEF Fields
<1>6. DOMAIN computed = open /\ open \subseteq edit
  OBVIOUS
<1>7. \A f \in open : /\ documents[g][f] # Untracked
                      /\ computed[f] = documents[g][f].text
  BY DEF Tracked
<1> HIDE DEF r, computed, open
<1>8. Asked(r, documents)
  BY <1>3, <1>5, <1>6, <1>7 DEF Asked
<1> QED
  BY <1>2, <1>3, <1>4, <1>5, <1>8, RenameWaits

LEMMA RequestRenames ==
  ASSUME Shape, DocumentsOK, GoesOn, NEW c \in Callers,
         BasicsOK(call[c]), RenOK(call[c], documents),
         call[c].steps \in RenamingTails,
         \/ Attempt(c) \/ Retry(c) \/ Receive(c)
         \/ \E reply \in {"items", "empty", "gave up"} : Answer(c, reply)
  PROVE  RenOK(call'[c], documents')
<1>1. /\ DOMAIN call[c] = Fields
      /\ Head(call[c].steps) \in Requesting
      /\ call[c].generation \in 0..MaxGenerations
  BY DEF Shape, Fits, BasicsOK, Attempt, Retry, Receive, Answer, InRequest
<1>2. call[c].steps = ToRequest
  BY <1>1, RenamingFacts DEF Requesting, Recovering
<1>3. /\ Asked(call[c], documents) /\ call[c].files = <<>>
      /\ call[c].edit \subseteq Files
  BY <1>2 DEF RenOK, RenameOK, Asking
<1>4. Asked(call[c], documents')
  BY <1>1, <1>3, AskedStays
<1>5. ASSUME NEW r, Set(c, r), r.steps = call[c].steps,
             r.files = call[c].files, r.edit = call[c].edit,
             r.computed = call[c].computed, r.snapshots = call[c].snapshots,
             r.generation = call[c].generation
      PROVE  RenOK(call'[c], documents')
  <2>1. Asked(r, documents')
    BY <1>4, <1>5, AskedAlike
  <2> QED
    BY <1>2, <1>3, <1>5, <2>1, RenameWaits
<1>6. CASE Attempt(c)
  <2>1. PICK w, b : Set(c, [call[c] EXCEPT !.stage = "sent", !.wasBusy = w,
                                           !.busy = b])
    BY <1>6 DEF Attempt, Sent
  <2> QED
    BY <1>1, <1>5, <2>1 DEF Fields
<1>7. CASE Retry(c)
  <2>1. PICK w, b : Set(c, [[call[c] EXCEPT !.stage = "sent", !.wasBusy = w,
                                            !.busy = b]
                              EXCEPT !.retries = call[c].retries + 1,
                                     !.reply = "none"])
    BY <1>1, <1>7 DEF Retry, Sent, Fields
  <2> QED
    BY <1>1, <1>5, <2>1 DEF Fields
<1>8. ASSUME NEW reply, Answer(c, reply) PROVE RenOK(call'[c], documents')
  <2>1. PICK busy : Set(c, [call[c] EXCEPT !.stage = "answered",
                              !.reply = reply, !.busy = busy])
    BY <1>8 DEF Answer
  <2> QED
    BY <1>1, <1>5, <2>1 DEF Fields
<1>9. CASE Receive(c)
  <2>1. \/ Set(c, [call[c] EXCEPT !.stage = "waiting", !.busy = <<>>])
        \/ \E busy : Goto(c, [call[c] EXCEPT !.wasBusy = FALSE,
                                             !.busy = busy])
    BY <1>9 DEF Receive
  <2>2. CASE Set(c, [call[c] EXCEPT !.stage = "waiting", !.busy = <<>>])
    BY <1>1, <1>5, <2>2 DEF Fields
  <2>3. ASSUME NEW busy,
               Goto(c, [call[c] EXCEPT !.wasBusy = FALSE, !.busy = busy])
        PROVE  RenOK(call'[c], documents')
    <3> DEFINE r == [call[c] EXCEPT !.wasBusy = FALSE, !.busy = busy]
    <3>1. /\ DOMAIN r = Fields /\ r.steps = call[c].steps
          /\ r.files = call[c].files /\ r.edit = call[c].edit
          /\ r.computed = call[c].computed
          /\ r.snapshots = call[c].snapshots
          /\ r.generation = call[c].generation
      BY <1>1 DEF Fields
    <3>2. Goto(c, r)
      BY <2>3
    <3> HIDE DEF r
    <3>3. Asked(r, documents')
      BY <1>4, <3>1, AskedAlike
    <3> QED
      BY <1>2, <1>3, <3>1, <3>2, <3>3, NoFilesOK, RenameGoes
  <2> QED
    BY <2>1, <2>2, <2>3
<1> QED
  BY <1>6, <1>7, <1>8, <1>9

LEMMA NormalizeRenames ==
  ASSUME Shape, NEW c \in Callers, RenOK(call[c], documents),
         NEW f \in Files, NormalizeFile(c, f), NEW store
  PROVE  RenOK(call'[c], store)
<1> DEFINE before == call[c].files
           computed == IF f \in DOMAIN call[c].computed
                         THEN call[c].computed[f] ELSE Unknown
           files == [file \in DOMAIN before \cup {f} |->
                       IF file # f THEN before[file]
                       ELSE [before |-> disk[f], computed |-> computed]]
           r == [call[c] EXCEPT !.edit = call[c].edit \ {f},
                                !.files = files]
<1>1. /\ DOMAIN call[c] = Fields
      /\ Inside(c) /\ Head(call[c].steps) = "normalize"
  BY DEF Shape, Fits, NormalizeFile, At
<1>2. call[c].steps = ToNormalize
  <2>1. PICK S : call[c].steps \in Seq(S)
    BY StepList
  <2>2. 1 \in DOMAIN call[c].steps /\ Head(call[c].steps) = call[c].steps[1]
    BY <1>1, <2>1, TailFacts DEF Inside
  <2>3. ~NoRename(call[c].steps)
    BY <1>1, <2>2 DEF NoRename, RenameSteps
  <2> QED
    BY <1>1, <2>3, RenamingFacts DEF RenOK, RenameOK
<1>3. call'[c] = r
  BY <1>1, Moved DEF NormalizeFile, Shape, Fields
<1>4. /\ r.steps = call[c].steps /\ r.files = files
      /\ r.edit = call[c].edit \ {f} /\ r.computed = call[c].computed
      /\ r.snapshots = call[c].snapshots
  BY <1>1 DEF Fields
<1>5. /\ call[c].edit \subseteq Files
      /\ \A e \in DOMAIN call[c].computed :
           /\ call[c].snapshots[e] # Untracked
           /\ call[c].computed[e] = call[c].snapshots[e].text
      /\ FilesOK(before)
  BY <1>2 DEF RenOK, RenameOK
<1>6. computed \in {disk[f], Unknown}
  <2>1. call[c].snapshots[f] # Untracked
          => call[c].snapshots[f].text = disk[f]
    BY DEF NormalizeFile
  <2> QED
    BY <1>5, <2>1
<1> HIDE DEF computed, before
<1>7. FilesOK(files)
  <2>1. DOMAIN files = DOMAIN before \cup {f}
    OBVIOUS
  <2>2. \A e \in DOMAIN files :
          \/ e = f /\ files[e].before = disk[f]
               /\ files[e].computed = computed
          \/ e \in DOMAIN before /\ files[e] = before[e]
    OBVIOUS
  <2> HIDE DEF files
  <2>3. Agrees(files)
    BY <1>5, <1>6, <2>2 DEF FilesOK, Agrees
  <2> QED
    BY <1>5, <2>1, <2>3, FS_AddElement DEF FilesOK
<1> HIDE DEF files, r
<1>8. RenameOK(r) /\ ~Asking(r)
  BY <1>2, <1>4, <1>5, Places DEF RenameOK, Asking
<1> QED
  BY <1>3, <1>4, <1>7, <1>8 DEF RenOK

LEMMA RenamesGo ==
  ASSUME Shape, DocumentsOK, DocumentsOK', GoesOn, NEW c \in Callers,
         BasicsOK(call[c]), RenOK(call[c], documents),
         call[c].steps \in RenamingTails, Queries(c)
  PROVE  RenOK(call'[c], documents')
<1> DEFINE OK == RenOK(call'[c], documents')
<1>1. DOMAIN call[c] = Fields /\ FilesOK(call[c].files)
  BY DEF Shape, Fits, RenOK
<1>2. CASE Finish(c)
  <2>1. call'[c] = Idle(call[c].todo)
    BY <1>2, Moved DEF Shape
  <2> QED
    BY <2>1, IdleRenames
<1>3. CASE Fail(c) \/ Return(c) \/ InsertPreview(c) \/ StartFails(c)
           \/ SynchronizeRefused(c)
  BY <1>2, <1>3
     DEF Fail, Return, InsertPreview, StartFails, SynchronizeRefused
<1>4. CASE Attached(c) \/ ShowSignatures(c) \/ Expand(c)
           \/ \E reply \in {"items", "empty"} : LookUp(c, reply)
  <2>1. Head(call[c].steps) \in {"attached", "qualify null", "expand",
                                 "pull"}
    BY <1>4 DEF Attached, ShowSignatures, Expand, LookUp, At
  <2> QED
    BY <2>1, RenamingFacts
<1>5. CASE Acquire(c) \/ Start(c)
  <2>1. PICK g : Goto(c, [call[c] EXCEPT !.generation = g])
    BY <1>5 DEF Acquire, Start
  <2>2. call[c].steps = Renaming
    BY <1>5, RenamingFacts DEF Acquire, Start, At
  <2> DEFINE r == [call[c] EXCEPT !.generation = g]
  <2>3. /\ DOMAIN r = Fields /\ r.steps = call[c].steps
        /\ r.files = call[c].files /\ r.edit = call[c].edit
        /\ r.computed = call[c].computed
    BY <1>1 DEF Fields
  <2>4. Goto(c, r)
    BY <2>1
  <2> HIDE DEF r
  <2>5. r.computed = <<>> /\ r.files = <<>> /\ r.edit = {}
    BY <2>2, <2>3 DEF RenOK, RenameOK
  <2> QED
    BY <2>2, <2>3, <2>4, <2>5, NoFilesOK, RenameGoes
<1>6. CASE Synchronize(c)
  BY <1>6, SynchronizeRenames
<1>7. CASE \/ Attempt(c) \/ Retry(c) \/ Receive(c)
           \/ \E reply \in {"items", "empty", "gave up"} : Answer(c, reply)
  BY <1>7, RequestRenames
<1>8. ASSUME NEW edit \in SUBSET Files, AnswerRename(c, edit) PROVE OK
  BY <1>8, AnswerRenames
<1>9. CASE Compare(c)
  <2>1. call[c].steps = ToCompare
    BY <1>9, RenamingFacts DEF Compare, At
  <2>2. Asked(call[c], documents) /\ call[c].edit \subseteq Files
    BY <2>1 DEF RenOK, RenameOK, Asking
  <2>3. \A f \in call[c].edit :
          call[c].snapshots[f] = documents[call[c].generation][f]
    BY <1>9 DEF Compare
  <2>4. \A f \in DOMAIN call[c].computed :
          /\ call[c].snapshots[f] # Untracked
          /\ call[c].computed[f] = call[c].snapshots[f].text
    BY <2>2, <2>3 DEF Asked
  <2>5. Goto(c, call[c])
    BY <1>9 DEF Compare
  <2> QED
    BY <1>1, <2>1, <2>2, <2>4, <2>5, RenameGoes
<1>10. ASSUME NEW f \in Files, NormalizeFile(c, f) PROVE OK
  BY <1>10, NormalizeRenames
<1>11. CASE Normalized(c)
  <2>1. PICK reply :
          Goto(c, [call[c] EXCEPT !.reply = reply, !.computed = <<>>,
                                  !.snapshots = NoDocuments])
    BY <1>11 DEF Normalized
  <2>2. call[c].steps = ToNormalize
    BY <1>11, RenamingFacts DEF Normalized, At
  <2> DEFINE r == [call[c] EXCEPT !.reply = reply, !.computed = <<>>,
                                  !.snapshots = NoDocuments]
  <2>3. /\ DOMAIN r = Fields /\ r.steps = call[c].steps
        /\ r.files = call[c].files
    BY <1>1 DEF Fields
  <2>4. Goto(c, r)
    BY <2>1
  <2> HIDE DEF r
  <2> QED
    BY <1>1, <2>2, <2>3, <2>4, RenameGoes
<1>12. CASE Qualify(c)
  <2>1. call[c].steps = ToQualify
    BY <1>12, RenamingFacts DEF Qualify, At
  <2>2. CASE Goto(c, call[c])
    BY <1>1, <2>1, <2>2, RenameGoes
  <2>3. CASE ~Goto(c, call[c])
    <3>1. PICK stability :
            call'[c] = [call[c] EXCEPT !.steps = <<"return">>,
                                       !.stability = stability]
      BY <1>1, <1>12, <2>3, Moved DEF Qualify, Shape, Fields
    <3>2. /\ call'[c].steps = <<"return">>
          /\ call'[c].files = call[c].files
      BY <1>1, <3>1 DEF Fields
    <3>3. NoRename(call'[c].steps)
      BY <3>2, ShortNoRename
    <3> QED
      BY <1>1, <3>2, <3>3, NoRenameOK DEF RenOK
  <2> QED
    BY <2>2, <2>3
<1> QED
  BY <1>3, <1>4, <1>5, <1>6, <1>7, <1>8, <1>9, <1>10, <1>11, <1>12
     DEF Queries

-----------------------------------------------------------------------------
(* Previews and what they are made of                                      *)

PreviewOK(p) == p.size \in Nat /\ FilesOK(p.files)
Of(store) == {store.previews[n] : n \in DOMAIN store.previews}
StoreOK(store) ==
  /\ Counts(store, Of(store))
  /\ Within(store)
  /\ \A p \in Of(store) : PreviewOK(p)

\* A store of good previews is one whatever else there may be.
LEMMA StoreIsOK ==
  ASSUME NEW store, NEW S, \A p \in S : PreviewOK(p),
         Counts(store, S), Within(store)
  PROVE  StoreOK(store)
<1>1. \A n \in DOMAIN store.previews : store.previews[n] \in S
  BY DEF Counts
<1>2. Of(store) \subseteq S
  BY <1>1 DEF Of
<1>3. store.previews \in Seq(Of(store))
  <2>1. Len(store.previews) \in Nat
        /\ store.previews
             = [n \in 1..Len(store.previews) |-> store.previews[n]]
        /\ DOMAIN store.previews = 1..Len(store.previews)
    BY DEF Counts
  <2>2. \A n \in 1..Len(store.previews) : store.previews[n] \in Of(store)
    BY <2>1 DEF Of
  <2> QED
    BY <2>1, <2>2
<1> QED
  BY <1>2, <1>3 DEF StoreOK, Counts

LEMMA PreviewInserted ==
  ASSUME NEW store, StoreOK(store), NEW p, PreviewOK(p), NEW now
  PROVE  StoreOK(Insert(store, p, now).store)
<1> DEFINE S == Of(store) \cup {p}
<1>1. \A q \in S : PreviewOK(q)
  BY DEF StoreOK
<1>2. /\ Counts(store, S) /\ Within(store)
      /\ \A q \in S : q.size \in Nat
  <2>1. Of(store) \subseteq S
    OBVIOUS
  <2>2. Counts(store, S)
    BY <2>1 DEF StoreOK, Counts
  <2> QED
    BY <1>1, <2>2 DEF StoreOK, PreviewOK
<1>3. p \in S
  OBVIOUS
<1> HIDE DEF S
<1>4. /\ Counts(Insert(store, p, now).store, S)
      /\ Within(Insert(store, p, now).store)
  BY <1>2, <1>3, InsertKeeps
<1> QED
  BY <1>1, <1>4, StoreIsOK

LEMMA PreviewTaken ==
  ASSUME NEW store, StoreOK(store), NEW id, NEW now
  PROVE  /\ StoreOK(Take(store, id, now).store)
         /\ \/ Take(store, id, now).preview = <<>>
            \/ FilesOK(Take(store, id, now).preview[1].files)
<1> DEFINE S == Of(store)
           taken == Take(store, id, now)
<1>1. /\ \A q \in S : PreviewOK(q)
      /\ Counts(store, S) /\ Within(store)
      /\ \A q \in S : q.size \in Nat
  BY DEF StoreOK, PreviewOK
<1> HIDE DEF S
<1>2. /\ Counts(taken.store, S) /\ Within(taken.store)
      /\ taken.preview = <<>> \/ taken.preview[1] \in S
  BY <1>1, TakeKeeps
<1> QED
  BY <1>1, <1>2, StoreIsOK DEF PreviewOK

LEMMA TakeRenames ==
  ASSUME Shape, NEW c \in Callers, RenOK(call[c], documents),
         StoreOK(previews), NEW id, TakePreview(c, id), NEW store
  PROVE  RenOK(call'[c], store)
<1>1. /\ DOMAIN call[c] = Fields
      /\ Inside(c) /\ Head(call[c].steps) \in ApplySteps
  BY DEF Shape, Fits, TakePreview, At, ApplySteps
<1>2. call[c].steps \in Applications
  BY <1>1, GateOfStep DEF Shape, Fits
<1>3. PICK S : call[c].steps \in Seq(S)
  BY StepList
<1>4. NoRename(Tail(call[c].steps))
  <2>1. Head(call[c].steps) = "take"
    BY DEF TakePreview, At
  <2>2. Tail(call[c].steps) = <<"commit", "documents", "resynchronize">>
    BY <1>2, <2>1, ApplicationTails
  <2>3. NoRename(<<"commit", "documents", "resynchronize">>)
    BY DEF NoRename, RenameSteps
  <2> QED
    BY <2>2, <2>3
<1>5. CASE Finish(c)
  <2>1. call'[c] = Idle(call[c].todo)
    BY <1>5, Moved DEF Shape
  <2> QED
    BY <2>1, IdleRenames
<1>6. CASE ~Finish(c)
  <2> DEFINE files == Take(previews, id, clock).preview[1].files
             r == [call[c] EXCEPT !.files = files]
  <2>1. /\ Take(previews, id, clock).preview # <<>>
        /\ Goto(c, r)
    BY <1>6 DEF TakePreview
  <2>2. FilesOK(files)
    BY <2>1, PreviewTaken
  <2>3. DOMAIN r = Fields /\ r.steps = call[c].steps /\ r.files = files
    BY <1>1 DEF Fields
  <2>4. call'[c] = Become(c, r)
    BY <2>1, Moved DEF Shape
  <2> HIDE DEF files, r
  <2>5. CASE Tail(r.steps) = <<>>
    BY <2>3, <2>4, <2>5, BecomeFields, IdleRenames
  <2>6. CASE Tail(r.steps) # <<>>
    <3>1. /\ call'[c].steps = Tail(call[c].steps)
          /\ call'[c].files = files
      BY <2>3, <2>4, <2>6, BecomeFields
    <3>2. NoRename(call'[c].steps)
      BY <1>4, <3>1
    <3> QED
      BY <2>2, <3>1, <3>2, NoRenameOK DEF RenOK
  <2> QED
    BY <2>5, <2>6
<1> QED
  BY <1>5, <1>6

-----------------------------------------------------------------------------
(* Steps and the calls of others                                           *)

LEMMA AtSomeStep ==
  ASSUME NEW c, Queries(c) \/ Applies(c)
  PROVE  Inside(c)
  BY DEF Queries, Fail, Attached, Acquire, Start, StartFails, Synchronize,
         SynchronizeRefused, Attempt, LookUp, Answer, AnswerRename, Receive,
         Retry, Expand, Qualify, ShowSignatures, Return, Compare,
         NormalizeFile, Normalized, InsertPreview, InRequest, At, Applies,
         TakePreview, Commit, CommitFails, LookUpDocuments, Resynchronize,
         Resynchronized, ResynchronizeFails

LEMMA CallsGo ==
  ASSUME Shape, DocumentsOK, DocumentsOK', GoesOn, StoreOK(previews),
         NEW c \in Callers, BasicsOK(call[c]), RenOK(call[c], documents),
         Queries(c) \/ Applies(c)
  PROVE  RenOK(call'[c], documents')
<1>1. ASSUME NEW f \in Files, NormalizeFile(c, f)
      PROVE  RenOK(call'[c], documents')
  BY <1>1, NormalizeRenames
<1>2. ASSUME NEW id, TakePreview(c, id)
      PROVE  RenOK(call'[c], documents')
  BY <1>2, TakeRenames
<1>3. CASE call[c].steps \in RenamingTails
  <2>1. ~Applies(c)
    <3>1. Head(call[c].steps) \notin ApplySteps
      BY <1>3, RenamingFacts DEF ApplySteps
    <3> QED
      BY <3>1 DEF Applies, TakePreview, Commit, CommitFails,
         LookUpDocuments, Resynchronize, Resynchronized,
         ResynchronizeFails, At, ApplySteps
  <2> QED
    BY <1>3, <2>1, RenamesGo
<1>4. CASE /\ call[c].steps \notin RenamingTails
           /\ \A f \in Files : ~NormalizeFile(c, f)
           /\ \A id \in 1..made : ~TakePreview(c, id)
  <2>1. NoRename(call[c].steps) /\ FilesOK(call[c].files)
    BY <1>4 DEF RenOK, RenameOK
  <2>2. Kept(call'[c], c)
    BY <1>4, StepsKeep
  <2> QED
    BY <2>1, <2>2, AtSomeStep, OthersGo
<1> QED
  BY <1>1, <1>2, <1>3, <1>4

\* A call that goes on keeps its gate.
LEMMA GatesKept ==
  ASSUME Shape, NEW c \in Callers, Queries(c) \/ Applies(c)
  PROVE  call'[c].gate \in {"none", call[c].gate}
<1> DEFINE OK == call'[c].gate \in {"none", call[c].gate}
<1>1. DOMAIN call[c] = Fields
  BY DEF Shape, Fits
<1>2. CASE Finish(c)
  <2>1. call'[c] = Idle(call[c].todo)
    BY <1>2, Moved DEF Shape
  <2>2. Idle(call[c].todo).gate = "none"
    BY DEF Idle
  <2> QED
    BY <2>1, <2>2
<1>3. ASSUME NEW r, DOMAIN r = Fields, r.gate = call[c].gate,
             Set(c, r) \/ Goto(c, r)
      PROVE  OK
  <2>1. CASE Set(c, r)
    BY <1>3, <2>1, Moved DEF Shape
  <2>2. CASE Goto(c, r)
    <3>1. call'[c] = Become(c, r)
      BY <2>2, Moved DEF Shape
    <3>2. Idle(call[c].todo).gate = "none"
      BY DEF Idle
    <3> QED
      BY <1>3, <3>1, <3>2, BecomeFields
  <2> QED
    BY <1>3, <2>1, <2>2
<1>4. ASSUME NEW f \in Files, NormalizeFile(c, f) PROVE OK
  <2>1. PICK files : Set(c, [call[c] EXCEPT !.edit = call[c].edit \ {f},
                                            !.files = files])
    BY <1>1, <1>4 DEF NormalizeFile, Fields
  <2> QED
    BY <1>1, <1>3, <2>1 DEF Fields
<1>5. ASSUME NEW id, TakePreview(c, id) PROVE OK
  <2>1. ASSUME NEW files, Goto(c, [call[c] EXCEPT !.files = files])
        PROVE  OK
    BY <1>1, <1>3, <2>1 DEF Fields
  <2> QED
    BY <1>2, <1>5, <2>1 DEF TakePreview
<1>6. CASE /\ \A f \in Files : ~NormalizeFile(c, f)
           /\ \A id \in 1..made : ~TakePreview(c, id)
  BY <1>6, StepsKeep DEF Kept
<1> QED
  BY <1>4, <1>5, <1>6

LEMMA OthersStay ==
  ASSUME Shape, NEW c \in Callers, Queries(c) \/ Applies(c)
  PROVE  \A d \in Callers \ {c} : call'[d] = call[d]
<1>1. \A r : Set(c, r) => \A d \in Callers \ {c} : call'[d] = call[d]
  BY DEF Set, Shape
<1>2. Finish(c) => \A d \in Callers \ {c} : call'[d] = call[d]
  BY <1>1 DEF Finish
<1>3. \A r : Goto(c, r) => \A d \in Callers \ {c} : call'[d] = call[d]
  BY <1>1, <1>2 DEF Goto
<1>4. CASE Queries(c)
  BY <1>1, <1>4, QueriesAreQuerySteps DEF QueryStep
<1>5. CASE Applies(c)
  BY <1>1, <1>2, <1>3, <1>5
     DEF Applies, TakePreview, Commit, CommitFails, LookUpDocuments,
         Resynchronize, Resynchronized, ResynchronizeFails
<1> QED
  BY <1>4, <1>5

LEMMA EnterGoes ==
  ASSUME Shape, NEW c \in Callers, NEW f, Enter(c, f), BasicsOK(call[c]),
         NEW store
  PROVE  /\ BasicsOK(call'[c]) /\ AskOK(call'[c])
         /\ RenOK(call'[c], store)
         /\ \A d \in Callers \ {c} : call'[d] = call[d]
<1> DEFINE tool == Head(call[c].todo)
           gate == IF Has(tool, "gate") THEN "read"
                   ELSE IF Has(tool, "write gate") THEN "write" ELSE "none"
           r == [call[c] EXCEPT !.todo = Tail(call[c].todo), !.gate = gate,
                                !.file = f, !.steps = SharedSteps(tool)]
<1>1. /\ Set(c, r) /\ call[c].steps = <<>> /\ call[c].todo # <<>>
      /\ DOMAIN call[c] = Fields /\ call[c].todo \in Seq(DOMAIN Program)
  BY DEF Enter, Inside, Shape, Fits
<1>2. tool \in DOMAIN Program
  <2>1. ASSUME NEW S, NEW todo \in Seq(S), todo # <<>>
        PROVE  Head(todo) \in S
    BY <2>1
  <2> QED
    BY <1>1, <2>1
<1>3. /\ SharedSteps(tool) # <<>> /\ Straight(SharedSteps(tool))
      /\ SharedSteps(tool) = Renaming \/ NoRename(SharedSteps(tool))
  BY <1>2, AskingAssumption, RenamingAssumption DEF NoRename
<1>4. call'[c] = r /\ \A d \in Callers \ {c} : call'[d] = call[d]
  BY <1>1 DEF Set, Shape
<1>5. call[c] = Idle(call[c].todo)
  BY <1>1 DEF BasicsOK
<1>6. /\ call[c].retries = 0 /\ call[c].generation = 0
      /\ call[c].files = <<>> /\ call[c].stage = "none"
      /\ call[c].stability = "none" /\ call[c].busy = <<>>
      /\ call[c].computed = <<>> /\ call[c].edit = {}
  BY <1>5 DEF Idle
<1>7. /\ r.retries = 0 /\ r.generation = 0
      /\ r.files = <<>> /\ r.stage = "none"
      /\ r.stability = "none" /\ r.busy = <<>>
      /\ r.computed = <<>> /\ r.edit = {}
      /\ r.steps = SharedSteps(tool)
  BY <1>1, <1>6 DEF Fields
<1> HIDE DEF r, tool
<1>8. BasicsOK(r)
  BY <1>3, <1>7, ToolsAssumption DEF BasicsOK
<1>9. AskOK(r)
  BY <1>3, <1>7 DEF AskOK
<1>10. RenOK(r, store)
  <2>1. CASE NoRename(r.steps)
    BY <1>7, <2>1, NoRenameOK, NoFilesOK DEF RenOK
  <2>2. CASE r.steps = Renaming
    <3>1. RenameOK(r) /\ ~Asking(r)
      BY <1>7, <2>2, Places DEF RenameOK, Asking
    <3> QED
      BY <1>7, <3>1, NoFilesOK DEF RenOK
  <2> QED
    BY <1>3, <1>7, <2>1, <2>2
<1> QED
  BY <1>4, <1>8, <1>9, <1>10

-----------------------------------------------------------------------------
(* Steps and what is shared                                                *)

LEMMA StoreOfDocumentsGoes ==
  ASSUME Shape, DocumentsOK, [Next]_vars
  PROVE  DocumentsOK' /\ GoesOn
<1>1. ASSUME documents' = documents, disk' \in [Files -> Texts]
      PROVE  DocumentsOK' /\ GoesOn
  BY <1>1 DEF DocumentsOK, GoesOn, Versioned
<1>2. disk \in [Files -> Texts]
  BY DEF DocumentsOK
<1>3. CASE UNCHANGED vars
  BY <1>1, <1>2, <1>3 DEF vars
<1>4. CASE World
  <2>1. documents' = documents
    BY <1>4 DEF World, EditFile, BeginProgress, EndProgress, ReportStatus,
                Report, Crash, Tick, PreviewElsewhere
  <2>2. disk' \in [Files -> Texts]
    BY <1>2, <1>4 DEF World, EditFile, BeginProgress, EndProgress,
                      ReportStatus, Report, Crash, Tick, PreviewElsewhere
  <2> QED
    BY <1>1, <2>1, <2>2
<1>5. ASSUME NEW c \in Callers, NEW f, Enter(c, f)
      PROVE  DocumentsOK' /\ GoesOn
  BY <1>1, <1>2, <1>5 DEF Enter
<1>6. ASSUME NEW c \in Callers, Queries(c)
      PROVE  DocumentsOK' /\ GoesOn
  <2>1. CASE Synchronize(c) \/ SynchronizeRefused(c)
    <3>1. PICK g, f : documents' =
            [documents EXCEPT ![g] =
               [documents[g] EXCEPT ![f] = Synchronized(g, f)]]
      BY <2>1 DEF Synchronize, SynchronizeRefused
    <3>2. disk' = disk
      BY <2>1 DEF Synchronize, SynchronizeRefused
    <3> QED
      BY <3>1, <3>2, StoreSynchronized
  <2>2. CASE ~Synchronize(c) /\ ~SynchronizeRefused(c)
    <3>1. documents' = documents /\ disk' = disk
      BY <1>6, <2>2 DEF Queries, Fail, Attached, Acquire, Start, StartFails,
           Attempt, LookUp, Answer, AnswerRename, Receive, Retry, Expand,
           Qualify, ShowSignatures, Return, Compare, NormalizeFile,
           Normalized, InsertPreview
    <3> QED
      BY <1>1, <1>2, <3>1
  <2> QED
    BY <2>1, <2>2
<1>7. ASSUME NEW c \in Callers, Applies(c)
      PROVE  DocumentsOK' /\ GoesOn
  <2>1. ASSUME NEW f, Resynchronize(c, f) PROVE DocumentsOK' /\ GoesOn
    <3> DEFINE g == call[c].generation
    <3>1. documents' = [documents EXCEPT ![g] =
                          [documents[g] EXCEPT ![f] = Synchronized(g, f)]]
      BY <2>1 DEF Resynchronize
    <3>2. disk' = disk
      BY <2>1 DEF Resynchronize
    <3> QED
      BY <3>1, <3>2, StoreSynchronized
  <2>2. CASE Commit(c)
    <3>1. PICK renamed \in [DOMAIN call[c].files -> Texts] :
            disk' = [f \in Files |-> IF f \in DOMAIN call[c].files
                                       THEN renamed[f] ELSE disk[f]]
      BY <2>2 DEF Commit
    <3>2. disk' \in [Files -> Texts] /\ documents' = documents
      BY <1>2, <2>2, <3>1 DEF Commit
    <3> QED
      BY <1>1, <3>2
  <2>3. CASE CommitFails(c)
    BY <1>1, <2>3 DEF CommitFails
  <2>4. CASE \/ \E id \in 1..made : TakePreview(c, id)
             \/ LookUpDocuments(c) \/ Resynchronized(c)
             \/ ResynchronizeFails(c)
    BY <1>1, <1>2, <2>4 DEF TakePreview, LookUpDocuments, Resynchronized,
                            ResynchronizeFails
  <2> QED
    BY <1>7, <2>1, <2>2, <2>3, <2>4 DEF Applies
<1>8. Next => \/ World
              \/ \E c \in Callers :
                   \/ \E f \in Files \cup {NoFile} : Enter(c, f)
                   \/ Queries(c)
                   \/ Applies(c)
  BY DEF Next, World, Queries, Applies
<1> QED
  BY <1>3, <1>4, <1>5, <1>6, <1>7, <1>8

LEMMA PreviewsGo ==
  ASSUME StoreOK(previews), [Next]_vars,
         \A c \in Callers : FilesOK(call[c].files)
  PROVE  StoreOK(previews')
<1>1. ASSUME NEW c \in Callers, InsertPreview(c)
      PROVE  StoreOK(previews')
  <2> DEFINE files == call[c].files
             p == Preview(files, Cardinality(DOMAIN files))
  <2>1. PreviewOK(p)
    <3>1. FilesOK(files)
      OBVIOUS
    <3>2. Cardinality(DOMAIN files) \in Nat
      BY <3>1, FS_CardinalityType DEF FilesOK
    <3> QED
      BY <3>1, <3>2 DEF Preview, PreviewOK
  <2>2. previews' = Insert(previews, p, clock).store
    BY <1>1 DEF InsertPreview
  <2> QED
    BY <2>1, <2>2, PreviewInserted
<1>2. ASSUME NEW size \in 1..(MaxBytes + 1), PreviewElsewhere(size)
      PROVE  StoreOK(previews')
  <2> DEFINE p == Preview(<<>>, size)
  <2>1. size \in Nat
    BY PreviewsAssumption
  <2>2. PreviewOK(p)
    BY <2>1, NoFilesOK DEF Preview, PreviewOK
  <2>3. previews' = Insert(previews, p, clock).store
    BY <1>2 DEF PreviewElsewhere
  <2> QED
    BY <2>2, <2>3, PreviewInserted
<1>3. ASSUME NEW c \in Callers, NEW id, TakePreview(c, id)
      PROVE  StoreOK(previews')
  BY <1>3, PreviewTaken DEF TakePreview
<1>4. CASE previews' = previews
  BY <1>4
<1>5. CASE World
  BY <1>2, <1>4, <1>5 DEF World, EditFile, BeginProgress, EndProgress,
     ReportStatus, Report, Crash, Tick
<1>6. ASSUME NEW c \in Callers,
             Queries(c) \/ \E f \in Files \cup {NoFile} : Enter(c, f)
      PROVE  StoreOK(previews')
  BY <1>1, <1>4, <1>6
     DEF Queries, Enter, Fail, Attached, Acquire, Start, StartFails,
         Synchronize, SynchronizeRefused, Attempt, LookUp, Answer,
         AnswerRename, Receive, Retry, Expand, Qualify, ShowSignatures,
         Return, Compare, NormalizeFile, Normalized
<1>7. ASSUME NEW c \in Callers, Applies(c)
      PROVE  StoreOK(previews')
  BY <1>3, <1>4, <1>7
     DEF Applies, Commit, CommitFails, LookUpDocuments, Resynchronize,
         Resynchronized, ResynchronizeFails
<1>8. Next => \/ World
              \/ \E c \in Callers :
                   \/ \E f \in Files \cup {NoFile} : Enter(c, f)
                   \/ Queries(c)
                   \/ Applies(c)
  BY DEF Next, World, Queries, Applies
<1> QED
  BY <1>4, <1>5, <1>6, <1>7, <1>8 DEF vars

-----------------------------------------------------------------------------
(* Calls, previews and types: the invariant                                *)

\* Who has the write gate is alone.
GateInv ==
  \A c, d \in Callers :
    c # d /\ call[c].gate = "write" => call[d].gate = "none"

CallsOK ==
  \A c \in Callers :
    BasicsOK(call[c]) /\ AskOK(call[c]) /\ RenOK(call[c], documents)

PInv ==
  /\ GInv
  /\ DocumentsOK
  /\ GateInv
  /\ StoreOK(previews)
  /\ events \in 0..MaxEvents
  /\ CallsOK

LEMMA InitPInv == Init => PInv
<1> SUFFICES ASSUME Init PROVE PInv
  OBVIOUS
<1>1. PICK load \in Loads : call = [c \in Callers |-> Idle(load[c])]
  BY DEF Init
<1>2. \A c \in Callers : call[c] = Idle(load[c]) /\ call[c].gate = "none"
  BY <1>1 DEF Idle
<1>3. CallsOK
  BY <1>2, IdleOK, IdleRenames DEF CallsOK
<1>4. GateInv
  BY <1>2 DEF GateInv
<1>5. DocumentsOK
  BY DEF Init, DocumentsOK, NoDocuments, Versioned
<1>6. StoreOK(previews)
  <2>1. /\ NoPreviews.previews = <<>> /\ NoPreviews.retained = 0
        /\ Len(<<>>) = 0 /\ <<>> \in Seq({})
    BY DEF NoPreviews
  <2>2. Retained(<<>>) = 0
    BY <2>1, RetainedNone
  <2>3. Counts(NoPreviews, {}) /\ Within(NoPreviews)
    BY <2>1, <2>2, PreviewsAssumption DEF Counts, Within
  <2> QED
    BY <2>3, StoreIsOK DEF Init
<1>7. events \in 0..MaxEvents
  BY ToolsAssumption DEF Init
<1> QED
  BY <1>3, <1>4, <1>5, <1>6, <1>7, InitGInv DEF PInv

LEMMA EventsBounded ==
  ASSUME events \in 0..MaxEvents, [Next]_vars
  PROVE  events' \in 0..MaxEvents
<1>1. ASSUME Event PROVE events' \in 0..MaxEvents
  BY <1>1, ToolsAssumption DEF Event
<1>2. CASE events' = events
  BY <1>2
<1>3. CASE World
  BY <1>1, <1>3
     DEF World, EditFile, BeginProgress, EndProgress, ReportStatus, Report,
         Crash, Tick, PreviewElsewhere
<1>4. ASSUME NEW c \in Callers, SynchronizeRefused(c)
      PROVE  events' \in 0..MaxEvents
  BY <1>4, ToolsAssumption DEF SynchronizeRefused
<1>5. ASSUME NEW c \in Callers, CommitFails(c)
      PROVE  events' \in 0..MaxEvents
  <2>1. PICK cost \in {0, 1} :
          events + cost <= MaxEvents /\ events' = events + cost
    BY <1>5 DEF CommitFails
  <2> QED
    BY <2>1, ToolsAssumption
<1>6. ASSUME NEW c \in Callers,
             Queries(c) \/ \E f \in Files \cup {NoFile} : Enter(c, f)
      PROVE  events' \in 0..MaxEvents
  BY <1>2, <1>4, <1>6
     DEF Queries, Enter, Fail, Attached, Acquire, Start, StartFails,
         Synchronize, Attempt, LookUp, Answer, AnswerRename, Receive, Retry,
         Expand, Qualify, ShowSignatures, Return, Compare, NormalizeFile,
         Normalized, InsertPreview, world
<1>7. ASSUME NEW c \in Callers, Applies(c)
      PROVE  events' \in 0..MaxEvents
  BY <1>2, <1>5, <1>7
     DEF Applies, TakePreview, Commit, LookUpDocuments, Resynchronize,
         Resynchronized, ResynchronizeFails, world
<1>8. Next => \/ World
              \/ \E c \in Callers :
                   \/ \E f \in Files \cup {NoFile} : Enter(c, f)
                   \/ Queries(c)
                   \/ Applies(c)
  BY DEF Next, World, Queries, Applies
<1> QED
  BY <1>2, <1>3, <1>6, <1>7, <1>8 DEF vars, world

LEMMA CallStays ==
  ASSUME DocumentsOK, GoesOn, NEW r, BasicsOK(r), RenOK(r, documents)
  PROVE  RenOK(r, documents')
<1>1. ASSUME Asking(r) PROVE Asked(r, documents')
  <2>1. /\ r.edit \subseteq Files /\ Asked(r, documents)
        /\ r.generation \in 0..MaxGenerations
    BY <1>1 DEF RenOK, RenameOK, BasicsOK
  <2> QED
    BY <2>1, AskedStays
<1> QED
  BY <1>1 DEF RenOK

\* A call goes on while the others stay where they are.
LEMMA OneGoes ==
  ASSUME DocumentsOK, GoesOn, CallsOK, NEW c \in Callers,
         BasicsOK(call'[c]), AskOK(call'[c]), RenOK(call'[c], documents'),
         \A d \in Callers \ {c} : call'[d] = call[d]
  PROVE  CallsOK'
<1>1. ASSUME NEW d \in Callers
      PROVE  /\ BasicsOK(call'[d]) /\ AskOK(call'[d])
             /\ RenOK(call'[d], documents')
  <2>1. CASE d = c
    BY <2>1
  <2>2. CASE d # c
    <3>1. /\ call'[d] = call[d]
          /\ BasicsOK(call[d]) /\ AskOK(call[d]) /\ RenOK(call[d], documents)
      BY <2>2 DEF CallsOK
    <3>2. RenOK(call[d], documents')
      BY <3>1, CallStays
    <3> QED
      BY <3>1, <3>2
  <2> QED
    BY <2>1, <2>2
<1> QED
  BY <1>1 DEF CallsOK

LEMMA NoneGoes ==
  ASSUME DocumentsOK, GoesOn, CallsOK, GateInv, call' = call
  PROVE  CallsOK' /\ GateInv'
<1>1. \A c \in Callers : RenOK(call[c], documents')
  BY CallStays DEF CallsOK
<1> QED
  BY <1>1 DEF CallsOK, GateInv

LEMMA NextPInv ==
  ASSUME PInv, [Next]_vars
  PROVE  PInv'
<1>1. /\ GInv /\ Shape /\ DocumentsOK /\ GateInv /\ StoreOK(previews)
      /\ events \in 0..MaxEvents /\ CallsOK
      /\ \A c \in Callers : FilesOK(call[c].files)
  BY DEF PInv, GInv, CallsOK, RenOK
<1>2. GInv'
  BY <1>1, NextKeeps
<1>3. DocumentsOK' /\ GoesOn
  BY <1>1, StoreOfDocumentsGoes
<1>4. StoreOK(previews') /\ events' \in 0..MaxEvents
  BY <1>1, PreviewsGo, EventsBounded
<1>5. ASSUME call' = call PROVE CallsOK' /\ GateInv'
  BY <1>1, <1>3, <1>5, NoneGoes
<1>6. ASSUME NEW c \in Callers, NEW f, Enter(c, f)
      PROVE  CallsOK' /\ GateInv'
  <2>1. BasicsOK(call[c])
    BY <1>1 DEF CallsOK
  <2>2. /\ BasicsOK(call'[c]) /\ AskOK(call'[c])
        /\ RenOK(call'[c], documents')
        /\ \A d \in Callers \ {c} : call'[d] = call[d]
    BY <1>1, <1>6, <2>1, EnterGoes
  <2>3. CallsOK'
    BY <1>1, <1>3, <2>2, OneGoes
  <2>4. /\ call'[c].gate \in {"none", "read", "write"}
        /\ GateFree(call'[c].gate)
    <3> DEFINE tool == Head(call[c].todo)
               gate == IF Has(tool, "gate") THEN "read"
                       ELSE IF Has(tool, "write gate") THEN "write"
                       ELSE "none"
               r == [call[c] EXCEPT !.todo = Tail(call[c].todo),
                       !.gate = gate, !.file = f,
                       !.steps = SharedSteps(tool)]
    <3>1. Set(c, r) /\ GateFree(gate)
      BY <1>6 DEF Enter
    <3>2. r.gate = gate
      BY <1>1 DEF Shape, Fits, Fields
    <3>3. call'[c] = r
      BY <1>1, <3>1 DEF Set, Shape
    <3>4. call'[c].gate = gate /\ gate \in {"none", "read", "write"}
      BY <3>2, <3>3
    <3> HIDE DEF gate
    <3> QED
      BY <3>1, <3>4 DEF GateFree
  <2>5. GateInv'
    BY <1>1, <2>2, <2>4 DEF GateInv, GateFree
  <2> QED
    BY <2>3, <2>5
<1>7. ASSUME NEW c \in Callers, Queries(c) \/ Applies(c)
      PROVE  CallsOK' /\ GateInv'
  <2>1. BasicsOK(call[c]) /\ AskOK(call[c]) /\ RenOK(call[c], documents)
    BY <1>1 DEF CallsOK
  <2>2. BasicsOK(call'[c]) /\ AskOK(call'[c])
    BY <1>1, <1>7, <2>1, StepsAsk DEF RenOK
  <2>3. RenOK(call'[c], documents')
    BY <1>1, <1>3, <1>7, <2>1, CallsGo
  <2>4. \A d \in Callers \ {c} : call'[d] = call[d]
    BY <1>1, <1>7, OthersStay
  <2>5. CallsOK'
    BY <1>1, <1>3, <2>2, <2>3, <2>4, OneGoes
  <2>6. call'[c].gate \in {"none", call[c].gate}
    BY <1>1, <1>7, GatesKept
  <2>7. GateInv'
    BY <1>1, <2>4, <2>6 DEF GateInv
  <2> QED
    BY <2>5, <2>7
<1>8. CallsOK' /\ GateInv'
  <2>1. UNCHANGED vars => call' = call
    BY DEF vars
  <2>2. World => call' = call
    BY DEF World, EditFile, BeginProgress, EndProgress, ReportStatus,
           Report, Crash, Tick, PreviewElsewhere
  <2>3. Next => \/ World
                \/ \E c \in Callers :
                     \/ \E f \in Files \cup {NoFile} : Enter(c, f)
                     \/ Queries(c)
                     \/ Applies(c)
    BY DEF Next, World, Queries, Applies
  <2> QED
    BY <1>5, <1>6, <1>7, <2>1, <2>2, <2>3
<1> QED
  BY <1>2, <1>3, <1>4, <1>8 DEF PInv

-----------------------------------------------------------------------------
(* The theorems about calls and previews                                   *)

\* The reason of the next three holds in every state: a rename goes through
\* its steps in order, and what it has of the server's documents only ages;
\* a query remembers whether the server was seen at work; the store counts
\* what it retains; who applies is alone.
THEOREM CallsGoOn == Spec => []PInv
<1>1. PInv /\ [Next]_vars => PInv'
  BY NextPInv
<1> QED
  BY <1>1, InitPInv, PTL DEF Spec

\* Every file of a preview that the server had open and had been told of is
\* there with the text the server computed its edits from: the comparison of
\* two snapshots with the store and of the store with the disk
\* (normalize_workspace_edit_at_snapshot) is enough, whatever other calls and
\* the rest of the world do in between.
THEOREM PreviewsMatch == Spec => []PreviewMatchesServer
<1>1. PInv => PreviewMatchesServer
  <2>1. Pending = Of(previews)
    BY DEF Pending, Of
  <2> QED
    BY <2>1 DEF PInv, StoreOK, PreviewOK, FilesOK, Agrees,
                PreviewMatchesServer
<1> QED
  BY <1>1, CallsGoOn, PTL

\* A "nothing" that is called stable was the answer of a server that was seen
\* at rest before and after it, or of the last attempt (request_value_until).
THEOREM StableWasSettled == Spec => []StableEmptyWasSettled
<1>1. ASSUME PInv PROVE StableEmptyWasSettled
  <2>1. ASSUME NEW c \in Callers, call[c].stability = "stable",
               call[c].busy # <<>>
        PROVE  \/ call[c].retries = MaxRetries
               \/ ~(call[c].busy[1] \/ call[c].busy[3])
    <3>1. AskOK(call[c])
      BY <1>1 DEF PInv, CallsOK
    <3>2. call[c].steps = <<"return">>
      BY <2>1, <3>1 DEF AskOK
    <3>3. Head(call[c].steps) \notin Requesting
      BY <3>2 DEF Requesting, Recovering
    <3>4. call[c].stage = "none"
      BY <3>1, <3>3 DEF AskOK
    <3> QED
      BY <2>1, <3>1, <3>4 DEF AskOK, Settled
  <2> QED
    BY <2>1 DEF StableEmptyWasSettled
<1> QED
  BY <1>1, CallsGoOn, PTL

\* The state has its type in every reachable state, the store of previews is
\* as full as it says and within its two limits (PreviewStore::insert), and
\* who applies a rename is alone (the write half of the gate).
THEOREM ToolsTyped == Spec => []TypeOK
<1>1. ASSUME PInv PROVE TypeOK
  <2>1. /\ GInv /\ Shape /\ DocumentsOK /\ GateInv /\ StoreOK(previews)
        /\ events \in 0..MaxEvents /\ CallsOK
    BY <1>1 DEF PInv, GInv
  <2>2. behind \subseteq Files
    BY <2>1 DEF GInv, BehindInv
  <2>3. /\ Len(previews.previews) <= MaxPreviews
        /\ previews.retained = Retained(previews.previews)
        /\ previews.retained <= MaxBytes
    BY <2>1 DEF StoreOK, Counts, Within
  <2>4. \A g \in 0..MaxGenerations, f \in Files :
          documents[g][f] = Untracked \/ documents[g][f].text \in Texts
    BY <2>1 DEF DocumentsOK, Versioned
  <2>5. \A c \in Callers :
          /\ call[c].retries \in 0..MaxRetries
          /\ call[c].gate = "write" =>
               \A other \in Callers \ {c} : call[other].gate = "none"
    BY <2>1 DEF CallsOK, BasicsOK, GateInv
  <2> QED
    BY <2>1, <2>2, <2>3, <2>4, <2>5 DEF TypeOK, Shape, DocumentsOK
<1> QED
  BY <1>1, CallsGoOn, PTL

-----------------------------------------------------------------------------
(* How previews leave the store                                            *)

Counted == made \in Nat
LastingStep ==
  /\ \A p \in GoneFresh : Applied(p) \/ (Inserted /\ Crowded(p))
  /\ Cardinality(GoneFresh) <= 1 \/ Inserted

LEMMA FewGone ==
  ASSUME NEW p, GoneFresh \subseteq {p}
  PROVE  Cardinality(GoneFresh) <= 1
<1>1. IsFiniteSet({p}) /\ Cardinality({p}) = 1
  BY FS_Singleton
<1> QED
  BY <1>1, FS_Subset

LEMMA NoneGone ==
  ASSUME previews' = previews
  PROVE  LastingStep
<1>1. GoneFresh = {}
  BY DEF GoneFresh, Pending
<1>2. Cardinality(GoneFresh) <= 1
  BY <1>1, FewGone
<1> QED
  BY <1>1, <1>2 DEF LastingStep

LEMMA StoreSized ==
  ASSUME NEW store, StoreOK(store)
  PROVE  /\ Counts(store, Of(store)) /\ Within(store)
         /\ \A p \in Of(store) : p.size \in Nat
  BY DEF StoreOK, PreviewOK

LEMMA InsertLasts ==
  ASSUME StoreOK(previews), Counted, NEW p, PreviewOK(p), p.id = made + 1,
         previews' = Insert(previews, p, clock).store, made' = made + 1
  PROVE  LastingStep
<1> DEFINE S == Of(previews) \cup {p}
           s == previews.previews
           after == Insert(previews, p, clock).store.previews
           inserted == p.size <= MaxBytes
<1>1. /\ inserted => \E m \in DOMAIN after : after[m] = p
      /\ \A i \in DOMAIN s :
           \/ Expired(s[i], clock)
           \/ \E m \in DOMAIN after : after[m] = s[i]
           \/ inserted /\ CrowdedOut(s, i, p)
  <2>1. \A q \in S : q.size \in Nat
    BY StoreSized DEF PreviewOK
  <2>2. Counts(previews, S) /\ Within(previews)
    <3>1. Of(previews) \subseteq S
      OBVIOUS
    <3> QED
      BY <3>1, StoreSized DEF Counts
  <2>3. p \in S
    OBVIOUS
  <2> HIDE DEF S
  <2> QED
    BY <2>1, <2>2, <2>3, InsertDrops
<1>2. Pending' = {after[m] : m \in DOMAIN after}
  BY DEF Pending
<1>3. made' # made
  BY DEF Counted
<1> HIDE DEF after, inserted
<1>4. inserted => p \in Pending' /\ Inserted
  BY <1>1, <1>2, <1>3 DEF Inserted
<1>5. ASSUME NEW q \in GoneFresh
      PROVE  inserted /\ Crowded(q)
  <2>1. q \in Pending /\ q \notin Pending' /\ ~Expired(q, clock)
    BY <1>5 DEF GoneFresh
  <2>2. PICK i \in DOMAIN s : s[i] = q
    BY <2>1 DEF Pending
  <2>3. ~\E m \in DOMAIN after : after[m] = s[i]
    BY <1>2, <2>1, <2>2
  <2>4. inserted /\ CrowdedOut(s, i, p)
    BY <1>1, <2>1, <2>2, <2>3
  <2> QED
    BY <1>4, <2>2, <2>4 DEF Crowded
<1>6. CASE inserted
  BY <1>4, <1>5, <1>6 DEF LastingStep
<1>7. CASE ~inserted
  <2>1. GoneFresh = {}
    BY <1>5, <1>7
  <2>2. Cardinality(GoneFresh) <= 1
    BY <2>1, FewGone
  <2> QED
    BY <2>1, <2>2 DEF LastingStep
<1> QED
  BY <1>6, <1>7

LEMMA TakeApplies ==
  ASSUME Shape, NEW c \in Callers, NEW id, TakePreview(c, id),
         Take(previews, id, clock).preview # <<>>
  PROVE  /\ At(c, "take") /\ At(c, "commit")'
         /\ call'[c].files = Take(previews, id, clock).preview[1].files
<1>1. /\ DOMAIN call[c] = Fields
      /\ Inside(c) /\ Head(call[c].steps) = "take"
      /\ Head(call[c].steps) \in ApplySteps
  BY DEF Shape, Fits, TakePreview, At, ApplySteps
<1>2. call[c].steps \in Applications
  BY <1>1, GateOfStep DEF Shape, Fits
<1>3. Tail(call[c].steps) = <<"commit", "documents", "resynchronize">>
  BY <1>1, <1>2, ApplicationTails
<1> DEFINE files == Take(previews, id, clock).preview[1].files
           r == [call[c] EXCEPT !.files = files]
<1>4. Goto(c, r)
  BY DEF TakePreview
<1>5. DOMAIN r = Fields /\ r.steps = call[c].steps /\ r.files = files
      /\ r.stage = call[c].stage
  BY <1>1 DEF Fields
<1>6. call'[c] = Become(c, r)
  BY <1>4, Moved DEF Shape
<1> HIDE DEF files, r
<1>7. call'[c].steps = <<"commit", "documents", "resynchronize">>
      /\ call'[c].files = files
  <2>1. Tail(r.steps) = <<"commit", "documents", "resynchronize">>
    BY <1>3, <1>5
  <2>2. Tail(r.steps) # <<>>
    BY <2>1
  <2>3. DOMAIN r = Fields /\ r.files = files
    BY <1>5
  <2>4. call'[c].steps = Tail(r.steps) /\ call'[c].files = r.files
    BY <1>6, <2>2, <2>3, BecomeFields
  <2> QED
    BY <2>1, <2>3, <2>4
<1>8. At(c, "commit")'
  BY <1>7 DEF At, Inside
<1> QED
  BY <1>7, <1>8 DEF TakePreview, files

LEMMA TakeLasts ==
  ASSUME Shape, StoreOK(previews),
         NEW c \in Callers, NEW id, TakePreview(c, id)
  PROVE  LastingStep
<1> DEFINE s == previews.previews
           taken == Take(previews, id, clock)
           after == taken.store.previews
<1>1. \A i \in DOMAIN s : \/ Expired(s[i], clock)
                          \/ \E m \in DOMAIN after : after[m] = s[i]
                          \/ taken.preview = <<s[i]>>
  BY StoreSized, TakeDrops
<1>2. Pending' = {after[m] : m \in DOMAIN after}
  BY DEF Pending, TakePreview
<1> HIDE DEF after, taken
<1>3. ASSUME NEW p \in GoneFresh
      PROVE  taken.preview = <<p>>
  <2>1. p \in Pending /\ p \notin Pending' /\ ~Expired(p, clock)
    BY <1>3 DEF GoneFresh
  <2>2. PICK i \in DOMAIN s : s[i] = p
    BY <2>1 DEF Pending
  <2> QED
    BY <1>1, <1>2, <2>1, <2>2
<1>4. GoneFresh \subseteq {taken.preview[1]}
  BY <1>3
<1>5. ASSUME NEW p \in GoneFresh PROVE Applied(p)
  <2>1. taken.preview = <<p>>
    BY <1>3
  <2>2. taken.preview # <<>> /\ taken.preview[1] = p
    BY <2>1
  <2> QED
    BY <2>2, TakeApplies DEF Applied, taken
<1> QED
  BY <1>4, <1>5, FewGone DEF LastingStep

LEMMA PreviewsStay ==
  ASSUME Shape, StoreOK(previews), Counted, [Next]_vars,
         \A c \in Callers : FilesOK(call[c].files)
  PROVE  LastingStep /\ Counted'
<1>1. ASSUME NEW c \in Callers, InsertPreview(c)
      PROVE  LastingStep /\ Counted'
  <2> DEFINE files == call[c].files
             p == Preview(files, Cardinality(DOMAIN files))
  <2>1. PreviewOK(p) /\ p.id = made + 1
    <3>1. FilesOK(files)
      OBVIOUS
    <3>2. Cardinality(DOMAIN files) \in Nat
      BY <3>1, FS_CardinalityType DEF FilesOK
    <3> QED
      BY <3>1, <3>2 DEF Preview, PreviewOK
  <2>2. previews' = Insert(previews, p, clock).store /\ made' = made + 1
    BY <1>1 DEF InsertPreview
  <2> HIDE DEF p
  <2> QED
    BY <2>1, <2>2, InsertLasts DEF Counted
<1>2. ASSUME NEW size \in 1..(MaxBytes + 1), PreviewElsewhere(size)
      PROVE  LastingStep /\ Counted'
  <2> DEFINE p == Preview(<<>>, size)
  <2>1. size \in Nat
    BY PreviewsAssumption
  <2>2. PreviewOK(p) /\ p.id = made + 1
    BY <2>1, NoFilesOK DEF Preview, PreviewOK
  <2>3. previews' = Insert(previews, p, clock).store /\ made' = made + 1
    BY <1>2 DEF PreviewElsewhere
  <2> HIDE DEF p
  <2> QED
    BY <2>2, <2>3, InsertLasts DEF Counted
<1>3. ASSUME NEW c \in Callers, NEW id, TakePreview(c, id)
      PROVE  LastingStep /\ Counted'
  BY <1>3, TakeLasts DEF TakePreview, Counted
<1>4. CASE previews' = previews /\ made' = made
  BY <1>4, NoneGone DEF Counted
<1>5. CASE World
  BY <1>2, <1>4, <1>5 DEF World, EditFile, BeginProgress, EndProgress,
     ReportStatus, Report, Crash, Tick
<1>6. ASSUME NEW c \in Callers,
             Queries(c) \/ \E f \in Files \cup {NoFile} : Enter(c, f)
      PROVE  LastingStep /\ Counted'
  BY <1>1, <1>4, <1>6
     DEF Queries, Enter, Fail, Attached, Acquire, Start, StartFails,
         Synchronize, SynchronizeRefused, Attempt, LookUp, Answer,
         AnswerRename, Receive, Retry, Expand, Qualify, ShowSignatures,
         Return, Compare, NormalizeFile, Normalized
<1>7. ASSUME NEW c \in Callers, Applies(c)
      PROVE  LastingStep /\ Counted'
  BY <1>3, <1>4, <1>7
     DEF Applies, Commit, CommitFails, LookUpDocuments, Resynchronize,
         Resynchronized, ResynchronizeFails
<1>8. Next => \/ World
              \/ \E c \in Callers :
                   \/ \E f \in Files \cup {NoFile} : Enter(c, f)
                   \/ Queries(c)
                   \/ Applies(c)
  BY DEF Next, World, Queries, Applies
<1> QED
  BY <1>4, <1>5, <1>6, <1>7, <1>8 DEF vars

\* A preview leaves the store when it is too old, when it is applied, alone, or
\* when a newer one that stays would not have fitted beside it and what came
\* after it (PreviewStore::insert and take), whatever the limits and sizes.
THEOREM PreviewsLast == Spec => PreviewsLastUntilUsed
<1>1. Init => Counted
  BY DEF Init, Counted
<1>2. PInv /\ Counted /\ [Next]_vars => Counted' /\ [LastingStep]_vars
  <2>1. PInv => /\ Shape /\ StoreOK(previews)
                /\ \A c \in Callers : FilesOK(call[c].files)
    BY DEF PInv, GInv, CallsOK, RenOK
  <2> QED
    BY <2>1, PreviewsStay
<1>3. [][LastingStep]_vars => PreviewsLastUntilUsed
  BY PTL DEF LastingStep, PreviewsLastUntilUsed
<1> QED
  BY <1>1, <1>2, <1>3, CallsGoOn, PTL DEF Spec
=============================================================================
