------------------------------- MODULE Tools --------------------------------
(***************************************************************************)
(* The tools of src/src/mcp.rs at work on one configured server: calls     *)
(* that share the workspace gate, the server's documents, its readiness    *)
(* and the previews of renames.                                            *)
(*                                                                         *)
(* A tool is the list of the steps its handler takes.  A step that touches *)
(* shared state is an action; of the others only that they may end the     *)
(* call matters (Fail).  Startup is one step here (Lifecycle has it in     *)
(* full), so are the sending of a request (Requests), the synchronization  *)
(* of a document (Documents) and the file transaction (EditContract).      *)
(***************************************************************************)
EXTENDS Naturals, Sequences, FiniteSets, Previews, Readiness

CONSTANTS
  Callers,
  Loads,           \* the tools the callers call, each in its order
  Files,
  Texts,           \* what a file may hold
  Tokens,          \* of work done progress
  Healths,         \* that the server reports
  MaxRetries,      \* MAX_REQUEST_RETRIES
  MaxGenerations,  \* bound of the server's starts
  MaxEvents        \* bound of what the rest of the world does

ASSUME ToolsAssumption ==
  /\ MaxRetries \in Nat
  /\ MaxGenerations \in Nat
  /\ MaxEvents \in Nat

-----------------------------------------------------------------------------
(* What the handlers do, in order                                          *)

\* Of LazyLanguageServer, in src/src/lsp.rs.
ForPosition == <<"resolve", "acquire", "capability", "synchronize",
                 "position">>
Hover == ForPosition \o <<"query", "convert">>
SignatureHelp == ForPosition \o <<"query", "convert">>
LocationRequest == ForPosition \o <<"query", "convert">>
References == ForPosition \o <<"query", "convert">>
CallHierarchy == ForPosition \o <<"query", "expand", "convert">>
PrepareRename == ForPosition \o <<"request", "convert">>
Rename == ForPosition \o <<"request", "compare", "normalize">>
DocumentSymbols == <<"resolve", "acquire", "capability", "synchronize",
                     "query", "convert">>
DocumentDiagnostics == <<"resolve", "acquire", "synchronize", "pull",
                         "convert">>
WorkspaceSymbols == <<"acquire", "capability", "search", "convert">>

\* Of DeixisServer, in src/src/mcp.rs: the prologue is the same wherever a
\* file is named, and an empty result is qualified.
Prologue == <<"arguments", "gate", "configured", "resolve", "route">>
CallHover == Prologue \o Hover \o <<"qualify">>
CallSignatureHelp == Prologue \o SignatureHelp \o <<"qualify null">>
CallLocation == Prologue \o LocationRequest \o <<"qualify">>
CallReferences == Prologue \o References \o <<"qualify", "page">>
CallDiagnostics == Prologue \o DocumentDiagnostics \o <<"qualify">>
CallDocumentSymbols == Prologue \o DocumentSymbols \o <<"qualify", "page">>
CallCallHierarchy == Prologue \o CallHierarchy \o <<"qualify", "page">>
CallPrepareRename == Prologue \o PrepareRename \o <<"qualify">>
CallPreviewRename == Prologue \o Rename \o <<"qualify", "insert">>
CallWorkspaceSymbols == <<"arguments", "gate", "configured", "attached">>
                          \o WorkspaceSymbols \o <<"merge", "page">>
CallApplyRename == <<"arguments", "write gate", "take", "commit",
                     "documents", "resynchronize">>
CallServerStatus == <<"arguments", "configured", "acquire", "status">>

\* call_tool; deixis_apply_rename is there with --allow-mutation alone.
Program == [
  hover |-> CallHover, signature |-> CallSignatureHelp,
  location |-> CallLocation, references |-> CallReferences,
  diagnostics |-> CallDiagnostics, documentSymbols |-> CallDocumentSymbols,
  hierarchy |-> CallCallHierarchy, prepareRename |-> CallPrepareRename,
  previewRename |-> CallPreviewRename, applyRename |-> CallApplyRename,
  workspaceSymbols |-> CallWorkspaceSymbols, status |-> CallServerStatus]

ASSUME LoadsAssumption ==
  \A load \in Loads : load \in [Callers -> Seq(DOMAIN Program)]

\* Steps that touch nothing others see, and the gates, which entering takes.
LocalSteps == {"arguments", "configured", "resolve", "route", "capability",
               "position", "convert", "merge", "page", "status", "gate",
               "write gate"}
SharedSteps(tool) ==
  SelectSeq(Program[tool], LAMBDA step : step \notin LocalSteps)
Has(tool, step) == \E i \in DOMAIN Program[tool] : Program[tool][i] = step

Recovering == {"query", "search"}
Requesting == Recovering \cup {"request", "pull"}

\* The steps of a rename that is being applied, behind the write gate.
Applying == <<"take", "commit", "documents", "resynchronize">>
ApplySteps == {"take", "commit", "documents", "resynchronize"}
QuerySteps ==
  ({"return"} \cup Requesting
    \cup UNION {{Program[tool][i] : i \in DOMAIN Program[tool]} :
                  tool \in DOMAIN Program}) \ ApplySteps

\* No other tool has them, and applying is nothing else.
ASSUME ApplyingAssumption ==
  \A tool \in DOMAIN Program :
    IF Has(tool, "write gate") THEN SharedSteps(tool) = Applying
    ELSE SharedSteps(tool) \in Seq(QuerySteps)

\* Every call does something that others see; it asks once, and what it may
\* ask again comes before.
Straight(steps) ==
  \A i, j \in DOMAIN steps :
    i < j /\ steps[i] \in Requesting \cup {"expand"}
      => steps[j] \notin Requesting
ASSUME AskingAssumption ==
  \A tool \in DOMAIN Program :
    SharedSteps(tool) # <<>> /\ Straight(SharedSteps(tool))

\* What is previewed is made in this order, and by no other tool.
Renaming == <<"acquire", "synchronize", "request", "compare", "normalize",
              "qualify", "insert">>
RenameSteps == {"compare", "normalize", "insert"}
ASSUME RenamingAssumption ==
  \A tool \in DOMAIN Program :
    IF Has(tool, "normalize") THEN SharedSteps(tool) = Renaming
    ELSE \A i \in DOMAIN SharedSteps(tool) :
           SharedSteps(tool)[i] \notin RenameSteps

\* A tool takes one gate at most.
ASSUME GatesAssumption ==
  \A tool \in DOMAIN Program :
    ~(Has(tool, "gate") /\ Has(tool, "write gate"))

-----------------------------------------------------------------------------
VARIABLES
  disk,        \* the text of each file
  server,      \* the newest generation, and whether it runs
  documents,   \* of each generation, 0 for none: the documents it has open
  readiness,   \* of each generation: its tracker
  previews,    \* DeixisServer.previews
  clock,
  call,        \* what each caller is in the middle of
  events,      \* how much the rest of the world has done
  made,        \* the number of previews so far, for their ids
  missed,      \* history: documents whose notification was refused
  behind       \* history: documents a rename wrote and did not announce

world == <<clock, events, missed>>
vars == <<disk, server, documents, readiness, previews, call, made, behind,
          world>>

NoFile == "none"
Unknown == "unknown"
Untracked == [version |-> 0]
Document(version, text) == [version |-> version, text |-> text]
NoDocuments == [f \in Files |-> Untracked]

Idle(todo) == [
  todo |-> todo,             \* the tools it has still to call
  steps |-> <<>>,            \* what remains of the handler
  gate |-> "none",
  generation |-> 0,          \* of `active`
  file |-> NoFile,
  snapshots |-> NoDocuments, \* the documents as of the synchronization
  stage |-> "none",          \* of a request
  retries |-> 0,
  wasBusy |-> FALSE,
  reply |-> "none",
  computed |-> <<>>,         \* history: the texts a rename was computed from
  busy |-> <<>>,             \* history: was the server, as the request was
                             \* sent, as it answered, as that was received
  edit |-> {},               \* files of a workspace edit to normalize
  files |-> <<>>,            \* its files so far: the preview's
  stability |-> "none"]

Init ==
  /\ disk \in [Files -> Texts]
  /\ server = [generation |-> 0, state |-> "none"]
  /\ documents = [g \in 0..MaxGenerations |-> NoDocuments]
  /\ readiness = [g \in 0..MaxGenerations |-> NewTracker]
  /\ previews = NoPreviews
  /\ clock = 0
  /\ \E load \in Loads : call = [c \in Callers |-> Idle(load[c])]
  /\ events = 0
  /\ made = 0
  /\ missed = {}
  /\ behind = {}

Inside(c) == call[c].steps # <<>>
At(c, step) == Inside(c) /\ Head(call[c].steps) = step
Set(c, record) == call' = [call EXCEPT ![c] = record]
Finish(c) == Set(c, Idle(call[c].todo))
Goto(c, record) ==
  LET rest == Tail(record.steps) IN
  IF rest = <<>> THEN Finish(c)
  ELSE Set(c, [record EXCEPT !.steps = rest, !.stage =
                 IF Head(rest) \in Requesting THEN "attempt" ELSE "none"])

Tracked(g, f) == documents[g][f] # Untracked
Busy(g) == State(readiness[g]) = "Busy"

-----------------------------------------------------------------------------
(* Entering and leaving                                                    *)

GateFree(kind) ==
  \A c \in Callers :
    /\ kind # "none" => call[c].gate # "write"
    /\ kind = "write" => call[c].gate = "none"

Enter(c, f) ==
  LET tool == Head(call[c].todo)
      gate == IF Has(tool, "gate") THEN "read"
              ELSE IF Has(tool, "write gate") THEN "write" ELSE "none"
  IN /\ ~Inside(c) /\ call[c].todo # <<>>
     /\ f = NoFile <=> ~Has(tool, "resolve")
     /\ GateFree(gate)
     /\ Set(c, [call[c] EXCEPT !.todo = Tail(@), !.gate = gate, !.file = f,
                               !.steps = SharedSteps(tool)])
     /\ UNCHANGED <<disk, server, documents, readiness, previews, made,
                    behind, world>>

\* Any step but those of a rename that is being applied may end the call with
\* an error, at the latest when it is canceled; the gate is released.
Fail(c) ==
  /\ Inside(c)
  /\ Head(call[c].steps) \notin ApplySteps
  /\ Finish(c)
  /\ UNCHANGED <<disk, server, documents, readiness, previews, made, behind,
                 world>>

-----------------------------------------------------------------------------
(* The server and its documents                                            *)

\* deixis_workspace_symbols asks the server that it is given the name of, or
\* else those that have documents.
Attached(c) ==
  /\ At(c, "attached")
  /\ \/ Goto(c, call[c])
     \/ /\ server.state = "none"
             \/ \A f \in Files : ~Tracked(server.generation, f)
        /\ Finish(c)
  /\ UNCHANGED <<disk, server, documents, readiness, previews, made, behind,
                 world>>

\* active_server_with_cancellation; readiness is as initialized.
Acquire(c) ==
  /\ At(c, "acquire")
  /\ server.state = "up"
  /\ Goto(c, [call[c] EXCEPT !.generation = server.generation])
  /\ UNCHANGED <<disk, server, documents, readiness, previews, made, behind,
                 world>>

Start(c) ==
  LET g == server.generation + 1 IN
  /\ At(c, "acquire")
  /\ server.state # "up" /\ g <= MaxGenerations
  /\ server' = [generation |-> g, state |-> "up"]
  /\ readiness' = [readiness EXCEPT ![g] = MarkInitialized(@)]
  /\ behind' = {}
  /\ Goto(c, [call[c] EXCEPT !.generation = g])
  /\ UNCHANGED <<disk, documents, previews, made, world>>

\* A failed generation is retired, and no other comes.
StartFails(c) ==
  /\ At(c, "acquire")
  /\ server.state # "up"
  /\ server' = [server EXCEPT !.state = "none"]
  /\ behind' = {}
  /\ Finish(c)
  /\ UNCHANGED <<disk, documents, readiness, previews, made, world>>

\* The store after a synchronization of f, and whether the server is told.
Synchronized(g, f) ==
  LET document == documents[g][f] IN
  CASE document = Untracked -> Document(1, disk[f])
    [] document # Untracked /\ document.text = disk[f] -> document
    [] OTHER -> Document(document.version + 1, disk[f])

\* Only a rename keeps what the server knew of the other files.
Renames(c) == \E i \in DOMAIN call[c].steps : call[c].steps[i] = "normalize"

Synchronize(c) ==
  LET g == call[c].generation
      f == call[c].file
      synchronized == [documents[g] EXCEPT ![f] = Synchronized(g, f)]
  IN /\ At(c, "synchronize")
     /\ documents' = [documents EXCEPT ![g] = synchronized]
     /\ Goto(c, [call[c] EXCEPT !.snapshots =
                   IF Renames(c) THEN synchronized
                   ELSE [NoDocuments EXCEPT ![f] = synchronized[f]]])
     /\ UNCHANGED <<disk, server, readiness, previews, made, behind, world>>

\* The outbound queue is full: the store keeps what the server is not told.
SynchronizeRefused(c) ==
  LET g == call[c].generation
      f == call[c].file
  IN /\ At(c, "synchronize")
     /\ events < MaxEvents /\ events' = events + 1
     /\ Synchronized(g, f) # documents[g][f]
     /\ documents' = [documents EXCEPT ![g][f] = Synchronized(g, f)]
     /\ missed' = missed \cup {<<g, f>>}
     /\ Finish(c)
     /\ UNCHANGED <<disk, server, readiness, previews, made, behind, clock>>

-----------------------------------------------------------------------------
(* Requests                                                                *)

InRequest(c, stage) ==
  /\ Inside(c) /\ Head(call[c].steps) \in Requesting
  /\ call[c].stage = stage
Recovers(c) == Head(call[c].steps) \in Recovering

\* request_value_until: readiness is read before the request is sent.
Sent(c, wasBusy) ==
  [call[c] EXCEPT !.stage = "sent", !.wasBusy = wasBusy,
                  !.busy = <<Busy(call[c].generation)>>]

\* The mutant that looks at the readiness only once the answer is there.
AttemptUnseen(c) ==
  /\ InRequest(c, "attempt")
  /\ Set(c, Sent(c, FALSE))
  /\ UNCHANGED <<disk, server, documents, readiness, previews, made, behind,
                 world>>

Attempt(c) ==
  /\ InRequest(c, "attempt")
  /\ Set(c, Sent(c, Recovers(c) /\ Busy(call[c].generation)))
  /\ UNCHANGED <<disk, server, documents, readiness, previews, made, behind,
                 world>>

\* Diagnostics of a server that only pushes are looked up.
LookUp(c, reply) ==
  /\ InRequest(c, "attempt") /\ At(c, "pull")
  /\ Goto(c, [call[c] EXCEPT !.reply = reply])
  /\ UNCHANGED <<disk, server, documents, readiness, previews, made, behind,
                 world>>

\* The server answers: with something, with nothing, or that it gave up.
Answer(c, reply) ==
  LET g == call[c].generation IN
  /\ InRequest(c, "sent")
  /\ server = [generation |-> g, state |-> "up"]
  /\ ~(Renames(c) /\ reply = "items")
  /\ Set(c, [call[c] EXCEPT !.stage = "answered", !.reply = reply,
                            !.busy = Append(@, Busy(g))])
  /\ UNCHANGED <<disk, server, documents, readiness, previews, made, behind,
                 world>>

\* A workspace edit, computed from the documents that the server has open and
\* from files that it has read at some time.
AnswerRename(c, edit) ==
  LET g == call[c].generation
      open == {f \in edit : Tracked(g, f) /\ <<g, f>> \notin missed}
  IN
  /\ InRequest(c, "sent") /\ Renames(c)
  /\ server = [generation |-> g, state |-> "up"]
  /\ Set(c, [call[c] EXCEPT !.stage = "answered", !.reply = "items",
               !.edit = edit,
               !.computed = [f \in open |-> documents[g][f].text]])
  /\ UNCHANGED <<disk, server, documents, readiness, previews, made, behind,
                 world>>

\* Nothing, from a server that was at work: the answer may come yet.
EmptyWhileBusy(c) ==
  /\ Recovers(c) /\ call[c].reply = "empty"
  /\ call[c].wasBusy \/ Busy(call[c].generation)

\* The answer is taken, or the request waits to be made again.
Receive(c) ==
  LET again == call[c].reply = "gave up" \/ EmptyWhileBusy(c)
      last == call[c].retries = MaxRetries
      busy == Append(call[c].busy, Busy(call[c].generation))
  IN /\ InRequest(c, "answered")
     /\ ~(last /\ call[c].reply = "gave up")
     /\ IF again /\ ~last
          THEN Set(c, [call[c] EXCEPT !.stage = "waiting", !.busy = <<>>])
          ELSE Goto(c, [call[c] EXCEPT !.wasBusy = FALSE, !.busy =
                          IF Recovers(c) /\ call[c].reply = "empty"
                            THEN busy ELSE <<>>])
     /\ UNCHANGED <<disk, server, documents, readiness, previews, made,
                    behind, world>>

\* Who got nothing waits for a server at rest, and a query for its very
\* document: what is not so in time ends the call.
Retry(c) ==
  LET g == call[c].generation
      f == call[c].file
  IN /\ InRequest(c, "waiting")
     /\ call[c].reply = "empty" => State(readiness[g]) \in {"Ready", "Unknown"}
     /\ At(c, "query") => /\ documents[g][f] = call[c].snapshots[f]
                          /\ disk[f] = call[c].snapshots[f].text
     /\ Set(c, [Sent(c, Recovers(c) /\ Busy(g)) EXCEPT
                  !.retries = @ + 1, !.reply = "none"])
     /\ UNCHANGED <<disk, server, documents, readiness, previews, made,
                    behind, world>>

\* Each item that was prepared is asked for its calls; one is enough here.
Expand(c) ==
  /\ At(c, "expand")
  /\ IF call[c].reply = "empty" THEN Goto(c, call[c])
     ELSE Set(c, [call[c] EXCEPT !.stage = "attempt", !.reply = "none",
                    !.retries = 0, !.steps = <<"request">> \o Tail(@)])
  /\ UNCHANGED <<disk, server, documents, readiness, previews, made, behind,
                 world>>

\* status(), of whatever generation there is by now: what an empty result is
\* worth.  Any other result goes its way.
Qualify(c) ==
  /\ At(c, "qualify") \/ At(c, "qualify null")
  /\ IF call[c].reply = "empty"
       THEN Set(c, [call[c] EXCEPT !.steps = <<"return">>, !.stability =
              ResultStability(IF server.state = "none" THEN "NotStarted"
                              ELSE State(readiness[server.generation]))])
       ELSE Goto(c, call[c])
  /\ UNCHANGED <<disk, server, documents, readiness, previews, made, behind,
                 world>>

\* A list of no signatures is empty and not null: it is shown as it is.
ShowSignatures(c) ==
  /\ At(c, "qualify null")
  /\ Goto(c, call[c])
  /\ UNCHANGED <<disk, server, documents, readiness, previews, made, behind,
                 world>>

Return(c) ==
  /\ At(c, "return")
  /\ Finish(c)
  /\ UNCHANGED <<disk, server, documents, readiness, previews, made, behind,
                 world>>

-----------------------------------------------------------------------------
(* Renames                                                                 *)

\* The mutant that does not look at what the store holds by now.
CompareNothing(c) ==
  /\ At(c, "compare")
  /\ Goto(c, call[c])
  /\ UNCHANGED <<disk, server, documents, readiness, previews, made, behind,
                 world>>

\* normalize_workspace_edit_at_snapshot: of the files that are edited the store
\* must hold what it held when the server was asked; that is looked up once.
Compare(c) ==
  /\ At(c, "compare")
  /\ \A f \in call[c].edit :
       call[c].snapshots[f] = documents[call[c].generation][f]
  /\ Goto(c, call[c])
  /\ UNCHANGED <<disk, server, documents, readiness, previews, made, behind,
                 world>>

\* The disk must have the text of that document.  An edit for another version
\* fails like one that does not fit the text (Fail).
NormalizeFile(c, f) ==
  /\ At(c, "normalize")
  /\ f \in call[c].edit
  /\ LET tracked == call[c].snapshots[f]
     IN tracked # Untracked => tracked.text = disk[f]
  /\ Set(c, [call[c] EXCEPT
       !.edit = @ \ {f},
       !.files = [file \in DOMAIN @ \cup {f} |->
         IF file # f THEN @[file]
         ELSE [before |-> disk[f],
               computed |-> IF f \in DOMAIN call[c].computed
                              THEN call[c].computed[f] ELSE Unknown]]])
  /\ UNCHANGED <<disk, server, documents, readiness, previews, made, behind,
                 world>>

\* A workspace edit without text edits is an empty result.
Normalized(c) ==
  /\ At(c, "normalize")
  /\ call[c].edit = {}
  /\ Goto(c, [call[c] EXCEPT
       !.reply = IF call[c].files = <<>> THEN "empty" ELSE "items",
       !.computed = <<>>, !.snapshots = NoDocuments])
  /\ UNCHANGED <<disk, server, documents, readiness, previews, made, behind,
                 world>>

\* A preview retains a byte for each of its files.
Preview(files, size) ==
  [id |-> made + 1, created |-> clock, size |-> size, files |-> files]

InsertPreview(c) ==
  /\ At(c, "insert")
  /\ previews' = Insert(previews, Preview(call[c].files,
                          Cardinality(DOMAIN call[c].files)), clock).store
  /\ made' = made + 1
  /\ Finish(c)
  /\ UNCHANGED <<disk, server, documents, readiness, behind, world>>

TakePreview(c, id) ==
  LET taken == Take(previews, id, clock) IN
  /\ At(c, "take")
  /\ previews' = taken.store
  /\ IF taken.preview = <<>> THEN Finish(c)
     ELSE Goto(c, [call[c] EXCEPT !.files = taken.preview[1].files])
  /\ UNCHANGED <<disk, server, documents, readiness, made, behind, world>>

\* apply_rename_preview: every file as it was previewed becomes another text.
Commit(c) ==
  LET files == DOMAIN call[c].files IN
  /\ At(c, "commit")
  /\ \A f \in files : disk[f] = call[c].files[f].before
  /\ \E renamed \in [files -> Texts] :
       /\ \A f \in files : renamed[f] # disk[f]
       /\ disk' = [f \in Files |-> IF f \in files THEN renamed[f]
                                   ELSE disk[f]]
  /\ behind' = {f \in Files : /\ f \in files
                              /\ server.state # "none"
                              /\ Tracked(server.generation, f)}
  /\ Goto(c, [call[c] EXCEPT !.edit = files, !.files = <<>>])
  /\ UNCHANGED <<server, documents, readiness, previews, made, world>>

\* It fails and leaves the files alone, but for those that it could not
\* restore; the server is told in neither case.
CommitFails(c) ==
  /\ At(c, "commit")
  /\ \E torn \in SUBSET DOMAIN call[c].files :
       disk' \in {d \in [Files -> Texts] :
                    \A f \in Files \ torn : d[f] = disk[f]}
  /\ events + (IF disk' = disk THEN 0 ELSE 1) <= MaxEvents
  /\ events' = events + (IF disk' = disk THEN 0 ELSE 1)
  /\ Finish(c)
  /\ UNCHANGED <<server, documents, readiness, previews, made, behind, clock,
                 missed>>

\* resynchronize_after_workspace_edit: of the files that were written, those
\* that the server there is by now has open.
LookUpDocuments(c) ==
  LET g == server.generation IN
  /\ At(c, "documents")
  /\ Goto(c, [call[c] EXCEPT !.generation = g, !.edit =
                {f \in @ : server.state # "none" /\ Tracked(g, f)}])
  /\ UNCHANGED <<disk, server, documents, readiness, previews, made, behind,
                 world>>

Resynchronize(c, f) ==
  LET g == call[c].generation IN
  /\ At(c, "resynchronize")
  /\ f \in call[c].edit
  /\ documents' = [documents EXCEPT ![g][f] = Synchronized(g, f)]
  /\ behind' = IF g = server.generation THEN behind \ {f} ELSE behind
  /\ Set(c, [call[c] EXCEPT !.edit = @ \ {f}])
  /\ UNCHANGED <<disk, server, readiness, previews, made, world>>

Resynchronized(c) ==
  /\ At(c, "resynchronize")
  /\ call[c].edit = {}
  /\ Finish(c)
  /\ UNCHANGED <<disk, server, documents, readiness, previews, made, behind,
                 world>>

\* The mutant that reports the failure and keeps the server.
ResynchronizeIgnored(c) ==
  /\ At(c, "resynchronize")
  /\ call[c].edit # {}
  /\ Finish(c)
  /\ UNCHANGED <<disk, server, documents, readiness, previews, made, behind,
                 world>>

\* invalidate_after_workspace_edit: whatever server there is by now goes.
ResynchronizeFails(c) ==
  /\ At(c, "resynchronize")
  /\ call[c].edit # {}
  /\ server' = [server EXCEPT !.state = "none"]
  /\ behind' = {}
  /\ Finish(c)
  /\ UNCHANGED <<disk, documents, readiness, previews, made, world>>

-----------------------------------------------------------------------------
(* The rest of the world                                                   *)

Event == events < MaxEvents /\ events' = events + 1

EditFile(f, text) ==
  /\ Event
  /\ text # disk[f]
  /\ disk' = [disk EXCEPT ![f] = text]
  /\ UNCHANGED <<server, documents, readiness, previews, call, made, behind,
                 clock, missed>>

\* record_progress and experimental/serverStatus, in the reader of the server.
Report(tracker) ==
  /\ Event
  /\ server.state = "up"
  /\ tracker # readiness[server.generation]
  /\ readiness' = [readiness EXCEPT ![server.generation] = tracker]
  /\ UNCHANGED <<disk, server, documents, previews, call, made, behind,
                 clock, missed>>
BeginProgress(token) ==
  Report(StartProgress(readiness[server.generation], token))
EndProgress(token) ==
  Report(FinishProgress(readiness[server.generation], token))
ReportStatus(health, quiescent) ==
  Report(RecordServerStatus(readiness[server.generation], health, quiescent))

Crash ==
  /\ Event
  /\ server.state = "up"
  /\ server' = [server EXCEPT !.state = "failed"]
  /\ UNCHANGED <<disk, documents, readiness, previews, call, made, behind,
                 clock, missed>>

Tick ==
  /\ Event
  /\ clock' = clock + 1
  /\ UNCHANGED <<disk, server, documents, readiness, previews, call, made,
                 behind, missed>>

\* A rename of other files, by another server.
PreviewElsewhere(size) ==
  /\ Event
  /\ GateFree("read")
  /\ previews' = Insert(previews, Preview(<<>>, size), clock).store
  /\ made' = made + 1
  /\ UNCHANGED <<disk, server, documents, readiness, call, behind, clock,
                 missed>>

-----------------------------------------------------------------------------
Next ==
  \/ \E c \in Callers :
       \/ \E f \in Files \cup {NoFile} : Enter(c, f)
       \/ Fail(c)
       \/ Attached(c)
       \/ Acquire(c)
       \/ Start(c)
       \/ StartFails(c)
       \/ Synchronize(c)
       \/ SynchronizeRefused(c)
       \/ Attempt(c)
       \/ \E reply \in {"items", "empty"} : LookUp(c, reply)
       \/ \E reply \in {"items", "empty", "gave up"} : Answer(c, reply)
       \/ \E edit \in SUBSET Files : AnswerRename(c, edit)
       \/ Receive(c)
       \/ Retry(c)
       \/ Expand(c)
       \/ Qualify(c)
       \/ ShowSignatures(c)
       \/ Return(c)
       \/ Compare(c)
       \/ \E f \in Files : NormalizeFile(c, f)
       \/ Normalized(c)
       \/ InsertPreview(c)
       \/ \E id \in 1..made : TakePreview(c, id)
       \/ Commit(c)
       \/ CommitFails(c)
       \/ LookUpDocuments(c)
       \/ \E f \in Files : Resynchronize(c, f)
       \/ Resynchronized(c)
       \/ ResynchronizeFails(c)
  \/ \E f \in Files, text \in Texts : EditFile(f, text)
  \/ \E token \in Tokens : BeginProgress(token) \/ EndProgress(token)
  \/ \E health \in Healths, quiescent \in BOOLEAN :
       ReportStatus(health, quiescent)
  \/ Crash
  \/ Tick
  \/ \E size \in 1..(MaxBytes + 1) : PreviewElsewhere(size)

Spec == Init /\ [][Next]_vars

-----------------------------------------------------------------------------
(* Properties                                                              *)

Pending == {previews.previews[n] : n \in DOMAIN previews.previews}
Announcing(c) == At(c, "documents") \/ At(c, "resynchronize")

\* The state has its type, the previews are as many and as large as their
\* store counts them and may hold, and who applies one is alone at the gate.
TypeOK ==
  /\ disk \in [Files -> Texts]
  /\ server \in [generation : 0..MaxGenerations,
                 state : {"none", "up", "failed"}]
  /\ \A g \in 0..MaxGenerations, f \in Files :
       documents[g][f] = Untracked \/ documents[g][f].text \in Texts
  /\ Len(previews.previews) <= MaxPreviews
  /\ previews.retained = Retained(previews.previews)
  /\ previews.retained <= MaxBytes
  /\ events \in 0..MaxEvents
  /\ behind \subseteq Files
  /\ \A c \in Callers :
       /\ call[c].retries \in 0..MaxRetries
       /\ call[c].gate = "write" =>
            \A other \in Callers \ {c} : call[other].gate = "none"

\* Every file of a preview, if the server had it open and had been told of it,
\* is there with the text from which the server computed its edits: what other
\* calls did to the store and others to the disk meanwhile shows
\* (normalize_workspace_edit_at_snapshot compares two snapshots and the disk).
PreviewMatchesServer ==
  \A preview \in Pending : \A f \in DOMAIN preview.files :
    LET file == preview.files[f] IN file.computed \in {file.before, Unknown}

Applied(p) == \E c \in Callers : /\ At(c, "take") /\ At(c, "commit")'
                                 /\ call'[c].files = p.files
Crowded(p) ==
  \E n \in DOMAIN previews.previews, q \in Pending' :
    /\ previews.previews[n] = p /\ q.id = made'
    /\ CrowdedOut(previews.previews, n, q)
GoneFresh == {p \in Pending \ Pending' : ~Expired(p, clock)}
Inserted == made' # made /\ \E q \in Pending' : q.id = made'

\* A preview goes when it is too old, when it is applied, which nobody else
\* does then, or when a new one that is kept would not fit beside it and those
\* that came after it; a preview that is refused costs no other.
PreviewsLastUntilUsed ==
  [][/\ \A p \in GoneFresh : Applied(p) \/ (Inserted /\ Crowded(p))
     /\ Cardinality(GoneFresh) <= 1 \/ Inserted]_vars

\* When no rename is being applied, the server knows of every write of those
\* that were: it was told, or it is gone (call_apply_rename holds the gate
\* until one or the other).
GateHidesStaleServers ==
  behind # {} => \E c \in Callers : call[c].gate = "write" /\ Announcing(c)

\* What is called a stable "nothing" to a query was not the answer of a server
\* that was seen at work before or after it, but when there was no attempt
\* left (request_value_until, status).
StableEmptyWasSettled ==
  \A c \in Callers :
    LET busy == call[c].busy IN
    call[c].stability = "stable" /\ busy # <<>> =>
      call[c].retries = MaxRetries \/ ~(busy[1] \/ busy[3])

=============================================================================
