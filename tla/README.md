# Deixis in TLA+

Deixis is an MCP server that answers a coding agent's semantic questions by
driving one language server per configured language over stdio. This directory
models the parts of it in which several things happen at once: the life of a
language server process, the requests in flight on it, the documents it has
open, the diagnostics it has reported, the file transaction of a rename, and
the tools that bring these together. It also models what Deixis computes alone:
positions, edits, pages and routes. TLC checks the models on small instances.
TLAPS proves, for every value of their constants, each safety property that these
runs check and that holds, of the concurrent models and of the algorithms alike; what
stays with TLC are the liveness properties and the trees of `Outlines`.

Paths below are relative to the repository (`src/lsp.rs` is the crate's
`lsp.rs`). `PROJECT.json` maps each definition to the lines it stands for.

    tlc -workers 2 -config MCLifecycle.cfg MCLifecycle
    tlapm LifecycleProofs.tla

## The system

`serve_stdio` (`src/mcp.rs`) runs MCP tool handlers concurrently, one task per
call. They share per language server a `LazyLanguageServer` (`src/lsp.rs`), and
once for the whole process the `workspace_gate` and the store of rename
previews. A running server, a *generation*, has three tasks besides the calls: a
writer that drains the bounded outbound queue into the child's stdin, a reader
that matches replies by id and maintains diagnostics and readiness, and a
collector of stderr. The language server and the MCP client are the environment.

| component | state | operations | interacts with | what makes it correct | modelled in |
|---|---|---|---|---|---|
| server lifecycle (`LazyLanguageServer`, `RunningServer`, `RestartHistory`) | `LifecycleState` under an async mutex held across a whole startup; the sliding window of restarts; the child | start lazily, check health, retire, spawn, initialize, stop by force, invalidate, shut down | every tool handler, the reader's failure flag | restarts bounded, each child owned once, shutdown final, calls return | `Lifecycle` |
| workspace gate | an async read-write lock | semantic tools share it, `apply_rename` excludes them, `server_status` takes none | lifecycle, rename | generations do not overlap behind it | `Lifecycle` |
| request transport (`ActiveServer`, `writer_loop`, `reader_loop`) | pending map, next id, failure, permits, outbound queue | send, receive, cancel, retry, wait, time out, fail everything | documents (validation of a retry), readiness | each call settles once and for a real reason; nobody waits for the dead; only disowned requests are replayed | `Requests`, `CallContract` |
| documents (`DocumentStore` and its callers) | tracked text and version per file, under an async mutex | synchronize, validate, snapshot, resynchronize, close all | disk, outbound queue | the server sees what the store says, in order; a retry sees its own document | `Documents`; snapshots and resynchronization in `Tools` |
| rename application (`workspace_edits.rs`, `apply_rename` in `mcp.rs`) | stages and backups beside the files | validate, stage, validate, commit, roll back, clean up | other programs, cancellation, lifecycle | all files or none, nothing lost, leftovers named | `RenameApply`, `EditContract`; what it does to the server in `Lifecycle` and `Tools` |
| rename previews (`PreviewStore`, normalization) | previews bounded by age, number and bytes | ask, compare, normalize, insert, take, evict | documents, disk, rename | an id works once and until it is evicted for cause; a preview is of the text the server saw | `Previews`, `Tools` |
| diagnostics (`DiagnosticCache`) | pushed and pulled reports with versions | pull, publish, look | documents, reader | stale reports do not pass for current | `Diagnostics` |
| readiness (`ReadinessTracker`) | progress tokens, server status | begin, end, report, qualify | retries, every empty result | an empty result is called final only by a server at rest | `Readiness`, `Tools`; its signals in `Requests` |
| semantic tool handlers (`mcp.rs`) | none of their own | gate, route, start, synchronize, ask, convert, qualify, page | all of the above | the order of these steps | `Tools` |
| workspace symbols | none of its own | ask every attached server, merge | lifecycle | every server's symbols or an error | `Pages` (`Merge`), `Conversions`, `Tools` |
| positions, edits, pages (`positions.rs`, `workspace_edits.rs`, `mcp/output.rs`) | none | convert, normalize, overlap, apply, paginate | | agree with a reference definition | `Positions`, `Edits`, `Pages`, `Conversions`, `Outlines` |
| routing (`config.rs`) | fixed at start | route, language of a path | tool handlers | one server and one language per file | `Routes`, `Conversions` |
| configuration files, project root, CLI, stderr text | fixed at start | parse, validate | | sequential; unit tests reach it | not modelled |
| tests, mock server, benchmark harness, packaging | | | | | not modelled: not part of the program |

The behaviours that are hard to test, each at its line, are the `hazards` of
`PROJECT.json`. They come from five sources: the state mutex is held across
startups and released around stops; replies, deadlines, cancellations and the
end of the server race for one call; the `documents` mutex is held for some
steps of a query and not for others; the outbound queue is bounded and never
waited for; and a rename is many system calls that look like one. To these come
the boundaries of the algorithms: code units, line breaks, touching edits,
items as large as a page.

## Modules

### Lifecycle

One configured server. An action is one critical section of the state mutex, or
one await under it. Who holds the mutex is read off the program counters
(`LockedPCs`). `held[a]` is the `RunningServer` an actor has taken out of
the state, or is starting.

| actions | code |
|---|---|
| `Enter*`, `ChargeRestart`, `Spawn*`, `Initialize*` | `active_server_with_cancellation`, `RunningServer::spawn`, `initialize` |
| `TryRecordAccepts`, `TryRecordRejects` | `RestartHistory::try_record` |
| `ForceStop*` | `RunningServer::force_stop`, in its four callers |
| `BeginApply` ... `Invalidate` | `apply_rename`, `resynchronize_after_workspace_edit`, `invalidate_after_workspace_edit` |
| `Shutdown`, `Drain*` | `LazyLanguageServer::shutdown`, `RunningServer::shutdown`, `wait_or_kill` |
| `ChildExits`, `ReaderFails`, `Tick` | the kernel, the reader task, the clock |

The child dies, the reader sees an end of file, and the state mutex is taken in
any order, so `failed` is often stale when it is read: a call may be handed a
generation that fails a moment later, as in the code.

### Requests and CallContract

One generation's requests. Each critical section of `requests` and of
`readiness`, and each poll of a `select!`, is one action; `call[c]` holds the
locals of a call's future. A reply is one of five kinds, as far as the retry
policy tells them apart. A semantic call can be retried, a lifecycle request
cannot. The validation of a document before a retry is a choice here and is
what it is in `Documents`.

`CallContract` says what a caller may rely on: one verdict, and grounds for it.
`Grounds` in `Requests` says what the environment must have done to justify
each verdict. A reply is remembered with the call and the attempt the server
meant it for, and not with the id it came under, which is how a wrong
delivery would show.

### Documents

The store, the disk, the queue and the server's view of the files. `edition`
numbers the writes to the disk, so that two equal texts of different age can be
told apart; the program itself cannot see it, and `Same` ignores it.
`lock` is the async mutex, held in the program counters of `LockedPCs`.

### Diagnostics

The pull and the push cache of one document, as concurrent calls of
`deixis_diagnostics` and the reader use them. The `diagnostics` mutex covers a
single access, so reading the previous result id (`Choose`), the request, the
decoding of the answer (`Decode`) and its storage (`Store`) are four actions
that other calls come between; decoding and storing take the mutex once each.
`analysis` is what the server finds in each version and `results` what it has
said under each result id, so a report can be compared with the text it is
presented for. `Timely` allows a version later than the one named, since
another call may have synchronized the document before the server answers. The
server answers about a version no older than the last it was told of before
the request; pushed reports come late, twice, out of order or without a
version.

The store has a new version before its notification is sent, so `version` and
`told` part ways: when the queue is full (`SynchronizeRefused`) the call fails and
the version is in `refused`. A later call finds the text unchanged and announces
nothing; it pulls, and presents what the server says of the older text.
`Announced` is what the server was told of. An incremental change that follows a
refused one replaces a range of a text the server does not have, and may leave it
with another text than the store's; those versions are in `torn`, and the server may
find anything in them (`Findings`). `Timely` therefore asks for the newest version
that was *announced*, up to the one named, and says nothing of a torn text.

### RenameApply and EditContract

`apply_rename_preview` on its blocking thread: every system call on a project
file is an action, and what happens to a uniquely named stage or backup alone
is part of the action that causes it. Other programs write to the files between
any two of those calls, and the client cancels at any time. `outside` records
what each file would hold if Deixis did nothing. `raced` records the
files that others wrote after the last content check of the file, the race
that `DESIGN.md` concedes.

`EditContract` is the transaction as the callers see it that wait for the
gate: one step, from exactly the contents previewed to all replacements, or no
change at all. The refinement mapping hides the files while the gate is held in
commit or rollback, and shows what others made of them instead.

### Tools, Previews and Readiness

All twelve tools at work on one server. `Program` has the handler of each tool
as the list of its steps, in the order of the code; a step that touches what
others see is an action and has the name of the step in its guard, and of the
local steps only that they may end the call matters (`Fail`).
`call[c]` holds the locals of a handler: its gate, the generation it acquired,
the snapshots of its synchronization, the state of its request, the workspace
edit it normalizes. Startup, the exchange of messages and the file transaction
are one step here, in the form that `Lifecycle`, `Requests` and `EditContract`
have in full. What is here in full is what those leave open: which generation a
step is about, which store it compares with, which readiness it reads and when.

| actions | code |
|---|---|
| `Enter`, `Fail` | `call_tool`, the gate, the errors and cancellations of any handler |
| `Attached`, `Acquire`, `Start`, `StartFails` | `call_workspace_symbols`, `active_server_with_cancellation` |
| `Synchronize*` | `synchronize_document_with_snapshot` |
| `Attempt`, `Receive`, `Retry`, `LookUp`, `Expand` | `request_value_until`, `wait_to_retry`, pushed diagnostics, call hierarchy |
| `Qualify`, `ShowSignatures`, `Return` | `status`, `attach_empty_result_context` |
| `Compare`, `NormalizeFile`, `Normalized`, `InsertPreview` | `normalize_workspace_edit_at_snapshot`, `call_preview_rename` |
| `TakePreview`, `Commit*`, `LookUpDocuments`, `Resynchronize*` | `call_apply_rename`, `resynchronize_after_workspace_edit`, `invalidate_after_workspace_edit` |
| `EditFile`, `BeginProgress`, `EndProgress`, `ReportStatus`, `Crash`, `Tick`, `PreviewElsewhere` | other programs, the server, the clock, renames by other servers |

`Previews` is the preview store as operators on its value and `Readiness` the
tracker as operators on its record; both are used through `Tools` alone. The
histories in `call` (`computed`, `busy`) and the variables `missed` and `behind`
are what the program cannot see and the properties speak of. The edits
of a file are opaque here, and what is done with them is in `Edits`.

### Conversions, Positions, Edits, Pages and Routes

The four algorithm modules hold the operators of the code, step by step where
the steps are where it could go wrong: a line is found by scanning for breaks,
an edit is located by a second scan of another form, a page is filled item by
item. A loop is a recursive function of the number of its rounds (`Starts`,
`LineOffsets`, `Fill`, `Merge`, `ApplyEdits`). `Conversions` feeds these operators every
small input and states what they should compute in terms of places in a text, sets of
symbols and sets of servers; these definitions share with the operators only what a
code unit and a break character are. A character is one of `a`, `acute`, `face`, CR
and LF, which differ in their code units and in what they do to a line.

### Outlines

The symbols of a document are trees. `deixis_document_symbols` flattens them, makes a page of
the list as for any other answer, and rebuilds what is on it. `Outlines` extends
`Conversions` by a client that follows `nextOffset` through such an answer
(`AskSymbols`, `NextSymbols`), and `OutlinesSpec` has the uses of both. Trees need
RECURSIVE operators, so it is kept apart from the modules that have theorems.

## Runs

| run | instance | distinct states | question |
|---|---|---|---|
| `lifecycle` | 2 tools, 1 probe, 1 rename, shutdown; 1 restart in 2 ticks; 3 generations; a killed child may outlive its deadline | 926,000 | budget, ownership and shutdown under crashes, failed starts and stops |
| `lifecycle_gated` | 2 tools, 1 rename, shutdown, no probe; every kill is reaped; fair | 32,000 | do generations overlap behind the gate, and does everybody return |
| `lifecycle_ungated` | 1 probe and 1 rename | | finding 1 |
| `requests` | a semantic call that may be cancelled and a lifecycle request that may expire; 1 permit, a queue of 1, 1 retry | 1,443,000 | verdicts, cancellation, replay, limits |
| `requests_live` | the same, where the lifecycle request may be cancelled and the semantic one expire, with one report of degraded readiness; fair | 306,000 | does everybody return who was interrupted or lost the server, and does who waits for a permit get on |
| `documents` | 3 queries of one file, 2 texts, 3 edits, a queue of 2, 1 retry, shutdown | 186,000 | order and agreement of the notifications |
| `documents_full` | 2 files, a queue of 1 | | finding 2 |
| `diagnostics` | 2 callers, 2 possible reports, 2 versions, 1 refused notification, 1 result id beside reports without one, 2 pushed reports, pull registered or not | 4,024,000 | is what is presented as current the newest |
| `diagnostics_stale` | the same with 2 result ids, without pushed reports and refused notifications | | finding 3 |
| `tools` | 2 callers under 7 loads of one to three tools, 2 files, 2 texts, 2 events, 2 generations, 2 previews of 2 bytes, 1 retry | 2,078,000 | previews, stale servers and empty results between the tools |
| `conversions` | texts of 4 characters, 2 edits in texts of 3, 3 symbols from each of 2 servers, trees of 4 symbols, pages of 3 symbols or 14 bytes, 2 servers configured | 566,000 | do the algorithms compute what is meant |
| `rename` | 3 files, every system call may fail, 2 writes by others; fair | 164,000 | all or nothing, nothing lost, leftovers named, it ends |

Why these bounds are enough. A race for the lifecycle mutex needs one actor in it and
one waiting, with a third to stop what they start; three generations are one retired,
one in use and one to come. With a budget of one restart in two ticks and a clock of
three, an attempt can be within the window, just out of it and popped. Two calls share a
permit and a queue of one, so each of them meets both limits; three ids let both calls
have one and one of them a second after its retry, and one retry has both an attempt
that is followed by another and one that is the last. Two queries of one file race, and
the third does what the retry of the first must notice. Two pulls cross when both have
read a previous result id before either stores; two versions tell the older report from
the newer, and so does one result id beside none, as a report without an id takes the id
out of the cache. One refused notification is the didOpen, with the didChange after it
sent, or the didChange. Two pushed reports are enough for one to come late or to repeat
a version. Three files have a first, a middle and a last one for rollback. Two writes
can hit one file twice or two files once. In `tools` a preview is taken, or compared
with, while the other caller synchronizes, starts or applies; two events give a change
and a crash, a begin and an end, or an end and another begin between two looks; two
files have one that is edited and one that is asked about, or one that is announced and
one that is not yet; two bytes let a preview of two files push out both of the others,
and three refuse one. Four characters hold a break of two characters between two lines
that have one, and a pair of code units on either side of it; two edits meet in every
way two can. Symbols of 3, 8 and 13 bytes in pages of 14 fit together, fill one exactly,
and are one too large; four of them make chains, siblings and both. The loads bring
together a query and a rename, a rename and a probe that takes no gate, renames in a
row, and the tools with steps of their own. `location`, `references`, `documentSymbols`
and `prepareRename` are in none: as far as they touch anything shared, they are `hover`,
or a rename's request without what follows it.

`MaxClock`, `MaxEvents`, `MaxGenerations`, `MaxIds`, the two `MaxEdits`, `MaxVersions`,
`MaxResults`, `MaxRefused` and `MaxPublished` are bounds of the models alone; the other
numbers are configuration.

Deadlock is checked in the `lifecycle` and `diagnostics` runs, where idle actors
can always begin again. In `Requests`, `Documents` and `RenameApply` each call is made once, so
the models come to rest; so do `Tools`, whose callers have a load, and `Conversions`,
where an input is converted once and the last page is the end.

Symmetry is used only where the properties are invariants and action
properties: tools in `lifecycle`, queries and texts in `documents`, callers
and reports in `diagnostics`, files and texts in `tools` (its callers differ by
their loads).

### What the properties are about

`TypeOK` of each module also says what the flags mean together: who may hold
the lock, that a retry count stays within its limit, that a file is installed
only after its original was moved.

* *Lifecycle*: `RestartBudget` (no window holds more than `max_restarts`
  admitted restarts), `LaunchesArePaid` (every launch but the first was
  charged, failed launches included), `OneOwner` (a running child is in the
  state or with exactly one actor), `NoLaunchAfterShutdown`,
  `ShutdownLeavesNothing`, `OneGenerationAtATime`, `EveryoneReturns` (calls and shutdown,
  although the mutex is held across startups).
* *Requests*: `FulfilsContract` (the refinement of `CallContract`),
  `InFlightBounded`, `NoneWaitsForTheDead`, `CancelFollowsRequest`,
  `ReplaysOnlyTheDisowned`, `ExitReachesCalls`, `NoneWaitsInVain` (who is interrupted
  returns, and who waits for a permit gets on once nothing is in flight: no permit is
  kept over the wait before a retry).
* *Documents*: `ServerFollowsStore`, `StreamWellFormed` (nothing opens
  twice, versions grow, and nothing follows the close), `QueriesSeeTheirDocument`
  (a query is answered from its document or a later one, a retry from exactly
  its own), `NeverSyncsBackwards`.
* *Diagnostics*: `FullReportsAreTimely` (no full report presented as current is older
  than the last version announced up to the one it names), `TimelyUnlessCrossed` (nor
  is an unchanged one, until one is decoded against another call's items),
  `PushedReportsAreNewest`. A stale report thus takes a crossing (finding 3) or a
  refused notification (finding 2).
* *RenameApply*: `NothingIsLost`, `ResidueIsReported`, `KeepsContract` (the
  refinement of `EditContract`), `ApplicationEnds`.
* *Tools*: `PreviewMatchesServer` (every file of a preview has the text the
  server computed its edits from, whatever others synchronized or wrote
  meanwhile), `PreviewsLastUntilUsed` (a preview goes when it is old, when it is applied,
  alone, or when a newer one that is kept would not fit beside it and those after it),
  `GateHidesStaleServers`
  (whoever passes the gate meets a server that knows of every applied rename),
  `StableEmptyWasSettled` (an empty result is called stable only if no work was
  seen around the answer, or no attempt was left).
* *Conversions*: `PositionsAgree` (a position is converted when it denotes a place,
  to that place, and back), `EditsLandWhereMeant` (edits are accepted when no two meet but
  end to end, and the file becomes what making them from the last to the first makes of
  it), `PagesCoverTheAnswer` (following `nextOffset` shows every item once or names it),
  `RoutesAgree` (a file has one server and one language).
* *Outlines*: `OutlineKeepsItsShape` (on a page a symbol is nested where its parent is on the
  page, and the nested page is within its bytes).

Two of these have exceptions that belong to the code. `PreviewMatchesServer` says nothing
of a document whose notification a full queue refused (finding 2), nor of a file
that the server read by itself. `StableEmptyWasSettled` reads the
readiness as `status` does, after the answer and of whatever generation there
is by then, so it holds the *calls* of a query to account, and exempts the last
attempt, which is returned whatever the readiness.

Each module also defines the mutants that `PROJECT.json` lists, the bugs the
properties are there to catch: a mutant stands before the action it alters and
no other definition uses it.

### Fairness

`Documents`, `Diagnostics`, `Tools`, `Conversions` and `Outlines` have safety
properties only and assume none.

* `Lifecycle`: an actor that can take its next step in a startup, a stop or a
  drain takes it, since each of those awaits has a deadline; the kernel ends a
  SIGKILLed child (`lifecycle_gated` takes it to do so in time). Entering the
  mutex is strongly fair because tokio's mutex queues its waiters in order.
  Servers, clients and the clock owe nothing.
* `Requests`: the tasks of Deixis run. Getting a permit is strongly fair, as
  tokio's semaphore is FIFO. Nothing is assumed of the server, of the writer
  task, which may block on a full pipe, or of any timer; so what returns does
  so because it was interrupted or told.
* `RenameApply`: the blocking thread runs and a system call returns.

## Proofs

`LifecycleProofs` proves for every set of calls, restart policy and bound that
`Spec` implies `TypeOK`, `RestartBudget`, `LaunchesArePaid`, `OneOwner`,
`ShutdownLeavesNothing` and `NoLaunchAfterShutdown`. The only assumption is
`LifecycleAssumption`: the four kinds of actors are disjoint, and the limits
are numbers, positive where the configuration requires it.

The invariants are not inductive alone. They are strengthened by:

* `BudgetInv`: `attempts` is the end of the history of admitted restarts, what
  precedes it in the history is older than the window, and it holds at most
  `max_restarts`. The new attempt is then a window away from the one
  `max_restarts` before it, because that one was popped.
* `LockInv`: one actor at most is in a locked step, and then `running` is
  `None`, since each path into a startup has taken it.
* `PaidInv`: whoever is on the way to a launch has paid for it already, and
  before the first attempt nothing was launched.
* `StopInv`: once `stopped` is set nobody is in a locked step, so nobody is on
  the way to a launch; this is what taking the mutex in `shutdown` is for.
* `OwnInv`: generations are numbered by birth, no two actors hold one, no actor
  holds the one in the state, and a running child has an owner.

`Shape` is proved first and assumed in the other steps. An action that does not
touch what an invariant speaks of is dismissed by a frame lemma (`OwnFrame`).

`OneGenerationAtATime` is proved under `Gated`: no tool starts a server outside the
gate, and a killed child is reaped, which is the configuration of `lifecycle_gated`.
Without either it is false (`lifecycle_ungated`). Two more invariants carry
it: semantic tools and renames exclude each other (`GateInv`), and the earlier
generations are reaped, while the newest is reaped, is the one in the state or
is held by somebody who stops or starts it (`ReapInv`). Whoever launches a
server holds the mutex and the gate, so there is nobody else who could
hold one (`NothingLeft`).

`RenameApplyProofs` proves for every number of files, every set of operations
that may fail and every number of writes that `Spec` implies `TypeOK`,
`NothingIsLost`, `ResidueIsReported` and `KeepsContract`, from
`RenameApplyAssumption`. `IInv` joins to `TypeOK` what the program counter says
of the counters (`ProgressInv`) and of the verdict (`VerdictInv`), where the
content of each file is while the commit or the rollback passes over it
(`ContentInv`: behind the rollback a file is restored, or named with its backup
intact; before it, it can still be restored), and what lies beside the files
(`ResidueInv`). The refinement follows step by step: an early step or a commit
step is quiet for `EditContract`, a refusal settles with the files untouched,
and the end of commit or rollback is the one visible step.

`DiagnosticsProofs` proves for every set of callers and reports and every bound that
`Spec` implies `TypeOK`, `FullReportsAreTimely`, `TimelyUnlessCrossed` and
`PushedReportsAreNewest`, from `DiagnosticsAssumption`. `DInv` adds to the types the
path of a call (`PathInv`: a waiting request was sent after every version announced up
to the one its call names), what an answer says while it is decoded and stored
(`AnswerInv`), what the cache and the calls hold as long as no two pulls crossed
(`CoherenceInv`), and that the push cache is the last report of the greatest version
that arrived (`PushInv`). What the server finds in a version, whether the version was
announced, and the results that were issued never change (`Growth`), so what is so of a
call stays so while others run (`Frame`, `PathFrame`, `TimelyGrows`). `ViewIsTimely` has
the core of it: an answer given about what the server has read, after all that was
announced before the request, is timely.

`ToolsProofs` proves for every set of callers, loads, files and texts and every
bound that `Spec` implies `GateHidesStaleServers`. It rests on `ToolsAssumption`,
on `LoadsAssumption` (callers call tools that there are) and on two facts about
the table `Program` that TLC evaluates: a tool with the write gate has the steps
of an application behind it and no other tool has one of those
(`ApplyingAssumption`), and no tool takes both gates (`GatesAssumption`). `GInv`
says that a call has left what its handler has left, which is the end of an
application exactly behind the write gate (`Shape`); that there is one writer
(`OneWriter`); and that a file the server does not know the text of is one it has
open and one that the writer has still in its list, for the generation that there
is (`BehindInv`). The last is why it matters that the documents are looked up
after the files were written: a server that starts in between has nothing open.
The steps of all other calls are taken together (`QueriesAreQuerySteps`): they
leave the gate to the writer and only add to the store.

A second invariant, `PInv`, gives `PreviewMatchesServer`, `StableEmptyWasSettled` and
`TypeOK`. It needs two more facts about `Program`: a tool asks once, and what it may
ask again comes before (`AskingAssumption`); a preview is made in one order of steps
and by no other tool (`RenamingAssumption`). `PInv` says:

* of the documents, that one that is tracked has a version (`DocumentsOK`); a step that
  changes one gives it the next (`GoesOn`), so an equal version is an equal text;
* of a rename (`RenOK`), that it is somewhere in that order, and that between the
  first snapshot and the comparison the text it asked about is that of the snapshot,
  or the store has moved on and the comparison will refuse it (`Asked`). The
  comparison of versions thus proves what it cannot see, the text the server had;
* of a query (`AskOK`), that it remembers whether the server was seen at work, and
  that the answer it keeps is settled or its last (`SeenBusy`, `Settled`);
* of the gate, that who applies is alone (`GateInv`); of the store, that it counts
  what it retains, keeps its limits and has only such previews (`StoreOK`).

`PreviewsProofs` proves what `StoreOK` needs, for every limit and every preview: after
`Insert` and `Take` the store counts the bytes of what is left, within both limits
(`InsertKeeps`, `TakeKeeps`). What a store retains is a sum by recursion; that every sum
exists and splits where the sequence does is shown by the least length for which
it would not, since the natural numbers are well founded. It also proves what
`PreviewsLastUntilUsed` needs: `Insert` drops a preview that is not too old only if the new one
stays and would not fit beside it and those after it (`InsertDrops`), and `Take` drops none
but the one it hands out (`TakeDrops`). The action property follows from `PInv`
and these two, since no other step touches the store but by time.

`DocumentsProofs` proves for every set of queries, files and texts, every
capacity and every number of retries that `Spec` implies `TypeOK` and
`NeverSyncsBackwards`, from `DocumentsAssumption`. `TInv` joins to the types that
exactly the call in a locked step holds the mutex (`LockInv`), that a text gets
into the store after it was on the disk, and that what the holder of the mutex has
read is no older than the store (`EditionInv`; this is what reading under the mutex
is for), and that a query in the queue is the only one of a call that waits
(`WaitInv`).

The second part of the module goes on from there to `ServerFollowsStore`, `StreamWellFormed`
and `QueriesSeeTheirDocument`. These theorems assume `OpenClose`: a server that does not
want didOpen is told nothing of a document before it changes, and the three
properties have nothing to say of it. `ViewOf` is what the server will have open
when it has read a part of the queue; it is the last message about the file, and the lemmas
about it say what a message more at the end or one less at the front make of it.
`StreamInv` is `TInv` and: a message without a document is a close
(`MessageInv`); whether a call is a retry shows in its place (`PathInv`); the close
ends all synchronization, and what is still to be closed is open
(`ClosedInv`); the store is what the queue says, or one notification ahead of it
while the holder of the mutex has not sent that (`FollowInv`); a call about to
send its query has a document the server has, or had before a later
version (`SendInv`); and the three properties, message by message (`FormedInv`,
`LastWordInv`, `AnsweredInv`). `FollowInv` and `SendInv` are why it
matters that the mutex is kept until the notification is in the queue, and that a
retry keeps it until its query is.

`RequestsProofs` proves for every set of calls, finite or not, and every limit
that `Spec` implies `TypeOK`, `InFlightBounded`, `NoneWaitsForTheDead`,
`CancelFollowsRequest`, `ReplaysOnlyTheDisowned` and `FulfilsContract`, from
`RequestsAssumption`. `Inv` says what a call's place means for its locals
(`OwnInv`: a later attempt follows one that the server disowned, a withdrawing call
was cancelled or expired); that ids are used once and in order (`IdInv`); that an entry of
`pending` is a call in play with an empty slot, whose answer was not delivered
(`WaitInv`); that once the failure is recorded nobody is in `pending`, and only calls that
were told, or will be when their send fails, are left (`FailInv`); and that a request in the queue or
with the server is that of the call and attempt `pending` has for its id, while a cancellation is of
an id that nobody waits for and comes behind its request (`FlightInv`).
`InFlightBounded` takes one more invariant: a call has a permit from the semaphore as long as it has an
entry in `pending`, the holders are finite and at most `MaxConcurrent`
(`PermitInv`), and ids are as many as their calls. The refinement of `CallContract`
follows step by step (`ContractStep`): the verdict of a call changes once, and each
step that settles one finds its grounds in `Inv`.

`ConversionsProofs` proves for texts, edits, answers and configurations of every length and
every limit that `Spec` implies `PositionsAgree`, `EditsLandWhereMeant`,
`PagesCoverTheAnswer` and `RoutesAgree`, from `ConversionsAssumption` and `RoutesAssumption`.
`Computed` is the inductive invariant: what has been output is what the operators make of
the input it stands with, and that input is well formed. The rest is about the operators alone:

* A recursive definition has a value for every input: a function that obeys it exists
  (`RunExists`, from the well-foundedness of the numbers), and what is so of its rounds
  follows round by round (`Induction`).
* *Positions*: `Starts` reaches the line starts that the reference definition has, in their order
  (`LinesAreRanked`), a place belongs to the last start before it, and code units grow
  with the place, so that the walk of `byte_offset` finds the one place that a position denotes
  (`ByteOffsetIs`, `OnlyPlacesConvert`). The second scan, in `position_offset`, visits the
  same lines in bytes (`LineOffsetsAre`, `PositionOffsetIs`).
* *Edits*: sorting has an outcome (`OrderExists`, edit by edit). If no two neighbours overlap then no
  two edits do (`NeighboursSuffice`), and the sorted edits are a plan, with the ranges
  that were meant (`AcceptedFollow`); where there is a plan, sorting finds it
  (`FollowingAccepted`). Writing the file from the front makes what replacing from the back
  makes (`BothWays`).
* *Pages*: `Examine` keeps what a page has passed over equal to what it shows and what it names
  as too large, in order, with the weight it counted (`ExamineGoesOn`); `Merge` keeps each
  server's order (`JoinsAll`).
* *Routes*: the extensions that fit a name are suffixes of one name, so the longest is unique
  (`EndIsStem`, `LongestIs`), and a route without a server's name is the one that a name
  would give (`RouteIs`).

Only model-checked: the liveness properties, which need fairness and ENABLED, and
`OutlineKeepsItsShape`, whose trees need RECURSIVE operators, which the provers do not
take. `FailedReapedBeforeReplacement`, `QueriesFollowOpen` and `StaleNeverCurrent` are refuted.

## Findings

Three statements of `DESIGN.md` are stronger than the code, each shown by a run
whose property states them.

1. `lifecycle_ungated`, `FailedReapedBeforeReplacement`: `DESIGN.md:500` says a
   failed generation is retired and reaped before a replacement is started. An
   invalidation takes the generation out of the state under the mutex and stops
   it afterwards; `deixis_server_status` with `start: true` takes no workspace
   gate and starts a replacement in between. Behind the gate the statement
   holds (`lifecycle_gated`, `OneGenerationAtATime`).
2. `documents_full`, `QueriesFollowOpen`: `DESIGN.md:538` says `didOpen` is
   sent the first time a server sees a document. The store records the document
   before the notification is queued; when the queue is full the call fails,
   and no later call sends it. `ServerFollowsStore` holds of every file that
   never met a full queue. A refused `didChange` has the like effect: in `Diagnostics` the
   server's reports of the older text are then presented as current for the newer one,
   which is why `Timely` counts the versions announced and no others.
3. `diagnostics_stale`, `StaleNeverCurrent`: `DESIGN.md:560` says stale reports
   are never presented as current. When the server says that nothing changed,
   `pull_diagnostics` takes the items cached by then, not those of the result
   id it sent. A late answer to another call may have replaced them by older
   ones, which are then returned as current. `TimelyUnlessCrossed`
   says that, apart from refused notifications (finding 2), this is the only way.

## Abstractions

* One configured server: servers share only the gate and the preview store,
  and `Tools` has the previews of another one (`PreviewElsewhere`). A rename that
  edits files which another server has open is therefore not in the model.
* Framing and JSON are delivery. An oversized or malformed frame is the
  reader's failure or nothing at all, as in the code.
* Hashes stand for the text they are of; positions and document contents are
  opaque.
* In `Requests` a notification or a response to the server is one kind of
  message, there to fill the queue.
* A path's canonical target that changes counts as changed content in
  `RenameApply`; permissions and flushing are part of staging.
* In `Tools` the restart budget, the deadlines and the cancellation of a call are
  the choice to fail. A request is answered once per attempt. Versions tell
  apart the documents of one generation only, as the store does.
* An item of a page is its size in bytes, a symbol's children are its own, and a
  glob is the set of names it matches.
* The process is not killed in the middle: the code keeps no journal and
  promises nothing for it. `NothingIsLost`, being an invariant, also
  says what such a death would leave until the last file is installed.

## Not modelled

* Reading and checking the configuration file, the user's configuration
  directory, the command line and tracing: sequential, without state, and
  within reach of the unit tests.
* Canonical paths and symbolic links of the project root (`project.rs`): the
  file system's answers would be the model.
* Framing, JSON, argument schemas, the wording of results and errors, the eight
  kept lines of stderr: layout and delivery.
* Tests, the mock server, the benchmark harness and packaging: read as evidence
  or not part of the program.

## Plan

Every part with state has its model, and every safety property of a model but `Outlines`
its theorem. What is left: two servers in `Tools`, if a rename over files of both comes to
be supported.
