------------------------------ MODULE Lifecycle ------------------------------
(***************************************************************************)
(* The life of one configured language server: LazyLanguageServer and      *)
(* RunningServer of src/src/lsp.rs, with the workspace gate of             *)
(* src/src/mcp.rs as far as it orders the calls that start, replace and    *)
(* retire a server process.                                                *)
(*                                                                         *)
(* A "generation" is one child process with its ActiveServer.  The mutex   *)
(* LazyLanguageServer::state is held across the awaits of a whole startup, *)
(* so who holds it is read off the program counters (LockHolder).          *)
(***************************************************************************)
EXTENDS Naturals, Sequences, FiniteSets

CONSTANTS
  Tools,          \* semantic tool calls: hold workspace_gate.read() throughout
  Probes,         \* deixis_server_status {server, start: true}: takes no gate
  Appliers,       \* deixis_apply_rename calls: hold workspace_gate.write()
  Main,           \* serve_stdio, which shuts the servers down at the end
  MaxRestarts,    \* config restart.max_restarts
  Window,         \* config restart.window, in clock ticks
  ReapMayTimeOut, \* may a SIGKILLed child outlive timeouts.shutdown?
  MaxClock,       \* bound of the clock
  MaxGenerations  \* bound of the number of children spawned

Actors == Tools \cup Probes \cup Appliers \cup {Main}
Callers == Tools \cup Probes
Generations == 1..MaxGenerations
None == 0

ASSUME LifecycleAssumption ==
  /\ Tools \cap Probes = {}
  /\ (Tools \cup Probes) \cap Appliers = {}
  /\ Main \notin Tools \cup Probes \cup Appliers
  /\ MaxRestarts \in Nat \ {0}
  /\ Window \in Nat \ {0}
  /\ ReapMayTimeOut \in BOOLEAN
  /\ MaxClock \in Nat
  /\ MaxGenerations \in Nat

VARIABLES
  running,        \* LifecycleState.running: a generation or None
  startAttempted, \* LifecycleState.start_attempted
  stopped,        \* LifecycleState.stopped
  attempts,       \* RestartHistory.attempts, oldest first
  generation,     \* children spawned so far; the last one's number
  child,          \* what the operating system knows of each child
  failed,         \* generations whose RequestState.failure is set
  pc,             \* where each actor is
  held,           \* the generation an actor uses, starts or stops
  clock,          \* Instant::now()
  granted,        \* history: the instants of all admitted restarts
  launches        \* history: how often RunningServer::spawn was entered

vars == <<running, startAttempted, stopped, attempts, generation, child,
          failed, pc, held, clock, granted, launches>>
lifecycleState == <<running, startAttempted, stopped, attempts>>
history == <<granted, launches>>

ChildStates == {"unborn", "running", "killed", "exited", "reaped"}

\* Program counters at which active_server_with_cancellation holds the mutex.
LockedPCs == {"retiring", "spawning", "initializing", "answered", "aborting"}
\* Program counters at which an actor owns the RunningServer held[a].
OwningPCs == {"retiring", "initializing", "answered", "aborting",
              "discarding", "draining", "stopping"}
CallerPCs == LockedPCs \cup {"idle", "waiting", "using", "failed"}
ApplierPCs == {"idle", "editing", "resyncing", "invalidating", "discarding"}
MainPCs == {"idle", "closing", "draining", "stopping", "down"}

LockFree == \A a \in Actors : pc[a] \notin LockedPCs
GateHeld(S) == \E a \in S : pc[a] # "idle"

Init ==
  /\ running = None
  /\ startAttempted = FALSE
  /\ stopped = FALSE
  /\ attempts = <<>>
  /\ generation = 0
  /\ child = [g \in Generations |-> "unborn"]
  /\ failed = {}
  /\ pc = [a \in Actors |-> "idle"]
  /\ held = [a \in Actors |-> None]
  /\ clock = 0
  /\ granted = <<>>
  /\ launches = 0

Goto(a, to) == pc' = [pc EXCEPT ![a] = to]

-----------------------------------------------------------------------------
(* The environment: time, the kernel and the reader task.                  *)

Tick ==
  /\ clock < MaxClock
  /\ clock' = clock + 1
  /\ UNCHANGED <<lifecycleState, generation, child, failed, pc, held, history>>

\* A server may exit at any time; a killed one does so when the kernel gets
\* to it.
ChildExits(g) ==
  /\ child[g] \in {"running", "killed"}
  /\ child' = [child EXCEPT ![g] = "exited"]
  /\ UNCHANGED <<lifecycleState, generation, failed, pc, held, clock, history>>

\* reader_loop ends on EOF, an I/O error or an oversized message: the child
\* need not have exited.
ReaderFails(g) ==
  /\ child[g] # "unborn"
  /\ g \notin failed
  /\ failed' = failed \cup {g}
  /\ UNCHANGED <<lifecycleState, generation, child, pc, held, clock, history>>

-----------------------------------------------------------------------------
(* RestartHistory                                                          *)

\* The mutant of the sliding window that forgets one attempt too many.
ExpiredEarly(now, attempt) == now - attempt + 1 >= Window

Expired(now, attempt) == now - attempt >= Window

\* The attempts left once try_record has popped the k expired ones in front.
ExpiredPrefix(k) ==
  /\ \A i \in 1..k : Expired(clock, attempts[i])
  /\ k < Len(attempts) => ~Expired(clock, attempts[k + 1])

Remaining(k) == SubSeq(attempts, k + 1, Len(attempts))

TryRecordAccepts ==
  \E k \in 0..Len(attempts) :
    /\ ExpiredPrefix(k)
    /\ Len(Remaining(k)) < MaxRestarts
    /\ attempts' = Append(Remaining(k), clock)
    /\ granted' = Append(granted, clock)

TryRecordRejects ==
  \E k \in 0..Len(attempts) :
    /\ ExpiredPrefix(k)
    /\ Len(Remaining(k)) >= MaxRestarts
    /\ attempts' = Remaining(k)
    /\ granted' = granted

-----------------------------------------------------------------------------
(* A call: LazyLanguageServer::active_server_with_cancellation             *)

\* A semantic tool takes the workspace gate shared, a status probe does not.
BeginCall(a) ==
  /\ a \in Callers
  /\ pc[a] = "idle"
  /\ a \in Tools => ~GateHeld(Appliers)
  /\ Goto(a, "waiting")
  /\ UNCHANGED <<lifecycleState, generation, child, failed, held, clock,
                 history>>

Enter(a) == a \in Callers /\ pc[a] = "waiting" /\ LockFree

EnterStopped(a) ==
  /\ Enter(a)
  /\ stopped
  /\ Goto(a, "failed")
  /\ UNCHANGED <<lifecycleState, generation, child, failed, held, clock,
                 history>>

Healthy == running # None /\ running \notin failed

EnterRunning(a) ==
  /\ Enter(a)
  /\ ~stopped
  /\ Healthy
  /\ Goto(a, "using")
  /\ held' = [held EXCEPT ![a] = running]
  /\ UNCHANGED <<lifecycleState, generation, child, failed, clock, history>>

\* The restart budget is exhausted: the failed generation stays in place.
EnterOverBudget(a) ==
  /\ Enter(a)
  /\ ~stopped
  /\ ~Healthy
  /\ startAttempted
  /\ TryRecordRejects
  /\ Goto(a, "failed")
  /\ UNCHANGED <<running, startAttempted, stopped, generation, child, failed,
                 held, clock, launches>>

\* The mutant that charges only the calls that find a dead generation, and so
\* lets a server that never comes up be spawned again and again.
ChargeOnlyReplacements ==
  IF running # None THEN TryRecordAccepts ELSE UNCHANGED <<attempts, granted>>

\* The first start is free; every later one is charged to the budget.
ChargeRestart ==
  IF startAttempted THEN TryRecordAccepts ELSE UNCHANGED <<attempts, granted>>

\* The mutant that reads the generation to stop after it was taken.
EnterStartTakenTwice(a) ==
  /\ Enter(a)
  /\ ~stopped
  /\ ~Healthy
  /\ ChargeRestart
  /\ Goto(a, IF running # None THEN "retiring" ELSE "spawning")
  /\ held' = [held EXCEPT ![a] = None]
  /\ running' = None
  /\ UNCHANGED <<startAttempted, stopped, generation, child, failed, clock,
                 launches>>

\* The mutant that does not look at `stopped`.
EnterStartWhileStopped(a) ==
  /\ Enter(a)
  /\ ~Healthy
  /\ ChargeRestart
  /\ Goto(a, IF running # None THEN "retiring" ELSE "spawning")
  /\ held' = [held EXCEPT ![a] = running]
  /\ running' = None
  /\ UNCHANGED <<startAttempted, stopped, generation, child, failed, clock,
                 launches>>

\* What is left of a failed generation is taken and stopped before a start.
EnterStart(a) ==
  /\ Enter(a)
  /\ ~stopped
  /\ ~Healthy
  /\ ChargeRestart
  /\ Goto(a, IF running # None THEN "retiring" ELSE "spawning")
  /\ held' = [held EXCEPT ![a] = running]
  /\ running' = None
  /\ UNCHANGED <<startAttempted, stopped, generation, child, failed, clock,
                 launches>>

\* RunningServer::spawn: command.spawn() fails, or a child runs.
SpawnFails(a) ==
  /\ pc[a] = "spawning"
  /\ startAttempted' = TRUE
  /\ launches' = launches + 1
  /\ Goto(a, "failed")
  /\ UNCHANGED <<running, stopped, attempts, generation, child, failed, held,
                 clock, granted>>

Spawn(a) ==
  /\ pc[a] = "spawning"
  /\ generation < MaxGenerations
  /\ startAttempted' = TRUE
  /\ launches' = launches + 1
  /\ generation' = generation + 1
  /\ child' = [child EXCEPT ![generation + 1] = "running"]
  /\ held' = [held EXCEPT ![a] = generation + 1]
  /\ Goto(a, "initializing")
  /\ UNCHANGED <<running, stopped, attempts, failed, clock, granted>>

\* The reader task delivers the initialize result.
InitializeAnswered(a) ==
  /\ pc[a] = "initializing"
  /\ held[a] \notin failed
  /\ Goto(a, "answered")
  /\ UNCHANGED <<lifecycleState, generation, child, failed, held, clock,
                 history>>

\* The mutant without a startup deadline.
InitializeFailsOnExit(a) ==
  /\ pc[a] \in {"initializing", "answered"}
  /\ held[a] \in failed
  /\ Goto(a, "aborting")
  /\ UNCHANGED <<lifecycleState, generation, child, failed, held, clock,
                 history>>

\* An exit, the startup deadline, a cancellation, an unusable result or a
\* closed queue for `initialized`.
InitializeFails(a) ==
  /\ pc[a] \in {"initializing", "answered"}
  /\ Goto(a, "aborting")
  /\ UNCHANGED <<lifecycleState, generation, child, failed, held, clock,
                 history>>

\* The handle is published, whatever the server did since it answered.
InitializeSucceeds(a) ==
  /\ pc[a] = "answered"
  /\ running' = held[a]
  /\ Goto(a, "using")
  /\ UNCHANGED <<startAttempted, stopped, attempts, generation, child, failed,
                 held, clock, history>>

EndCall(a) ==
  /\ a \in Callers
  /\ pc[a] \in {"using", "failed"}
  /\ Goto(a, "idle")
  /\ held' = [held EXCEPT ![a] = None]
  /\ UNCHANGED <<lifecycleState, generation, child, failed, clock, history>>

-----------------------------------------------------------------------------
(* RunningServer::force_stop, in the four places that call it              *)

ForceStopPCs == {"retiring", "aborting", "discarding", "stopping"}

ForceStopKill(a) ==
  /\ pc[a] \in ForceStopPCs
  /\ child[held[a]] = "running"
  /\ child' = [child EXCEPT ![held[a]] = "killed"]
  /\ UNCHANGED <<lifecycleState, generation, failed, pc, held, clock, history>>

\* Where force_stop's caller continues with Ok, and with Err.
AfterStop(at) ==
  CASE at = "retiring" -> "spawning"
    [] at = "aborting" -> "failed"
    [] at = "discarding" -> "idle"
    [] at = "stopping" -> "down"
AfterStopError(at) == IF at = "retiring" THEN "failed" ELSE AfterStop(at)

ForceStopReap(a) ==
  /\ pc[a] \in ForceStopPCs
  /\ child[held[a]] = "exited"
  /\ child' = [child EXCEPT ![held[a]] = "reaped"]
  /\ Goto(a, AfterStop(pc[a]))
  /\ held' = [held EXCEPT ![a] = None]
  /\ UNCHANGED <<lifecycleState, generation, failed, clock, history>>

\* The killed child outlives the deadline: its RunningServer is dropped.
ForceStopTimesOut(a) ==
  /\ ReapMayTimeOut
  /\ pc[a] \in ForceStopPCs
  /\ child[held[a]] = "killed"
  /\ Goto(a, AfterStopError(pc[a]))
  /\ held' = [held EXCEPT ![a] = None]
  /\ UNCHANGED <<lifecycleState, generation, child, failed, clock, history>>

-----------------------------------------------------------------------------
(* deixis_apply_rename: resynchronize, and invalidate when that fails      *)

\* The mutant that takes the gate shared.
BeginApplyShared(a) ==
  /\ a \in Appliers
  /\ pc[a] = "idle"
  /\ Goto(a, "editing")
  /\ UNCHANGED <<lifecycleState, generation, child, failed, held, clock,
                 history>>

\* The exclusive gate waits for every semantic call, not for status probes.
BeginApply(a) ==
  /\ a \in Appliers
  /\ pc[a] = "idle"
  /\ ~GateHeld(Tools \cup Appliers)
  /\ Goto(a, "editing")
  /\ UNCHANGED <<lifecycleState, generation, child, failed, held, clock,
                 history>>

\* The edit was refused, or there is no server whose documents need a refresh.
ApplyWithoutRefresh(a) ==
  /\ pc[a] = "editing"
  /\ Goto(a, "idle")
  /\ UNCHANGED <<lifecycleState, generation, child, failed, held, clock,
                 history>>

Resynchronize(a) ==
  /\ pc[a] = "editing"
  /\ LockFree
  /\ running # None
  /\ Goto(a, "resyncing")
  /\ UNCHANGED <<lifecycleState, generation, child, failed, held, clock,
                 history>>

ResynchronizeEnds(a) ==
  /\ pc[a] = "resyncing"
  /\ Goto(a, "idle") \/ Goto(a, "invalidating")
  /\ UNCHANGED <<lifecycleState, generation, child, failed, held, clock,
                 history>>

\* invalidate_after_workspace_edit takes whatever generation runs now and
\* stops it after the state mutex is released.
Invalidate(a) ==
  /\ pc[a] = "invalidating"
  /\ LockFree
  /\ Goto(a, IF running # None THEN "discarding" ELSE "idle")
  /\ held' = [held EXCEPT ![a] = running]
  /\ running' = None
  /\ UNCHANGED <<startAttempted, stopped, attempts, generation, child, failed,
                 clock, history>>

-----------------------------------------------------------------------------
(* LazyLanguageServer::shutdown                                            *)

BeginShutdown ==
  /\ pc[Main] = "idle"
  /\ Goto(Main, "closing")
  /\ UNCHANGED <<lifecycleState, generation, child, failed, held, clock,
                 history>>

\* Where shutdown goes with what it took.
ShutdownPath ==
  IF running = None THEN "down" ELSE IF Healthy THEN "draining" ELSE "stopping"

\* The mutant that leaves the generation it stops in the lifecycle state.
ShutdownCloned ==
  /\ pc[Main] = "closing"
  /\ LockFree
  /\ stopped' = TRUE
  /\ held' = [held EXCEPT ![Main] = running]
  /\ Goto(Main, ShutdownPath)
  /\ UNCHANGED <<running, startAttempted, attempts, generation, child, failed,
                 clock, history>>

\* The mutant that does not wait for a startup in progress.
ShutdownUnlocked ==
  /\ pc[Main] = "closing"
  /\ stopped' = TRUE
  /\ running' = None
  /\ held' = [held EXCEPT ![Main] = running]
  /\ Goto(Main, ShutdownPath)
  /\ UNCHANGED <<startAttempted, attempts, generation, child, failed, clock,
                 history>>

Shutdown ==
  /\ pc[Main] = "closing"
  /\ LockFree
  /\ stopped' = TRUE
  /\ running' = None
  /\ held' = [held EXCEPT ![Main] = running]
  /\ Goto(Main, ShutdownPath)
  /\ UNCHANGED <<startAttempted, attempts, generation, child, failed, clock,
                 history>>

\* RunningServer::shutdown gives up on the protocol and forces a stop.
DrainFails ==
  /\ pc[Main] = "draining"
  /\ child[held[Main]] # "killed"
  /\ Goto(Main, "stopping")
  /\ UNCHANGED <<lifecycleState, generation, child, failed, held, clock,
                 history>>

\* The mutant whose wait for the exit has a deadline only once stdout is gone.
DrainDeadlineOnExit ==
  /\ pc[Main] = "draining"
  /\ child[held[Main]] = "running"
  /\ held[Main] \in failed
  /\ child' = [child EXCEPT ![held[Main]] = "killed"]
  /\ UNCHANGED <<lifecycleState, generation, failed, pc, held, clock, history>>

\* wait_or_kill at the deadline; the wait after the kill has no deadline.
DrainDeadline ==
  /\ pc[Main] = "draining"
  /\ child[held[Main]] = "running"
  /\ child' = [child EXCEPT ![held[Main]] = "killed"]
  /\ UNCHANGED <<lifecycleState, generation, failed, pc, held, clock, history>>

DrainReap ==
  /\ pc[Main] = "draining"
  /\ child[held[Main]] = "exited"
  /\ child' = [child EXCEPT ![held[Main]] = "reaped"]
  /\ Goto(Main, "down")
  /\ held' = [held EXCEPT ![Main] = None]
  /\ UNCHANGED <<lifecycleState, generation, failed, clock, history>>

-----------------------------------------------------------------------------
Enters(a) ==
  EnterStopped(a) \/ EnterRunning(a) \/ EnterOverBudget(a) \/ EnterStart(a)
Startup(a) ==
  SpawnFails(a) \/ Spawn(a) \/ InitializeFails(a) \/ InitializeSucceeds(a)
ForceStop(a) == ForceStopKill(a) \/ ForceStopReap(a) \/ ForceStopTimesOut(a)
Apply(a) ==
  ApplyWithoutRefresh(a) \/ Resynchronize(a) \/ ResynchronizeEnds(a)
Drain == DrainDeadline \/ DrainReap

Environment ==
  \/ Tick
  \/ \E g \in Generations : ChildExits(g) \/ ReaderFails(g)
  \/ \E a \in Actors : InitializeAnswered(a)

Next ==
  \/ Environment
  \/ \E a \in Actors :
       \/ BeginCall(a) \/ Enters(a) \/ Startup(a) \/ EndCall(a)
       \/ ForceStop(a)
       \/ BeginApply(a) \/ Apply(a) \/ Invalidate(a)
  \/ BeginShutdown \/ Shutdown \/ DrainFails \/ Drain

Spec == Init /\ [][Next]_vars

\* Every await inside a startup, a stop and a drain has a deadline, except
\* the wait for a SIGKILLed child, which the kernel ends; tokio's mutex is
\* FIFO, so a waiter that is let in again and again gets in.  Nothing is
\* assumed of the server, of the clients or of the clock.
Fairness ==
  /\ \A a \in Actors :
       /\ SF_vars(Enters(a)) /\ WF_vars(Startup(a)) /\ WF_vars(ForceStop(a))
  /\ SF_vars(Shutdown) /\ WF_vars(Drain)
  /\ \A g \in Generations : WF_vars(child[g] = "killed" /\ ChildExits(g))

FairSpec == Spec /\ Fairness

-----------------------------------------------------------------------------
(* Properties                                                              *)

\* Shape of the state: each role stays on its own path, and whoever starts or
\* stops a process holds the RunningServer to do it with.
Shape ==
  /\ running \in Generations \cup {None}
  /\ attempts \in Seq(Nat)
  /\ generation \in 0..MaxGenerations
  /\ child \in [Generations -> ChildStates]
  /\ failed \subseteq Generations
  /\ pc \in [Actors -> CallerPCs \cup ApplierPCs \cup MainPCs]
  /\ \A a \in Callers : pc[a] \in CallerPCs
  /\ \A a \in Appliers : pc[a] \in ApplierPCs
  /\ pc[Main] \in MainPCs
  /\ held \in [Actors -> Generations \cup {None}]
  /\ \A a \in Actors : pc[a] \in OwningPCs => held[a] # None
  /\ clock \in Nat
  /\ granted \in Seq(Nat)
  /\ launches \in Nat

Flags == startAttempted \in BOOLEAN /\ stopped \in BOOLEAN

TypeOK == Shape /\ Flags

\* RestartHistory bounds a crash loop: however calls, crashes and failed
\* starts interleave, no span shorter than the window holds more than
\* max_restarts admitted restarts.
RestartBudget ==
  \A i \in 1..Len(granted) :
    i + MaxRestarts <= Len(granted)
      => granted[i + MaxRestarts] - granted[i] >= Window

\* Every process launch but the first was paid for by an admitted restart,
\* failed launches and launches after an invalidation included.
LaunchesArePaid == launches <= Len(granted) + 1

Owners(g) ==
  {a \in Actors : pc[a] \in OwningPCs /\ held[a] = g}
    \cup (IF running = g THEN {"lifecycle state"} ELSE {})

\* A child that nobody has told to stop belongs to exactly one party: the
\* lifecycle state, the call that starts or retires it, the edit that
\* invalidates it, or shutdown.  No child is leaked and none is stopped twice.
OneOwner ==
  \A g \in Generations : child[g] = "running" => Cardinality(Owners(g)) = 1

\* Shutdown is final: once it has begun to take the server, no call launches
\* another child, those that wait for the mutex at that moment included.
NoLaunchAfterShutdown == [][stopped => launches' = launches]_vars

\* When shutdown has returned, the only child that may still run is one an
\* invalidation took before and is about to kill.
ShutdownLeavesNothing ==
  pc[Main] = "down" =>
    \A g \in Generations :
      child[g] = "running"
        => \E a \in Appliers : pc[a] = "discarding" /\ held[a] = g

\* No two children of one server overlap: a generation is launched only when
\* every earlier one has been reaped.
OneGenerationAtATime ==
  \A g \in Generations : g < generation => child[g] = "reaped"

\* What DESIGN.md says of a failed generation: it is retired and reaped before
\* a replacement is started.
FailedReapedBeforeReplacement ==
  [][generation' # generation =>
       \A g \in Generations : g \in failed => child[g] = "reaped"]_vars

\* Whoever asks for the server gets a handle or an error, and shutdown ends,
\* even when it starts during a startup that hangs: the mutex held across
\* startups, kills and reaps is always released again.
CallsReturn ==
  \A a \in Callers : pc[a] = "waiting" ~> pc[a] \in {"using", "failed"}
ShutdownReturns == pc[Main] = "closing" ~> pc[Main] = "down"
EveryoneReturns == CallsReturn /\ ShutdownReturns
=============================================================================
