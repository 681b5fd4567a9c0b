-------------------------- MODULE LifecycleProofs --------------------------
(***************************************************************************)
(* Proofs about Lifecycle, for every set of calls, every restart policy    *)
(* and every bound.                                                        *)
(***************************************************************************)
EXTENDS Lifecycle, FiniteSetTheorems, TLAPS

-----------------------------------------------------------------------------
(* Types                                                                   *)

LEMMA ShapeInit == Init => Shape
  BY LifecycleAssumption
     DEF Init, Shape, Actors, Callers, Generations, None, CallerPCs,
         ApplierPCs, MainPCs, OwningPCs, LockedPCs, ChildStates

\* Every step keeps the shape of the state and every role on its path.
LEMMA ShapeStep == Shape /\ [Next]_vars => Shape'
<1> USE LifecycleAssumption
    DEF Goto, None, Generations, Actors, Callers,
        lifecycleState, history,
        LockedPCs, OwningPCs, CallerPCs, ApplierPCs, MainPCs
<1> SUFFICES ASSUME Shape, [Next]_vars PROVE Shape'
  OBVIOUS
<1>1. CASE Tick
  BY <1>1 DEF Shape, Tick
<1>2. ASSUME NEW g \in Generations, ChildExits(g) \/ ReaderFails(g)
      PROVE  Shape'
  BY <1>2 DEF Shape, ChildExits, ReaderFails, ChildStates
<1>3. ASSUME NEW a \in Actors, InitializeAnswered(a) PROVE Shape'
  BY <1>3 DEF Shape, InitializeAnswered
<1>4. ASSUME NEW a \in Actors, BeginCall(a) PROVE Shape'
  BY <1>4 DEF Shape, BeginCall
<1>5. ASSUME NEW a \in Actors, EndCall(a) PROVE Shape'
  BY <1>5 DEF Shape, EndCall
<1>6. ASSUME NEW a \in Actors, Enters(a) PROVE Shape'
  <2>1. \A k \in 0..Len(attempts) : Remaining(k) \in Seq(Nat)
    BY DEF Shape, Remaining
  <2>2. CASE EnterStopped(a)
    BY <2>2 DEF Shape, EnterStopped, Enter
  <2>3. CASE EnterRunning(a)
    BY <2>3 DEF Shape, EnterRunning, Enter, Healthy
  <2>4. CASE EnterOverBudget(a)
    <3>1. attempts' \in Seq(Nat) /\ granted' \in Seq(Nat)
      BY <2>1, <2>4 DEF Shape, EnterOverBudget, TryRecordRejects
    <3> QED
      BY <3>1, <2>4 DEF Shape, EnterOverBudget, Enter
  <2>5. CASE EnterStart(a)
    <3>1. attempts' \in Seq(Nat) /\ granted' \in Seq(Nat)
      <4>1. CASE TryRecordAccepts
        BY <2>1, <4>1 DEF Shape, TryRecordAccepts
      <4>2. CASE UNCHANGED <<attempts, granted>>
        BY <4>2 DEF Shape
      <4> QED
        BY <2>5, <4>1, <4>2 DEF EnterStart, ChargeRestart
    <3> QED
      BY <3>1, <2>5 DEF Shape, EnterStart, Enter
  <2> QED
    BY <1>6, <2>2, <2>3, <2>4, <2>5 DEF Enters
<1>7. ASSUME NEW a \in Actors, SpawnFails(a) PROVE Shape'
  BY <1>7 DEF Shape, SpawnFails
<1>8. ASSUME NEW a \in Actors, Spawn(a) PROVE Shape'
  BY <1>8 DEF Shape, Spawn, ChildStates
<1>9. ASSUME NEW a \in Actors, InitializeFails(a) PROVE Shape'
  BY <1>9 DEF Shape, InitializeFails
<1>10. ASSUME NEW a \in Actors, InitializeSucceeds(a) PROVE Shape'
  BY <1>10 DEF Shape, InitializeSucceeds
<1>11. ASSUME NEW a \in Actors, ForceStopKill(a) PROVE Shape'
  BY <1>11 DEF Shape, ForceStopKill, ForceStopPCs, ChildStates
<1>12. ASSUME NEW a \in Actors, ForceStopReap(a) PROVE Shape'
  BY <1>12 DEF Shape, ForceStopReap, ForceStopPCs, AfterStop, ChildStates
<1>13. ASSUME NEW a \in Actors, ForceStopTimesOut(a) PROVE Shape'
  BY <1>13
     DEF Shape, ForceStopTimesOut, ForceStopPCs, AfterStop, AfterStopError
<1>14. ASSUME NEW a \in Actors, BeginApply(a) PROVE Shape'
  BY <1>14 DEF Shape, BeginApply
<1>15. ASSUME NEW a \in Actors, ApplyWithoutRefresh(a) PROVE Shape'
  BY <1>15 DEF Shape, ApplyWithoutRefresh
<1>16. ASSUME NEW a \in Actors, Resynchronize(a) PROVE Shape'
  BY <1>16 DEF Shape, Resynchronize
<1>17. ASSUME NEW a \in Actors, ResynchronizeEnds(a) PROVE Shape'
  <2>1. CASE Goto(a, "idle")
    BY <1>17, <2>1 DEF Shape, ResynchronizeEnds
  <2>2. CASE Goto(a, "invalidating")
    BY <1>17, <2>2 DEF Shape, ResynchronizeEnds
  <2> QED
    BY <1>17, <2>1, <2>2 DEF ResynchronizeEnds
<1>18. ASSUME NEW a \in Actors, Invalidate(a) PROVE Shape'
  BY <1>18 DEF Shape, Invalidate
<1>19. CASE BeginShutdown
  BY <1>19 DEF Shape, BeginShutdown
<1>20. CASE Shutdown
  BY <1>20 DEF Shape, Shutdown, ShutdownPath
<1>21. CASE DrainFails
  BY <1>21 DEF Shape, DrainFails
<1>22. CASE DrainDeadline
  BY <1>22 DEF Shape, DrainDeadline, ChildStates
<1>23. CASE DrainReap
  BY <1>23 DEF Shape, DrainReap, ChildStates
<1>24. CASE UNCHANGED vars
  BY <1>24 DEF Shape, vars
<1> QED
  BY <1>1, <1>2, <1>3, <1>4, <1>5, <1>6, <1>7, <1>8, <1>9, <1>10, <1>11, <1>12,
     <1>13, <1>14, <1>15, <1>16, <1>17, <1>18, <1>19, <1>20, <1>21, <1>22,
     <1>23, <1>24
     DEF Next, Environment, Startup, ForceStop, Apply, Drain

LEMMA ShapeCorrect == Spec => []Shape
  BY ShapeInit, ShapeStep, PTL DEF Spec

LEMMA FlagsStep == Flags /\ [Next]_vars => Flags'
  BY DEF Flags, Next, vars, lifecycleState, history, Environment, Tick,
         ChildExits, ReaderFails, InitializeAnswered, BeginCall, Enters,
         EnterStopped, EnterRunning, EnterOverBudget, EnterStart, Startup,
         SpawnFails, Spawn, InitializeFails, InitializeSucceeds, EndCall,
         ForceStop, ForceStopKill, ForceStopReap, ForceStopTimesOut,
         BeginApply, Apply, ApplyWithoutRefresh, Resynchronize,
         ResynchronizeEnds, Invalidate, BeginShutdown, Shutdown, DrainFails,
         Drain, DrainDeadline, DrainReap

\* Type correctness of the lifecycle: the states of callers, renames and
\* shutdown stay what src/src/lsp.rs makes them.
THEOREM TypeCorrect == Spec => []TypeOK
<1>1. Init => Flags
  BY DEF Init, Flags
<1> QED
  BY <1>1, FlagsStep, ShapeCorrect, PTL DEF Spec, TypeOK

-----------------------------------------------------------------------------
(* The restart budget                                                      *)

\* The deque holds the newest admitted restarts, all others have aged out.
BudgetInv ==
  /\ Len(attempts) <= MaxRestarts
  /\ Len(attempts) <= Len(granted)
  /\ \A i \in 1..Len(attempts) :
       attempts[i] = granted[Len(granted) - Len(attempts) + i]
  /\ \A i \in 1..Len(granted) : granted[i] <= clock
  /\ \A i \in 1..(Len(granted) - Len(attempts)) : clock - granted[i] >= Window
  /\ RestartBudget

\* Only a caller that finds no healthy generation touches the history.
LEMMA BudgetSteps ==
  [Next]_vars =>
    \/ Tick
    \/ /\ TryRecordAccepts \/ TryRecordRejects
       /\ clock' = clock
    \/ UNCHANGED <<attempts, granted, clock>>
  BY DEF Next, vars, lifecycleState, history, Environment, ChildExits,
         ReaderFails, InitializeAnswered, BeginCall, Enters, EnterStopped,
         EnterRunning, EnterOverBudget, EnterStart, ChargeRestart, Startup,
         SpawnFails, Spawn, InitializeFails, InitializeSucceeds, EndCall,
         ForceStop, ForceStopKill, ForceStopReap, ForceStopTimesOut,
         BeginApply, Apply, ApplyWithoutRefresh, Resynchronize,
         ResynchronizeEnds, Invalidate, BeginShutdown, Shutdown, DrainFails,
         Drain, DrainDeadline, DrainReap

\* Sequences of instants and their lengths are what arithmetic needs of them.
LEMMA BudgetTypes ==
  ASSUME Shape
  PROVE  /\ attempts \in Seq(Nat) /\ granted \in Seq(Nat) /\ clock \in Nat
         /\ Len(attempts) \in Nat /\ Len(granted) \in Nat
         /\ \A i \in 1..Len(attempts) : attempts[i] \in Nat
         /\ \A i \in 1..Len(granted) : granted[i] \in Nat
         /\ MaxRestarts \in Nat /\ MaxRestarts > 0 /\ Window \in Nat
  BY LifecycleAssumption DEF Shape

\* After k attempts are pruned, every restart the deque has forgotten is old.
LEMMA ForgottenAreOld ==
  ASSUME Shape, BudgetInv, NEW k \in 0..Len(attempts), ExpiredPrefix(k),
         NEW i \in 1..(Len(granted) - (Len(attempts) - k))
  PROVE  clock - granted[i] >= Window
<1> USE BudgetTypes
<1> DEFINE older == Len(granted) - Len(attempts)
<1>1. older \in Nat /\ i \in Nat /\ k \in Nat
  BY DEF BudgetInv
<1>2. CASE i <= older
  BY <1>1, <1>2 DEF BudgetInv
<1>3. CASE i > older
  <2>1. i - older \in 1..k /\ i - older \in 1..Len(attempts)
    BY <1>1, <1>3
  <2>2. older + (i - older) = i
    BY <1>1
  <2>3. attempts[i - older] = granted[older + (i - older)]
    BY <2>1 DEF BudgetInv
  <2>4. clock - attempts[i - older] >= Window
    BY <2>1 DEF ExpiredPrefix, Expired
  <2> QED
    BY <2>2, <2>3, <2>4
<1> QED
  BY <1>1, <1>2, <1>3

\* A rejected restart only prunes the deque.
LEMMA BudgetRejected ==
  ASSUME Shape, BudgetInv, TryRecordRejects, clock' = clock
  PROVE  BudgetInv'
<1> USE BudgetTypes
<1>1. PICK k \in 0..Len(attempts) :
        /\ ExpiredPrefix(k)
        /\ attempts' = Remaining(k)
        /\ granted' = granted
  BY DEF TryRecordRejects
<1>2. /\ Len(attempts') = Len(attempts) - k
      /\ \A i \in 1..Len(attempts') : attempts'[i] = attempts[i + k]
  BY <1>1 DEF Remaining
<1>3. Len(attempts') <= MaxRestarts /\ Len(attempts') <= Len(granted')
  BY <1>1, <1>2 DEF BudgetInv
<1>4. ASSUME NEW i \in 1..Len(attempts')
      PROVE  attempts'[i] = granted'[Len(granted') - Len(attempts') + i]
  <2>1. i + k \in 1..Len(attempts)
    BY <1>2
  <2>2. attempts[i + k] = granted[Len(granted) - Len(attempts) + (i + k)]
    BY <2>1 DEF BudgetInv
  <2>3. Len(granted) - Len(attempts) + (i + k)
          = Len(granted') - Len(attempts') + i
    BY <1>1, <1>2
  <2> QED
    BY <1>1, <1>2, <2>2, <2>3
<1>5. \A i \in 1..Len(granted') : granted'[i] <= clock'
  BY <1>1 DEF BudgetInv
<1>6. \A i \in 1..(Len(granted') - Len(attempts')) :
        clock' - granted'[i] >= Window
  BY <1>1, <1>2, ForgottenAreOld
<1>7. RestartBudget'
  BY <1>1 DEF BudgetInv, RestartBudget
<1> QED
  BY <1>3, <1>4, <1>5, <1>6, <1>7 DEF BudgetInv

\* An accepted restart joins at most max_restarts - 1 younger ones.
LEMMA BudgetAccepted ==
  ASSUME Shape, BudgetInv, TryRecordAccepts, clock' = clock
  PROVE  BudgetInv'
<1> USE BudgetTypes
<1>1. PICK k \in 0..Len(attempts) :
        /\ ExpiredPrefix(k)
        /\ Len(Remaining(k)) < MaxRestarts
        /\ attempts' = Append(Remaining(k), clock)
        /\ granted' = Append(granted, clock)
  BY DEF TryRecordAccepts
<1> DEFINE kept == Len(attempts) - k
<1>2. /\ Remaining(k) \in Seq(Nat)
      /\ Len(Remaining(k)) = kept
      /\ \A i \in 1..kept : Remaining(k)[i] = attempts[i + k]
  BY <1>1 DEF Remaining
<1>3. /\ kept \in Nat /\ kept < MaxRestarts /\ kept <= Len(granted)
      /\ Len(attempts') = kept + 1 /\ Len(granted') = Len(granted) + 1
  <2>1. kept \in Nat /\ kept < MaxRestarts /\ kept <= Len(granted)
    BY <1>1, <1>2 DEF BudgetInv
  <2>2. Len(attempts') = kept + 1
    <3>1. \A s \in Seq(Nat) : Len(Append(s, clock)) = Len(s) + 1
      OBVIOUS
    <3> QED
      BY <1>1, <1>2, <3>1
  <2>3. Len(granted') = Len(granted) + 1
    BY <1>1
  <2> QED
    BY <2>1, <2>2, <2>3
<1>4. /\ \A i \in 1..kept : attempts'[i] = attempts[i + k]
      /\ attempts'[kept + 1] = clock
      /\ \A i \in 1..Len(granted) : granted'[i] = granted[i]
      /\ granted'[Len(granted) + 1] = clock
  BY <1>1, <1>2
<1>5. \A i \in 1..(Len(granted) - kept) : clock - granted[i] >= Window
  BY <1>1, ForgottenAreOld
<1> HIDE DEF kept
<1>6. ASSUME NEW i \in 1..Len(attempts')
      PROVE  attempts'[i] = granted'[Len(granted') - Len(attempts') + i]
  <2>1. CASE i = kept + 1
    BY <1>3, <1>4, <2>1
  <2>2. CASE i \in 1..kept
    <3>1. i + k \in 1..Len(attempts)
      BY <2>2, <1>3 DEF kept
    <3>2. attempts[i + k] = granted[Len(granted) - Len(attempts) + (i + k)]
      BY <3>1 DEF BudgetInv
    <3>3. /\ Len(granted) - Len(attempts) + (i + k)
               = Len(granted') - Len(attempts') + i
          /\ Len(granted) - Len(attempts) + (i + k) \in 1..Len(granted)
      BY <1>3, <2>2, <3>1 DEF kept, BudgetInv
    <3> QED
      BY <1>4, <2>2, <3>2, <3>3
  <2> QED
    BY <1>3, <2>1, <2>2
<1>7. \A i \in 1..Len(granted') : granted'[i] <= clock'
  <2> SUFFICES ASSUME NEW i \in 1..(Len(granted) + 1)
               PROVE  granted'[i] <= clock
    BY <1>3
  <2>1. i = Len(granted) + 1 \/ i \in 1..Len(granted)
    OBVIOUS
  <2>2. CASE i = Len(granted) + 1
    BY <1>4, <2>2
  <2>3. CASE i \in 1..Len(granted)
    BY <1>4, <2>3 DEF BudgetInv
  <2> QED
    BY <2>1, <2>2, <2>3
<1>8. \A i \in 1..(Len(granted') - Len(attempts')) :
        clock' - granted'[i] >= Window
  <2>1. Len(granted') - Len(attempts') = Len(granted) - kept
    BY <1>3
  <2>2. \A i \in 1..(Len(granted) - kept) : i \in 1..Len(granted)
    BY <1>3
  <2> QED
    BY <1>4, <1>5, <2>1, <2>2
<1>9. RestartBudget'
  <2> SUFFICES ASSUME NEW i \in 1..(Len(granted) + 1),
                      i + MaxRestarts <= Len(granted) + 1
               PROVE  granted'[i + MaxRestarts] - granted'[i] >= Window
    BY <1>3 DEF RestartBudget
  <2>1. i \in 1..Len(granted) /\ granted'[i] = granted[i]
    BY <1>4
  <2>2. CASE i + MaxRestarts <= Len(granted)
    <3>1. granted'[i + MaxRestarts] = granted[i + MaxRestarts]
      BY <1>4, <2>1, <2>2
    <3>2. granted[i + MaxRestarts] - granted[i] >= Window
      BY <2>1, <2>2 DEF BudgetInv, RestartBudget
    <3> QED
      BY <2>1, <3>1, <3>2
  <2>3. CASE i + MaxRestarts = Len(granted) + 1
    <3>1. i \in 1..(Len(granted) - kept)
      BY <1>3, <2>1, <2>3
    <3> QED
      BY <1>4, <1>5, <2>1, <2>3, <3>1
  <2>4. \A m, n \in Nat : n <= m + 1 => n <= m \/ n = m + 1
    OBVIOUS
  <2>5. i + MaxRestarts \in Nat /\ Len(granted) \in Nat
    OBVIOUS
  <2> QED
    BY <2>2, <2>3, <2>4, <2>5
<1> QED
  BY <1>3, <1>6, <1>7, <1>8, <1>9 DEF BudgetInv

LEMMA BudgetStep == Shape /\ BudgetInv /\ [Next]_vars => BudgetInv'
<1> SUFFICES ASSUME Shape, BudgetInv, [Next]_vars PROVE BudgetInv'
  OBVIOUS
<1>1. CASE Tick
  <2>1. clock' = clock + 1 /\ attempts' = attempts /\ granted' = granted
    BY <1>1 DEF Tick, lifecycleState, history
  <2>2. \A i \in 1..Len(granted) : granted[i] <= clock'
    BY <2>1, BudgetTypes DEF BudgetInv
  <2>3. ASSUME NEW i \in 1..(Len(granted) - Len(attempts))
        PROVE  clock' - granted[i] >= Window
    <3>1. clock - granted[i] >= Window /\ i \in 1..Len(granted)
      BY BudgetTypes DEF BudgetInv
    <3> QED
      BY <2>1, <3>1, BudgetTypes
  <2> QED
    BY <2>1, <2>2, <2>3 DEF BudgetInv, RestartBudget
<1>2. CASE UNCHANGED <<attempts, granted, clock>>
  BY <1>2 DEF BudgetInv, RestartBudget
<1> QED
  BY <1>1, <1>2, BudgetRejected, BudgetAccepted, BudgetSteps

\* For every restart policy and however long the run: any max_restarts + 1
\* consecutive admitted restarts span at least the window.
THEOREM RestartBudgetHolds == Spec => []RestartBudget
<1>1. Init => BudgetInv
  BY LifecycleAssumption DEF Init, BudgetInv, RestartBudget
<1>2. BudgetInv => RestartBudget
  BY DEF BudgetInv
<1> QED
  BY <1>1, <1>2, BudgetStep, ShapeCorrect, PTL DEF Spec

-----------------------------------------------------------------------------
(* The state mutex, the launches it guards, and shutdown                   *)

\* At most one call is inside a startup, and it has emptied `running`.
LockInv ==
  /\ \A a, b \in Actors : pc[a] \in LockedPCs /\ pc[b] \in LockedPCs => a = b
  /\ \A a \in Actors : pc[a] \in LockedPCs => running = None

\* A caller on its way to a launch has already paid for it.
PaidInv ==
  /\ launches <= Len(granted) + 1
  /\ ~startAttempted => launches = 0
  /\ \A a \in Actors :
       pc[a] \in {"retiring", "spawning"} => launches <= Len(granted)

\* Shutdown finds no startup in progress and leaves none behind.
StopInv ==
  /\ pc[Main] \in {"draining", "stopping", "down"} => stopped
  /\ stopped => LockFree /\ running = None

\* Generations are numbered by birth and have one owner each; what has no
\* owner has been told to stop.
OwnInv ==
  /\ running <= generation
  /\ \A g \in Generations : child[g] # "unborn" => g <= generation
  /\ \A a \in Actors :
       pc[a] \in OwningPCs => held[a] <= generation /\ held[a] # running
  /\ \A a, b \in Actors :
       /\ pc[a] \in OwningPCs /\ pc[b] \in OwningPCs
       /\ held[a] = held[b]
       => a = b
  /\ \A g \in Generations :
       child[g] = "running"
         => \/ running = g
            \/ \E a \in Actors : pc[a] \in OwningPCs /\ held[a] = g

LEMMA LockStep == Shape /\ LockInv /\ [Next]_vars => LockInv'
<1> USE LifecycleAssumption
    DEF Goto, None, Generations, Actors, Callers, lifecycleState, history,
        LockedPCs, OwningPCs, CallerPCs, ApplierPCs, MainPCs, LockFree
<1> SUFFICES ASSUME Shape, LockInv, [Next]_vars PROVE LockInv'
  OBVIOUS
<1>1. CASE Tick \/ DrainDeadline \/ DrainFails \/ BeginShutdown \/ DrainReap
  BY <1>1 DEF Shape, LockInv, Tick, DrainDeadline, DrainFails, BeginShutdown,
              DrainReap
<1>2. CASE Shutdown
  BY <1>2 DEF Shape, LockInv, Shutdown, ShutdownPath
<1>3. ASSUME NEW g \in Generations, ChildExits(g) \/ ReaderFails(g)
      PROVE  LockInv'
  BY <1>3 DEF Shape, LockInv, ChildExits, ReaderFails
<1>4. ASSUME NEW a \in Actors, BeginCall(a) \/ EndCall(a)
      PROVE  LockInv'
  BY <1>4 DEF Shape, LockInv, BeginCall, EndCall
<1>5. ASSUME NEW a \in Actors,
              \/ BeginApply(a)
              \/ ApplyWithoutRefresh(a)
              \/ Resynchronize(a)
              \/ ResynchronizeEnds(a)
      PROVE  LockInv'
  BY <1>5 DEF Shape, LockInv, BeginApply, ApplyWithoutRefresh, Resynchronize,
              ResynchronizeEnds
<1>6. ASSUME NEW a \in Actors,
              \/ InitializeAnswered(a)
              \/ InitializeFails(a)
              \/ InitializeSucceeds(a)
      PROVE  LockInv'
  BY <1>6 DEF Shape, LockInv, InitializeAnswered, InitializeFails,
              InitializeSucceeds
<1>7. ASSUME NEW a \in Actors,
              \/ EnterStopped(a)
              \/ EnterRunning(a)
              \/ EnterOverBudget(a)
      PROVE  LockInv'
  BY <1>7 DEF Shape, LockInv, EnterStopped, EnterRunning, EnterOverBudget,
              Enter, Healthy, TryRecordRejects
<1>8. ASSUME NEW a \in Actors, EnterStart(a)
      PROVE  LockInv'
  BY <1>8 DEF Shape, LockInv, EnterStart, Enter, Healthy, ChargeRestart,
              TryRecordAccepts
<1>9. ASSUME NEW a \in Actors, SpawnFails(a) \/ Spawn(a)
      PROVE  LockInv'
  BY <1>9 DEF Shape, LockInv, SpawnFails, Spawn
<1>10. ASSUME NEW a \in Actors, ForceStopKill(a) \/ ForceStopTimesOut(a)
      PROVE  LockInv'
  BY <1>10 DEF Shape, LockInv, ForceStopKill, ForceStopTimesOut, ForceStopPCs,
               AfterStop, AfterStopError
<1>11. ASSUME NEW a \in Actors, ForceStopReap(a)
      PROVE  LockInv'
  BY <1>11 DEF Shape, LockInv, ForceStopReap, ForceStopPCs, AfterStop
<1>12. ASSUME NEW a \in Actors, Invalidate(a)
      PROVE  LockInv'
  BY <1>12 DEF Shape, LockInv, Invalidate
<1>13. CASE UNCHANGED vars
  BY <1>13 DEF vars, LockInv
<1> QED
  BY <1>1, <1>2, <1>3, <1>4, <1>5, <1>6, <1>7, <1>8,
     <1>9, <1>10, <1>11, <1>12, <1>13
     DEF Next, Environment, Enters, Startup, ForceStop, Apply, Drain

LEMMA PaidStep == Shape /\ LockInv /\ PaidInv /\ [Next]_vars => PaidInv'
<1> USE LifecycleAssumption
    DEF Goto, None, Generations, Actors, Callers, lifecycleState, history,
        LockedPCs, OwningPCs, CallerPCs, ApplierPCs, MainPCs, LockInv
<1> SUFFICES ASSUME Shape, LockInv, PaidInv, [Next]_vars PROVE PaidInv'
  OBVIOUS
<1>1. CASE Tick \/ DrainDeadline \/ DrainFails \/ BeginShutdown \/ DrainReap
  BY <1>1 DEF Shape, PaidInv, Tick, DrainDeadline, DrainFails, BeginShutdown,
              DrainReap
<1>2. CASE Shutdown
  BY <1>2 DEF Shape, PaidInv, Shutdown, ShutdownPath
<1>3. ASSUME NEW g \in Generations, ChildExits(g) \/ ReaderFails(g)
      PROVE  PaidInv'
  BY <1>3 DEF Shape, PaidInv, ChildExits, ReaderFails
<1>4. ASSUME NEW a \in Actors, BeginCall(a) \/ EndCall(a)
      PROVE  PaidInv'
  BY <1>4 DEF Shape, PaidInv, BeginCall, EndCall
<1>5. ASSUME NEW a \in Actors,
              \/ BeginApply(a)
              \/ ApplyWithoutRefresh(a)
              \/ Resynchronize(a)
              \/ ResynchronizeEnds(a)
      PROVE  PaidInv'
  BY <1>5 DEF Shape, PaidInv, BeginApply, ApplyWithoutRefresh, Resynchronize,
              ResynchronizeEnds
<1>6. ASSUME NEW a \in Actors,
              \/ InitializeAnswered(a)
              \/ InitializeFails(a)
              \/ InitializeSucceeds(a)
      PROVE  PaidInv'
  BY <1>6 DEF Shape, PaidInv, InitializeAnswered, InitializeFails,
              InitializeSucceeds
<1>7. ASSUME NEW a \in Actors,
              \/ EnterStopped(a)
              \/ EnterRunning(a)
              \/ EnterOverBudget(a)
      PROVE  PaidInv'
  BY <1>7 DEF Shape, PaidInv, EnterStopped, EnterRunning, EnterOverBudget,
              Enter, Healthy, TryRecordRejects
<1>8. ASSUME NEW a \in Actors, EnterStart(a)
      PROVE  PaidInv'
  BY <1>8 DEF Shape, PaidInv, EnterStart, Enter, Healthy, ChargeRestart,
              TryRecordAccepts
<1>9. ASSUME NEW a \in Actors, SpawnFails(a) \/ Spawn(a)
      PROVE  PaidInv'
  BY <1>9 DEF Shape, PaidInv, SpawnFails, Spawn
<1>10. ASSUME NEW a \in Actors, ForceStopKill(a) \/ ForceStopTimesOut(a)
      PROVE  PaidInv'
  BY <1>10 DEF Shape, PaidInv, ForceStopKill, ForceStopTimesOut, ForceStopPCs,
               AfterStop, AfterStopError
<1>11. ASSUME NEW a \in Actors, ForceStopReap(a)
      PROVE  PaidInv'
  BY <1>11 DEF Shape, PaidInv, ForceStopReap, ForceStopPCs, AfterStop
<1>12. ASSUME NEW a \in Actors, Invalidate(a)
      PROVE  PaidInv'
  BY <1>12 DEF Shape, PaidInv, Invalidate
<1>13. CASE UNCHANGED vars
  BY <1>13 DEF vars, PaidInv
<1> QED
  BY <1>1, <1>2, <1>3, <1>4, <1>5, <1>6, <1>7, <1>8,
     <1>9, <1>10, <1>11, <1>12, <1>13
     DEF Next, Environment, Enters, Startup, ForceStop, Apply, Drain

LEMMA StopStep == Shape /\ LockInv /\ StopInv /\ [Next]_vars => StopInv'
<1> USE LifecycleAssumption
    DEF Goto, None, Generations, Actors, Callers, lifecycleState, history,
        LockedPCs, OwningPCs, CallerPCs, ApplierPCs, MainPCs, LockInv, LockFree
<1> SUFFICES ASSUME Shape, LockInv, StopInv, [Next]_vars PROVE StopInv'
  OBVIOUS
<1>1. CASE Tick \/ DrainDeadline \/ DrainFails \/ BeginShutdown \/ DrainReap
  BY <1>1 DEF Shape, StopInv, Tick, DrainDeadline, DrainFails, BeginShutdown,
              DrainReap
<1>2. CASE Shutdown
  BY <1>2 DEF Shape, StopInv, Shutdown, ShutdownPath
<1>3. ASSUME NEW g \in Generations, ChildExits(g) \/ ReaderFails(g)
      PROVE  StopInv'
  BY <1>3 DEF Shape, StopInv, ChildExits, ReaderFails
<1>4. ASSUME NEW a \in Actors, BeginCall(a) \/ EndCall(a)
      PROVE  StopInv'
  BY <1>4 DEF Shape, StopInv, BeginCall, EndCall
<1>5. ASSUME NEW a \in Actors,
              \/ BeginApply(a)
              \/ ApplyWithoutRefresh(a)
              \/ Resynchronize(a)
              \/ ResynchronizeEnds(a)
      PROVE  StopInv'
  BY <1>5 DEF Shape, StopInv, BeginApply, ApplyWithoutRefresh, Resynchronize,
              ResynchronizeEnds
<1>6. ASSUME NEW a \in Actors,
              \/ InitializeAnswered(a)
              \/ InitializeFails(a)
              \/ InitializeSucceeds(a)
      PROVE  StopInv'
  BY <1>6 DEF Shape, StopInv, InitializeAnswered, InitializeFails,
              InitializeSucceeds
<1>7. ASSUME NEW a \in Actors,
              \/ EnterStopped(a)
              \/ EnterRunning(a)
              \/ EnterOverBudget(a)
      PROVE  StopInv'
  BY <1>7 DEF Shape, StopInv, EnterStopped, EnterRunning, EnterOverBudget,
              Enter, Healthy, TryRecordRejects
<1>8. ASSUME NEW a \in Actors, EnterStart(a)
      PROVE  StopInv'
  BY <1>8 DEF Shape, StopInv, EnterStart, Enter, Healthy, ChargeRestart,
              TryRecordAccepts
<1>9. ASSUME NEW a \in Actors, SpawnFails(a) \/ Spawn(a)
      PROVE  StopInv'
  BY <1>9 DEF Shape, StopInv, SpawnFails, Spawn
<1>10. ASSUME NEW a \in Actors, ForceStopKill(a) \/ ForceStopTimesOut(a)
      PROVE  StopInv'
  BY <1>10 DEF Shape, StopInv, ForceStopKill, ForceStopTimesOut, ForceStopPCs,
               AfterStop, AfterStopError
<1>11. ASSUME NEW a \in Actors, ForceStopReap(a)
      PROVE  StopInv'
  BY <1>11 DEF Shape, StopInv, ForceStopReap, ForceStopPCs, AfterStop
<1>12. ASSUME NEW a \in Actors, Invalidate(a)
      PROVE  StopInv'
  BY <1>12 DEF Shape, StopInv, Invalidate
<1>13. CASE UNCHANGED vars
  BY <1>13 DEF vars, StopInv
<1> QED
  BY <1>1, <1>2, <1>3, <1>4, <1>5, <1>6, <1>7, <1>8,
     <1>9, <1>10, <1>11, <1>12, <1>13
     DEF Next, Environment, Enters, Startup, ForceStop, Apply, Drain

\* A step that moves nobody into or out of ownership.
SameOwners ==
  /\ UNCHANGED <<running, generation, child>>
  /\ \A a \in Actors :
       /\ pc'[a] \in OwningPCs <=> pc[a] \in OwningPCs
       /\ pc[a] \in OwningPCs => held'[a] = held[a]

LEMMA OwnFrame == OwnInv /\ SameOwners => OwnInv'
<1> SUFFICES ASSUME OwnInv, SameOwners PROVE OwnInv'
  OBVIOUS
<1>1. /\ running' <= generation'
      /\ \A g \in Generations : child'[g] # "unborn" => g <= generation'
  BY DEF OwnInv, SameOwners
<1>2. \A a \in Actors :
       pc'[a] \in OwningPCs => held'[a] <= generation' /\ held'[a] # running'
  BY DEF OwnInv, SameOwners
<1>3.  \A a, b \in Actors :
       /\ pc'[a] \in OwningPCs /\ pc'[b] \in OwningPCs
       /\ held'[a] = held'[b]
       => a = b
  BY DEF OwnInv, SameOwners
<1>4. \A g \in Generations :
       child'[g] = "running"
         => \/ running' = g
            \/ \E a \in Actors : pc'[a] \in OwningPCs /\ held'[a] = g
  BY DEF OwnInv, SameOwners
<1> QED
  BY <1>1, <1>2, <1>3, <1>4 DEF OwnInv

\* Steps that neither take, make nor give up a generation.
LEMMA QuietSteps ==
  ASSUME Shape, NEW a \in Actors,
         \/ BeginCall(a) \/ EndCall(a) \/ EnterStopped(a) \/ EnterRunning(a)
         \/ EnterOverBudget(a) \/ SpawnFails(a) \/ InitializeAnswered(a)
         \/ InitializeFails(a) \/ BeginApply(a) \/ ApplyWithoutRefresh(a)
         \/ Resynchronize(a) \/ ResynchronizeEnds(a) \/ BeginShutdown
         \/ DrainFails
  PROVE  SameOwners
<1> USE DEF Goto, None, Generations, Actors, Callers, lifecycleState, history,
        LockedPCs, OwningPCs, CallerPCs, ApplierPCs, MainPCs, Shape, SameOwners
<1>1. CASE BeginCall(a)
  BY <1>1 DEF BeginCall
<1>2. CASE EndCall(a)
  BY <1>2 DEF EndCall
<1>3. CASE EnterStopped(a)
  BY <1>3 DEF EnterStopped, Enter
<1>4. CASE EnterRunning(a)
  BY <1>4 DEF EnterRunning, Enter
<1>5. CASE EnterOverBudget(a)
  BY <1>5 DEF EnterOverBudget, Enter
<1>6. CASE SpawnFails(a)
  BY <1>6 DEF SpawnFails
<1>7. CASE InitializeAnswered(a)
  BY <1>7 DEF InitializeAnswered
<1>8. CASE InitializeFails(a)
  BY <1>8 DEF InitializeFails
<1>9. CASE BeginApply(a)
  BY <1>9 DEF BeginApply
<1>10. CASE ApplyWithoutRefresh(a)
  BY <1>10 DEF ApplyWithoutRefresh
<1>11. CASE Resynchronize(a)
  BY <1>11 DEF Resynchronize
<1>12. CASE ResynchronizeEnds(a)
  BY <1>12 DEF ResynchronizeEnds
<1>13. CASE BeginShutdown
  BY <1>13 DEF BeginShutdown
<1>14. CASE DrainFails
  BY <1>14 DEF DrainFails
<1> QED
  BY <1>1, <1>2, <1>3, <1>4, <1>5, <1>6, <1>7, <1>8, <1>9, <1>10, <1>11, <1>12,
     <1>13, <1>14

\* A call or an invalidation takes the generation out of the lifecycle state.
LEMMA OwnTaken ==
  ASSUME Shape, OwnInv, NEW a \in Actors, EnterStart(a) \/ Invalidate(a)
  PROVE  OwnInv'
<1> USE LifecycleAssumption
    DEF Goto, None, Generations, Actors, Callers, lifecycleState, history,
        LockedPCs, OwningPCs, CallerPCs, ApplierPCs, MainPCs
<1>1. /\ running' = 0 /\ UNCHANGED <<generation, child>>
      /\ held'[a] = running /\ pc[a] \notin OwningPCs
      /\ pc'[a] \in OwningPCs <=> running # 0
      /\ \A b \in Actors \ {a} : pc'[b] = pc[b] /\ held'[b] = held[b]
   BY DEF EnterStart, Enter, Shape, Invalidate
<1>2. /\ running' <= generation'
      /\ \A g \in Generations : child'[g] # "unborn" => g <= generation'
  BY <1>1 DEF OwnInv, Shape
<1>3. \A b \in Actors :
       pc'[b] \in OwningPCs => held'[b] <= generation' /\ held'[b] # running'
  BY <1>1 DEF OwnInv, Shape
<1>4.  \A b, c \in Actors :
       /\ pc'[b] \in OwningPCs /\ pc'[c] \in OwningPCs
       /\ held'[b] = held'[c]
       => b = c
  BY <1>1 DEF OwnInv, Shape
<1>5. \A g \in Generations :
       child'[g] = "running"
         => \/ running' = g
            \/ \E b \in Actors : pc'[b] \in OwningPCs /\ held'[b] = g
  BY <1>1 DEF OwnInv, Shape
<1> QED
  BY <1>2, <1>3, <1>4, <1>5 DEF OwnInv

\* A started generation moves from its starter into the lifecycle state.
LEMMA OwnPublished ==
  ASSUME Shape, LockInv, OwnInv, NEW a \in Actors, InitializeSucceeds(a)
  PROVE  OwnInv'
<1> USE LifecycleAssumption
    DEF Goto, None, Generations, Actors, Callers, lifecycleState, history,
        LockedPCs, OwningPCs, CallerPCs, ApplierPCs, MainPCs
<1>1. /\ running = 0 /\ running' = held[a]
      /\ UNCHANGED <<generation, child, held>>
      /\ pc[a] \in OwningPCs /\ pc'[a] \notin OwningPCs
      /\ \A b \in Actors \ {a} : pc'[b] = pc[b]
   BY DEF InitializeSucceeds, Shape, LockInv
<1>2. /\ running' <= generation'
      /\ \A g \in Generations : child'[g] # "unborn" => g <= generation'
  BY <1>1 DEF OwnInv, Shape
<1>3. \A b \in Actors :
       pc'[b] \in OwningPCs => held'[b] <= generation' /\ held'[b] # running'
  <2> SUFFICES ASSUME NEW b \in Actors, pc'[b] \in OwningPCs
               PROVE  held'[b] <= generation' /\ held'[b] # running'
    OBVIOUS
  <2>1. b # a /\ pc[b] \in OwningPCs /\ held'[b] = held[b]
    BY <1>1
  <2>2. held[b] <= generation /\ held[b] # held[a]
    BY <1>1, <2>1 DEF OwnInv
  <2> QED
    BY <1>1, <2>1, <2>2
<1>4.  \A b, c \in Actors :
       /\ pc'[b] \in OwningPCs /\ pc'[c] \in OwningPCs
       /\ held'[b] = held'[c]
       => b = c
  <2> SUFFICES ASSUME NEW b \in Actors, NEW c \in Actors,
                      pc'[b] \in OwningPCs, pc'[c] \in OwningPCs,
                      held'[b] = held'[c]
               PROVE  b = c
    OBVIOUS
  <2>1. pc[b] \in OwningPCs /\ pc[c] \in OwningPCs /\ held[b] = held[c]
    BY <1>1
  <2> QED
    BY <2>1 DEF OwnInv
<1>5. \A g \in Generations :
       child'[g] = "running"
         => \/ running' = g
            \/ \E b \in Actors : pc'[b] \in OwningPCs /\ held'[b] = g
  BY <1>1 DEF OwnInv, Shape
<1> QED
  BY <1>2, <1>3, <1>4, <1>5 DEF OwnInv
LEMMA OwnStep == Shape /\ LockInv /\ OwnInv /\ [Next]_vars => OwnInv'
<1> USE LifecycleAssumption
    DEF Goto, None, Generations, Actors, Callers, lifecycleState, history,
        LockedPCs, OwningPCs, CallerPCs, ApplierPCs, MainPCs, LockInv, LockFree
<1> SUFFICES ASSUME Shape, LockInv, OwnInv, [Next]_vars PROVE OwnInv'
  OBVIOUS
<1>1. CASE Tick
  BY <1>1 DEF Shape, OwnInv, Tick
<1>2. CASE Shutdown
  BY <1>2 DEF Shape, OwnInv, Shutdown, ShutdownPath
<1>3. CASE DrainDeadline
  BY <1>3 DEF Shape, OwnInv, DrainDeadline
<1>4. CASE DrainReap
  BY <1>4 DEF Shape, OwnInv, DrainReap
<1>5. ASSUME NEW g \in Generations, ChildExits(g) PROVE OwnInv'
  BY <1>5 DEF Shape, OwnInv, ChildExits
<1>6. ASSUME NEW g \in Generations, ReaderFails(g) PROVE OwnInv'
  BY <1>6 DEF Shape, OwnInv, ReaderFails
<1>7. ASSUME NEW a \in Actors, Spawn(a) PROVE OwnInv'
  <2>1. /\ generation + 1 \in Generations /\ running = 0
        /\ UNCHANGED running /\ generation' = generation + 1
        /\ held'[a] = generation + 1 /\ pc'[a] \in OwningPCs
        /\ \A b \in Actors \ {a} : pc'[b] = pc[b] /\ held'[b] = held[b]
        /\ \A g \in Generations \ {generation + 1} : child'[g] = child[g]
    BY <1>7 DEF Shape, Spawn
  <2>2. \A b \in Actors : pc[b] \in OwningPCs => held[b] # generation + 1
    BY DEF Shape, OwnInv
  <2>3. /\ running' <= generation'
        /\ \A g \in Generations : child'[g] # "unborn" => g <= generation'
    BY <2>1 DEF Shape, OwnInv
  <2>4. \A b \in Actors :
          pc'[b] \in OwningPCs
            => held'[b] <= generation' /\ held'[b] # running'
    <3> SUFFICES ASSUME NEW b \in Actors, pc'[b] \in OwningPCs
                 PROVE  held'[b] <= generation' /\ held'[b] # running'
      OBVIOUS
    <3>1. CASE b = a
      BY <2>1, <3>1
    <3>2. CASE b # a
      <4>1. /\ held[b] \in Nat /\ held[b] # 0 /\ generation \in Nat
            /\ held[b] <= generation
        BY <2>1, <3>2 DEF Shape, OwnInv
      <4> QED
        BY <2>1, <3>2, <4>1
    <3> QED
      BY <3>1, <3>2
  <2>5. \A b, c \in Actors :
          /\ pc'[b] \in OwningPCs /\ pc'[c] \in OwningPCs
          /\ held'[b] = held'[c]
          => b = c
    BY <2>1, <2>2 DEF OwnInv
  <2>6. \A g \in Generations :
          child'[g] = "running"
            => \/ running' = g
               \/ \E b \in Actors : pc'[b] \in OwningPCs /\ held'[b] = g
    <3> SUFFICES ASSUME NEW g \in Generations, child'[g] = "running"
                 PROVE  \E b \in Actors : pc'[b] \in OwningPCs /\ held'[b] = g
      OBVIOUS
    <3>1. CASE g = generation + 1
      BY <2>1, <3>1
    <3>2. CASE g # generation + 1
      <4>1. PICK b \in Actors : pc[b] \in OwningPCs /\ held[b] = g
        BY <2>1, <3>2 DEF OwnInv
      <4> QED
        BY <1>7, <2>1, <4>1 DEF Spawn
    <3> QED
      BY <3>1, <3>2
  <2> QED
    BY <2>3, <2>4, <2>5, <2>6 DEF OwnInv
<1>8. ASSUME NEW a \in Actors, ForceStopKill(a) PROVE OwnInv'
  BY <1>8 DEF Shape, OwnInv, ForceStopKill, ForceStopPCs, AfterStop
<1>9. ASSUME NEW a \in Actors, ForceStopReap(a) PROVE OwnInv'
  BY <1>9 DEF Shape, OwnInv, ForceStopReap, ForceStopPCs, AfterStop
<1>10. ASSUME NEW a \in Actors, ForceStopTimesOut(a) PROVE OwnInv'
  BY <1>10 DEF Shape, OwnInv, ForceStopTimesOut, ForceStopPCs, AfterStop,
               AfterStopError
<1>11. CASE UNCHANGED vars
  BY <1>11 DEF vars, OwnInv
<1> QED
  BY <1>1, <1>2, <1>3, <1>4, <1>5, <1>6, <1>7, <1>8, <1>9, <1>10, <1>11,
     OwnFrame, QuietSteps, OwnTaken, OwnPublished
     DEF Next, Environment, Enters, Startup, ForceStop, Apply, Drain

-----------------------------------------------------------------------------
(* What follows                                                            *)

LEMMA Invariants ==
  Spec => [](Shape /\ LockInv /\ PaidInv /\ StopInv /\ OwnInv)
<1>1. Init => LockInv /\ PaidInv /\ StopInv
  BY LifecycleAssumption
     DEF Init, LockInv, PaidInv, StopInv, LockFree, LockedPCs, Actors, None
<1>2. Init => OwnInv
  BY LifecycleAssumption
     DEF Init, OwnInv, OwningPCs, Actors, Generations, None
<1> QED
  BY <1>1, <1>2, ShapeInit, ShapeStep, LockStep, PaidStep, StopStep, OwnStep,
     PTL DEF Spec

\* However starts fail, time out or are abandoned, only the first launch is
\* free: try_record has admitted every other one.
THEOREM LaunchesArePaidHolds == Spec => []LaunchesArePaid
<1>1. PaidInv => LaunchesArePaid
  BY DEF PaidInv, LaunchesArePaid
<1> QED
  BY <1>1, Invariants, PTL

\* A running child has exactly one owner, so no two parties stop it and none
\* is forgotten.
THEOREM OneOwnerHolds == Spec => []OneOwner
<1>1. Shape /\ OwnInv => OneOwner
  <2> SUFFICES ASSUME Shape, OwnInv, NEW g \in Generations,
                      child[g] = "running"
               PROVE  Cardinality(Owners(g)) = 1
    BY DEF OneOwner
  <2>1. \E x : Owners(g) = {x}
    <3>1. CASE running = g
      <4>1. Owners(g) = {"lifecycle state"}
        BY <3>1 DEF Owners, OwnInv
      <4> QED
        BY <4>1
    <3>2. CASE running # g
      <4>1. PICK a \in Actors : pc[a] \in OwningPCs /\ held[a] = g
        BY <3>2 DEF OwnInv
      <4>2. Owners(g) = {a}
        BY <3>2, <4>1 DEF Owners, OwnInv
      <4> QED
        BY <4>2
    <3> QED
      BY <3>1, <3>2
  <2> QED
    BY <2>1, FS_Singleton
<1> QED
  BY <1>1, Invariants, PTL

\* Once shutdown has the state mutex, no call launches a process again.
THEOREM NoLaunchAfterShutdownHolds == Spec => NoLaunchAfterShutdown
<1>1. Shape /\ StopInv /\ [Next]_vars => [stopped => launches' = launches]_vars
  <2> SUFFICES ASSUME Shape, StopInv, Next, stopped PROVE launches' = launches
    OBVIOUS
  <2>1. \A a \in Actors : pc[a] # "spawning"
    BY DEF StopInv, LockFree, LockedPCs
  <2> QED
    BY <2>1
       DEF Next, lifecycleState, history, Environment, Tick, ChildExits,
           ReaderFails, InitializeAnswered, BeginCall, Enters, EnterStopped,
           EnterRunning, EnterOverBudget, EnterStart, Startup, SpawnFails,
           Spawn, InitializeFails, InitializeSucceeds, EndCall, ForceStop,
           ForceStopKill, ForceStopReap, ForceStopTimesOut, BeginApply, Apply,
           ApplyWithoutRefresh, Resynchronize, ResynchronizeEnds, Invalidate,
           BeginShutdown, Shutdown, DrainFails, Drain, DrainDeadline, DrainReap
<1> QED
  BY <1>1, Invariants, PTL DEF Spec, NoLaunchAfterShutdown

\* When shutdown returns, a child can run only in the hands of an
\* invalidation that took it earlier.
THEOREM ShutdownLeavesNothingHolds == Spec => []ShutdownLeavesNothing
<1>1. Shape /\ StopInv /\ OwnInv => ShutdownLeavesNothing
  <2> SUFFICES ASSUME Shape, StopInv, OwnInv, pc[Main] = "down",
                      NEW g \in Generations, child[g] = "running"
               PROVE  \E a \in Appliers : pc[a] = "discarding" /\ held[a] = g
    BY DEF ShutdownLeavesNothing
  <2>1. running # g /\ LockFree
    BY DEF StopInv, Generations, None
  <2>2. PICK a \in Actors : pc[a] \in OwningPCs /\ held[a] = g
    BY <2>1 DEF OwnInv
  <2>3. a # Main /\ a \notin Callers
    BY <2>1, <2>2
       DEF Shape, LockFree, OwningPCs, LockedPCs, CallerPCs, Actors, Callers
  <2> QED
    BY <2>2, <2>3
       DEF Shape, OwningPCs, ApplierPCs, Actors, Callers
<1> QED
  BY <1>1, Invariants, PTL

-----------------------------------------------------------------------------
(* One generation after the other, behind the gate                         *)

\* Every start is behind the gate, and the kernel reaps what is killed.
Gated == Probes = {} /\ ReapMayTimeOut = FALSE

\* Semantic tools and renames exclude each other.
GateInv ==
  \A t \in Tools, r \in Appliers : pc[t] = "idle" \/ pc[r] = "idle"

\* The earlier generations are reaped, and so is the newest when nobody has it.
ReapInv ==
  /\ OneGenerationAtATime
  /\ generation # None /\ child[generation] # "reaped"
       => \/ running = generation
          \/ \E a \in Actors : pc[a] \in OwningPCs /\ held[a] = generation

LEMMA IdleStays ==
  ASSUME Shape, [Next]_vars, NEW t \in Tools \cup Appliers, pc[t] = "idle",
         ~BeginCall(t), ~BeginApply(t)
  PROVE  pc'[t] = "idle"
<1> USE LifecycleAssumption
    DEF Goto, Actors, Callers, lifecycleState, LockedPCs, OwningPCs
<1>1. t # Main /\ t \in Actors
      /\ pc \in [Actors -> CallerPCs \cup ApplierPCs \cup MainPCs]
  BY DEF Shape
<1>2. CASE UNCHANGED pc
  BY <1>2
<1>3. ASSUME NEW a, a # t, NEW to, Goto(a, to) PROVE pc'[t] = "idle"
  BY <1>1, <1>3
<1>4. CASE BeginShutdown \/ Shutdown \/ DrainFails \/ DrainReap
  BY <1>1, <1>3, <1>4 DEF BeginShutdown, Shutdown, DrainFails, DrainReap
<1>5. ASSUME NEW a \in Actors, pc[a] # "idle", NEW to, Goto(a, to)
      PROVE  pc'[t] = "idle"
  BY <1>3, <1>5
<1>6. ASSUME NEW a \in Actors, BeginCall(a) \/ BeginApply(a)
      PROVE  pc'[t] = "idle"
  BY <1>3, <1>6 DEF BeginCall, BeginApply
<1>7. ASSUME NEW a \in Actors, Enters(a) \/ Startup(a) \/ EndCall(a)
      PROVE  pc'[t] = "idle"
  BY <1>5, <1>7
     DEF Enters, Startup, EndCall, EnterStopped, EnterRunning,
         EnterOverBudget, EnterStart, Enter, SpawnFails, Spawn,
         InitializeFails, InitializeSucceeds
<1>8. ASSUME NEW a \in Actors,
             InitializeAnswered(a) \/ ForceStop(a) \/ Apply(a)
               \/ Invalidate(a)
      PROVE  pc'[t] = "idle"
  BY <1>2, <1>5, <1>8
     DEF InitializeAnswered, ForceStop, ForceStopKill, ForceStopReap,
         ForceStopTimesOut, ForceStopPCs, Apply, ApplyWithoutRefresh,
         Resynchronize, ResynchronizeEnds, Invalidate
<1>9. CASE UNCHANGED vars
  BY <1>2, <1>9 DEF vars
<1>10. CASE Tick \/ DrainDeadline
            \/ \E g \in Generations : ChildExits(g) \/ ReaderFails(g)
  BY <1>2, <1>10 DEF Tick, DrainDeadline, ChildExits, ReaderFails
<1> QED
  BY <1>4, <1>6, <1>7, <1>8, <1>9, <1>10 DEF Next, Environment, Drain

LEMMA GateStep ==
  ASSUME Shape, GateInv, [Next]_vars
  PROVE  GateInv'
<1> SUFFICES ASSUME NEW t \in Tools, NEW r \in Appliers
             PROVE  pc'[t] = "idle" \/ pc'[r] = "idle"
  BY DEF GateInv
<1>1. t # r
  BY LifecycleAssumption
<1>2. CASE BeginCall(t)
  <2>1. pc[r] = "idle" /\ pc'[r] = pc[r]
    BY <1>1, <1>2 DEF BeginCall, GateHeld, Goto, Shape, Actors
  <2> QED
    BY <2>1
<1>3. CASE BeginApply(r)
  <2>1. pc[t] = "idle" /\ pc'[t] = pc[t]
    BY <1>1, <1>3 DEF BeginApply, GateHeld, Goto, Shape, Actors
  <2> QED
    BY <2>1
<1>4. ~BeginApply(t) /\ ~BeginCall(r)
  BY LifecycleAssumption DEF BeginApply, BeginCall, Callers
<1> QED
  BY <1>2, <1>3, <1>4, IdleStays DEF GateInv

LEMMA ReapFrame ==
  ASSUME Shape, ReapInv, SameOwners
  PROVE  ReapInv'
<1>1. OneGenerationAtATime'
  BY DEF ReapInv, SameOwners, OneGenerationAtATime
<1>2. ASSUME generation' # None, child'[generation'] # "reaped"
      PROVE  \/ running' = generation'
             \/ \E a \in Actors : pc'[a] \in OwningPCs
                                  /\ held'[a] = generation'
  BY <1>2 DEF ReapInv, SameOwners
<1> QED
  BY <1>1, <1>2 DEF ReapInv

\* Nobody who is about to launch a server leaves another one behind.
LEMMA NothingLeft ==
  ASSUME Gated, Shape, LockInv, StopInv, GateInv, ReapInv,
         NEW a \in Actors, pc[a] = "spawning", generation # None
  PROVE  child[generation] = "reaped"
<1> USE LifecycleAssumption
    DEF None, Generations, Actors, Callers, LockedPCs, OwningPCs,
        CallerPCs, ApplierPCs, MainPCs
<1>1. a \in Tools /\ running = None
  BY DEF Gated, Shape, LockInv
<1>2. ~stopped
  BY DEF StopInv, LockFree
<1>3. ASSUME NEW b \in Actors, pc[b] \in OwningPCs PROVE FALSE
  <2>1. b # a
    BY <1>3
  <2>2. pc[b] \notin LockedPCs
    BY <2>1 DEF LockInv
  <2>3. CASE b = Main
    BY <1>2, <1>3, <2>3 DEF StopInv, Shape
  <2>4. CASE b \in Appliers
    <3>1. pc[b] = "idle"
      BY <1>1, <2>4 DEF GateInv
    <3> QED
      BY <1>3, <3>1
  <2>5. CASE b \in Callers
    BY <1>3, <2>2, <2>5 DEF Shape
  <2> QED
    BY <2>3, <2>4, <2>5
<1> QED
  BY <1>1, <1>3 DEF ReapInv

LEMMA ReapStep ==
  ASSUME Gated, Shape, LockInv, StopInv, OwnInv, GateInv, ReapInv,
         [Next]_vars
  PROVE  ReapInv'
<1> USE LifecycleAssumption
    DEF Goto, None, Generations, Actors, Callers, lifecycleState, history,
        LockedPCs, OwningPCs, CallerPCs, ApplierPCs, MainPCs, LockFree
<1>1. CASE Tick \/ \E g \in Generations : ReaderFails(g)
  BY <1>1, ReapFrame DEF Tick, ReaderFails, SameOwners
<1>2. CASE UNCHANGED vars
  BY <1>2, ReapFrame DEF vars, SameOwners
<1>3. ASSUME UNCHANGED <<running, generation, pc, held>>,
             NEW g \in Generations, child[g] # "reaped", NEW s,
             child' = [child EXCEPT ![g] = s]
      PROVE  ReapInv'
  BY <1>3 DEF ReapInv, OneGenerationAtATime, Shape
<1>4. ASSUME NEW g \in Generations, ChildExits(g) PROVE ReapInv'
  BY <1>3, <1>4 DEF ChildExits
<1>5. CASE DrainDeadline
  <2>1. held[Main] \in Generations
    BY <1>5 DEF DrainDeadline, Shape
  <2> QED
    BY <1>3, <1>5, <2>1 DEF DrainDeadline
<1>6. ASSUME NEW a \in Actors, ForceStopKill(a) PROVE ReapInv'
  <2>1. held[a] \in Generations
    BY <1>6 DEF ForceStopKill, ForceStopPCs, Shape
  <2> QED
    BY <1>3, <1>6, <2>1 DEF ForceStopKill
<1>7. ASSUME NEW a \in Actors, pc[a] \in OwningPCs,
             NEW to, Goto(a, to), held' = [held EXCEPT ![a] = None],
             child' = [child EXCEPT ![held[a]] = "reaped"],
             UNCHANGED <<running, generation>>
      PROVE  ReapInv'
  <2>1. held[a] \in Generations
    BY <1>7 DEF Shape
  <2>2. \A g \in Generations :
          child'[g] = IF g = held[a] THEN "reaped" ELSE child[g]
    BY <1>7, <2>1 DEF Shape
  <2>3. \A b \in Actors \ {a} : pc'[b] = pc[b] /\ held'[b] = held[b]
    BY <1>7 DEF Shape
  <2>4. OneGenerationAtATime'
    BY <1>7, <2>2 DEF ReapInv, OneGenerationAtATime
  <2>5. ASSUME generation # None, child'[generation] # "reaped"
        PROVE  \/ running = generation
               \/ \E b \in Actors : pc'[b] \in OwningPCs
                                    /\ held'[b] = generation
    <3>1. generation \in Generations /\ generation # held[a]
          /\ child[generation] # "reaped"
      BY <2>2, <2>5 DEF Shape
    <3>2. CASE running = generation
      BY <3>2
    <3>3. CASE running # generation
      <4>1. PICK b \in Actors : pc[b] \in OwningPCs /\ held[b] = generation
        BY <3>1, <3>3, <2>5 DEF ReapInv
      <4>2. b # a
        BY <3>1, <4>1
      <4> QED
        BY <2>3, <4>1, <4>2
    <3> QED
      BY <3>2, <3>3
  <2> QED
    BY <1>7, <2>4, <2>5 DEF ReapInv
<1>8. ASSUME NEW a \in Actors, ForceStopReap(a) PROVE ReapInv'
  BY <1>7, <1>8 DEF ForceStopReap, ForceStopPCs
<1>9. CASE DrainReap
  BY <1>7, <1>9 DEF DrainReap
<1>10. ASSUME NEW a \in Actors, ForceStopTimesOut(a) PROVE ReapInv'
  BY <1>10 DEF ForceStopTimesOut, Gated
<1>11. ASSUME NEW a \in Actors,
              pc[a] \notin OwningPCs, running' = None, held'[a] = running,
              running # None => pc'[a] \in OwningPCs,
              \A b \in Actors \ {a} : pc'[b] = pc[b] /\ held'[b] = held[b],
              UNCHANGED <<generation, child>>
       PROVE  ReapInv'
  <2>1. OneGenerationAtATime'
    BY <1>11 DEF ReapInv, OneGenerationAtATime
  <2>2. ASSUME generation # None, child[generation] # "reaped"
        PROVE  \E b \in Actors : pc'[b] \in OwningPCs
                                 /\ held'[b] = generation
    <3>1. CASE running = generation
      BY <1>11, <2>2, <3>1
    <3>2. CASE running # generation
      <4>1. PICK b \in Actors : pc[b] \in OwningPCs /\ held[b] = generation
        BY <2>2, <3>2 DEF ReapInv
      <4> QED
        BY <1>11, <4>1
    <3> QED
      BY <3>1, <3>2
  <2> QED
    BY <1>11, <2>1, <2>2 DEF ReapInv
<1>12. ASSUME NEW a \in Actors, EnterStart(a) \/ Invalidate(a)
       PROVE  ReapInv'
  BY <1>11, <1>12 DEF EnterStart, Enter, Invalidate, Shape
<1>13. CASE Shutdown
  BY <1>11, <1>13 DEF Shutdown, ShutdownPath, Shape
<1>14. ASSUME NEW a \in Actors, InitializeSucceeds(a) PROVE ReapInv'
  <2>1. /\ running = None /\ running' = held[a]
        /\ UNCHANGED <<generation, child, held>>
        /\ \A b \in Actors \ {a} : pc'[b] = pc[b]
    BY <1>14 DEF InitializeSucceeds, Shape, LockInv
  <2>2. OneGenerationAtATime'
    BY <2>1 DEF ReapInv, OneGenerationAtATime
  <2>3. ASSUME generation # None, child[generation] # "reaped"
        PROVE  \/ running' = generation
               \/ \E b \in Actors : pc'[b] \in OwningPCs
                                    /\ held'[b] = generation
    <3>1. PICK b \in Actors : pc[b] \in OwningPCs /\ held[b] = generation
      BY <2>1, <2>3 DEF ReapInv
    <3> QED
      BY <2>1, <3>1
  <2> QED
    BY <2>1, <2>2, <2>3 DEF ReapInv
<1>15. ASSUME NEW a \in Actors, Spawn(a) PROVE ReapInv'
  <2>1. /\ generation + 1 \in Generations /\ generation' = generation + 1
        /\ held'[a] = generation + 1 /\ pc'[a] = "initializing"
        /\ \A g \in Generations \ {generation + 1} : child'[g] = child[g]
    BY <1>15 DEF Spawn, Shape
  <2>2. generation # None => child[generation] = "reaped"
    BY <1>15, NothingLeft DEF Spawn
  <2>3. OneGenerationAtATime'
    <3> SUFFICES ASSUME NEW g \in Generations, g < generation + 1
                 PROVE  child'[g] = "reaped"
      BY <2>1 DEF OneGenerationAtATime
    <3>1. g # generation + 1 /\ g # 0
          /\ (g < generation \/ g = generation)
      BY DEF Shape
    <3> QED
      BY <2>1, <2>2, <3>1 DEF ReapInv, OneGenerationAtATime
  <2> QED
    BY <2>1, <2>3 DEF ReapInv
<1>16. ASSUME NEW a \in Actors,
              \/ BeginCall(a) \/ EndCall(a) \/ EnterStopped(a)
              \/ EnterRunning(a) \/ EnterOverBudget(a) \/ SpawnFails(a)
              \/ InitializeAnswered(a) \/ InitializeFails(a)
              \/ BeginApply(a) \/ ApplyWithoutRefresh(a)
              \/ Resynchronize(a) \/ ResynchronizeEnds(a)
              \/ BeginShutdown \/ DrainFails
       PROVE  ReapInv'
  BY <1>16, QuietSteps, ReapFrame
<1>17. Main \in Actors
  OBVIOUS
<1> QED
  BY <1>1, <1>2, <1>4, <1>5, <1>6, <1>8, <1>9, <1>10, <1>12, <1>13, <1>14,
     <1>15, <1>16, <1>17
     DEF Next, Environment, Enters, Startup, ForceStop, Apply, Drain

\* Behind the gate, and when what is killed is reaped, no two children of one
\* server overlap: whoever starts one has waited for the end of the last, and
\* an invalidation keeps the gate until it has stopped what it took.
THEOREM OneGenerationHolds ==
  ASSUME Gated PROVE Spec => []OneGenerationAtATime
<1>1. Init => GateInv /\ ReapInv
  BY DEF Init, GateInv, ReapInv, OneGenerationAtATime, Actors, Generations,
         None, Callers
<1>2. /\ Shape /\ LockInv /\ PaidInv /\ StopInv /\ OwnInv
      /\ GateInv /\ ReapInv /\ [Next]_vars
      => GateInv' /\ ReapInv'
  BY GateStep, ReapStep
<1>3. ReapInv => OneGenerationAtATime
  BY DEF ReapInv
<1> QED
  BY <1>1, <1>2, <1>3, Invariants, PTL DEF Spec
=============================================================================
