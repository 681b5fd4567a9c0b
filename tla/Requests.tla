------------------------------ MODULE Requests ------------------------------
(***************************************************************************)
(* The JSON-RPC requests of one server generation: request_value_until,    *)
(* request_attempt and wait_to_retry of src/src/lsp.rs, run by concurrent  *)
(* calls, with the writer task, the reader task and the server.            *)
(*                                                                         *)
(* Every critical section of the `requests` and `readiness` mutexes is one *)
(* action, and so is one poll of a `select!`.  A reply is abstracted to    *)
(* what the retry policy tells apart, and a document's validation before a *)
(* retry to its result (Documents models what it compares).                *)
(***************************************************************************)
EXTENDS Naturals, Sequences, FiniteSets

CONSTANTS
  Calls,        \* calls of request_value*, each made once
  Semantic,     \* those with recover_semantics
  Lifecycle,    \* those of `initialize` and `shutdown`
  NoCall,
  Cancellable,  \* calls whose client may cancel
  Expirable,    \* calls whose deadline may pass
  Reports,      \* the readiness the server may report
  MaxConcurrent,\* limits.max_concurrent_requests: request permits
  Capacity,     \* limits.outbound_queue_capacity
  MaxRetries,   \* MAX_REQUEST_RETRIES
  MaxIds        \* bound of the request ids

Ids == 1..MaxIds
\* ReadinessTracker, with "settled" for Ready and Unknown.
Readiness == {"settled", "busy", "degraded"}

ASSUME RequestsAssumption ==
  /\ Semantic \subseteq Calls
  /\ Lifecycle \subseteq Calls \ Semantic
  /\ NoCall \notin Calls
  /\ Cancellable \subseteq Calls
  /\ Expirable \subseteq Calls
  /\ Reports \subseteq Readiness
  /\ MaxConcurrent \in Nat \ {0}
  /\ Capacity \in Nat \ {0}
  /\ MaxRetries \in Nat
  /\ MaxIds \in Nat

VARIABLES
  call,       \* the locals of each call's future, see Fresh
  nextId,     \* ActiveServer.next_request_id
  pending,    \* RequestState.pending: the call whose sender waits for an id
  failure,    \* RequestState.failure is set
  readiness,  \* the state of the ReadinessTracker
  queue,      \* the outbound channel
  writing,    \* the writer task runs
  reader,     \* how far the reader task got
  unsent,     \* calls whose taken sender has not got the failure yet
  received,   \* requests the server got and has not answered
  delivered,  \* history: ids whose sender got a reply
  late        \* history: ids answered when nobody waited any more

requestState == <<nextId, pending, failure>>
outbound == <<queue, writing>>
inbound == <<reader, unsent>>
serverSide == <<received, delivered, late>>
vars == <<call, requestState, readiness, outbound, inbound, serverSide>>

\* "disowned": -32802 or -32800 that permits a retrigger; "modified": -32801
\* that does; "refused": any other error; "empty": an empty semantic result.
Replies == {"value", "empty", "refused", "disowned", "modified"}
Errors == {"refused", "disowned", "modified"}
Retriggers == {"empty", "disowned", "modified"}
Verdicts == {"value", "empty", "error", "exhausted", "outdated", "canceled",
             "timeout", "exited", "busy", "closed"}
PCs == {"idle", "starting", "queued", "validating", "registering", "sending",
        "awaiting", "withdrawing", "forwarding", "judging", "subscribing",
        "checking", "peeking", "pausing", "done"}
\* Where a call holds `_permit`.
HoldingPCs == {"validating", "registering", "sending", "awaiting",
               "withdrawing", "forwarding"}

Fresh == [
  pc |-> "idle",
  outcome |-> "open",     \* what the call returns, once it is known
  attempt |-> 0,          \* `retries` of request_value_until
  id |-> 0,               \* id of the current attempt, 0 before the first
  slot |-> "no reply",    \* the oneshot channel of the current attempt
  wasBusy |-> FALSE,      \* was_busy
  timer |-> 0,            \* 1 past earliest_retry, 2 past latest_retry
  watching |-> FALSE,     \* enabled on readiness_changed, not notified since
  cancelled |-> FALSE,    \* the CancellationToken is cancelled
  expired |-> FALSE,      \* Instant::now() >= deadline
  said |-> {}]            \* history: <<attempt, reply>> the server sent it

Init ==
  /\ call = [c \in Calls |-> Fresh]
  /\ nextId = 1
  /\ pending = [i \in Ids |-> NoCall]
  /\ failure = FALSE
  /\ readiness = "settled"
  /\ queue = <<>>
  /\ writing = TRUE
  /\ reader = "reading"
  /\ unsent = {}
  /\ received = {}
  /\ delivered = {}
  /\ late = {}

At(c, pc) == call[c].pc = pc
Goto(c, pc) == call' = [call EXCEPT ![c].pc = pc]
\* The future returns and its locals are gone.
Finish(c, o) ==
  call' = [call EXCEPT ![c] = [Fresh EXCEPT !.pc = "done", !.outcome = o]]
Active(c) == call[c].pc \notin {"idle", "done"}
Interrupted(c) == call[c].cancelled \/ call[c].expired
\* check_request_deadline, and every biased select: cancellation comes first.
Interruption(c) == IF call[c].cancelled THEN "canceled" ELSE "timeout"

-----------------------------------------------------------------------------
(* The caller, the clock, the server's progress reports                    *)

Begin(c) ==
  /\ At(c, "idle")
  /\ Goto(c, "starting")
  /\ UNCHANGED <<requestState, readiness, outbound, inbound, serverSide>>

Cancel(c) ==
  /\ c \in Cancellable
  /\ Active(c)
  /\ call' = [call EXCEPT ![c].cancelled = TRUE]
  /\ UNCHANGED <<requestState, readiness, outbound, inbound, serverSide>>

Expire(c) ==
  /\ c \in Expirable
  /\ Active(c)
  /\ call' = [call EXCEPT ![c].expired = TRUE]
  /\ UNCHANGED <<requestState, readiness, outbound, inbound, serverSide>>

\* notify_waiters wakes every enabled `notified()`.
Notified == [c \in Calls |-> [call[c] EXCEPT !.watching = FALSE]]

\* $/progress, serverStatus or workDoneProgress/create.
ReportReadiness(r) ==
  /\ reader = "reading"
  /\ readiness' = r
  /\ call' = Notified
  /\ UNCHANGED <<requestState, outbound, inbound, serverSide>>

-----------------------------------------------------------------------------
(* request_attempt                                                         *)

\* The top of the retry loop reads the readiness before the attempt.
StartAttempt(c) ==
  /\ At(c, "starting")
  /\ IF call[c].cancelled
       THEN Finish(c, "canceled")
       ELSE call' = [call EXCEPT ![c].pc = "queued",
                                 ![c].wasBusy = (readiness = "busy")]
  /\ UNCHANGED <<requestState, readiness, outbound, inbound, serverSide>>

\* The mutant that keeps the permit until the call returns.
PermitsFreeAtReturn ==
  Cardinality({c \in Calls : /\ Active(c)
                             /\ call[c].pc \notin {"starting", "queued"}})
    < MaxConcurrent

PermitsFree ==
  Cardinality({c \in Calls : call[c].pc \in HoldingPCs}) < MaxConcurrent

\* A retry of a semantic call checks its document first.
Granted(c) ==
  Goto(c, IF c \in Semantic /\ call[c].attempt > 0
          THEN "validating" ELSE "registering")

\* The mutant that binds the permit to `_`, which drops it at once.
AcquireDroppedPermit(c) ==
  /\ At(c, "queued")
  /\ ~Interrupted(c)
  /\ Granted(c)
  /\ UNCHANGED <<requestState, readiness, outbound, inbound, serverSide>>

AcquirePermit(c) ==
  /\ At(c, "queued")
  /\ PermitsFree
  /\ ~Interrupted(c)
  /\ Granted(c)
  /\ UNCHANGED <<requestState, readiness, outbound, inbound, serverSide>>

\* A cancellation or the deadline ends the wait for a permit or for the
\* documents mutex, and outranks a permit or a validation that comes too late.
InterruptBeforeSend(c) ==
  /\ At(c, "queued") \/ At(c, "validating")
  /\ Interrupted(c)
  /\ Finish(c, Interruption(c))
  /\ UNCHANGED <<requestState, readiness, outbound, inbound, serverSide>>

\* The retried document is as it was, or the call ends with the earlier error
\* or with ContentModified.
Validate(c) ==
  /\ At(c, "validating")
  /\ ~Interrupted(c)
  /\ Goto(c, "registering") \/ Finish(c, "outdated")
  /\ UNCHANGED <<requestState, readiness, outbound, inbound, serverSide>>

\* A sender goes into `pending`, its receiver stays with the call.
Insert(c, n) ==
  /\ n \in Ids
  /\ pending' = [pending EXCEPT ![n] = c]
  /\ call' = [call EXCEPT ![c].pc = "sending", ![c].id = n,
                          ![c].slot = "no reply"]

\* The mutant that does not look at `failure` under the lock.
RegisterBlindly(c) ==
  /\ At(c, "registering")
  /\ nextId' = nextId + 1
  /\ Insert(c, nextId)
  /\ UNCHANGED <<failure, readiness, outbound, inbound, serverSide>>

\* The mutant that numbers a request by how many are pending.
RegisterByCount(c) ==
  /\ At(c, "registering")
  /\ nextId' = nextId
  /\ IF failure
       THEN Finish(c, "exited") /\ UNCHANGED pending
       ELSE Insert(c, 1 + Cardinality({i \in Ids : pending[i] # NoCall}))
  /\ UNCHANGED <<failure, readiness, outbound, inbound, serverSide>>

\* Under the lock: the failure is reported, or the sender is inserted.
Register(c) ==
  /\ At(c, "registering")
  /\ nextId' = nextId + 1
  /\ IF failure
       THEN Finish(c, "exited") /\ UNCHANGED pending
       ELSE Insert(c, nextId)
  /\ UNCHANGED <<failure, readiness, outbound, inbound, serverSide>>

Message(kind, c) ==
  [kind |-> kind, id |-> call[c].id, call |-> c, attempt |-> call[c].attempt]
Other == [kind |-> "other", id |-> 0, call |-> NoCall, attempt |-> 0]

Room == writing /\ Len(queue) < Capacity

Send(c) ==
  /\ At(c, "sending")
  /\ Room
  /\ queue' = Append(queue, Message("request", c))
  /\ Goto(c, "awaiting")
  /\ UNCHANGED <<requestState, readiness, writing, inbound, serverSide>>

\* A full or closed queue takes the sender out again.
SendFails(c) ==
  /\ At(c, "sending")
  /\ ~Room
  /\ pending' = [pending EXCEPT ![call[c].id] = NoCall]
  /\ Finish(c, IF writing THEN "busy" ELSE "closed")
  /\ UNCHANGED <<nextId, failure, readiness, outbound, inbound, serverSide>>

GiveUp(c, why) ==
  call' = [call EXCEPT ![c].pc = "withdrawing", ![c].outcome = why]

\* The mutant that selects over sending and receiving.
InterruptSending(c) ==
  /\ At(c, "sending") \/ At(c, "awaiting")
  /\ Interrupted(c)
  /\ GiveUp(c, Interruption(c))
  /\ UNCHANGED <<requestState, readiness, outbound, inbound, serverSide>>

\* The mutant that waits for the response without a deadline.
InterruptByTokenOnly(c) ==
  /\ At(c, "awaiting")
  /\ call[c].cancelled
  /\ GiveUp(c, "canceled")
  /\ UNCHANGED <<requestState, readiness, outbound, inbound, serverSide>>

Interrupt(c) ==
  /\ At(c, "awaiting")
  /\ Interrupted(c)
  /\ GiveUp(c, Interruption(c))
  /\ UNCHANGED <<requestState, readiness, outbound, inbound, serverSide>>

\* cancel_pending_request: only a request still pending is cancelled.
Withdraw(c) ==
  /\ At(c, "withdrawing")
  /\ pending' = [pending EXCEPT ![call[c].id] = NoCall]
  /\ IF pending[call[c].id] # NoCall
       THEN Goto(c, "forwarding")
       ELSE Finish(c, call[c].outcome)
  /\ UNCHANGED <<nextId, failure, readiness, outbound, inbound, serverSide>>

\* A $/cancelRequest that finds no room is lost.
Forward(c) ==
  /\ At(c, "forwarding")
  /\ queue' = IF Room THEN Append(queue, Message("cancel", c)) ELSE queue
  /\ Finish(c, call[c].outcome)
  /\ UNCHANGED <<requestState, readiness, writing, inbound, serverSide>>

Receive(c) ==
  /\ At(c, "awaiting")
  /\ ~Interrupted(c)
  /\ call[c].slot # "no reply"
  /\ IF call[c].slot = "failure"
       THEN Finish(c, "exited")
       ELSE Goto(c, "judging")
  /\ UNCHANGED <<requestState, readiness, outbound, inbound, serverSide>>

-----------------------------------------------------------------------------
(* The retry policy and wait_to_retry                                      *)

\* The mutant without the exception for `initialize` and `shutdown`.
RetryableEvenLifecycle(c, r) ==
  \/ r = "disowned"
  \/ r = "modified" /\ c \in Semantic
  \/ r = "empty" /\ c \in Semantic /\ (call[c].wasBusy \/ readiness = "busy")

Retryable(c, r) ==
  \/ r = "disowned" /\ c \notin Lifecycle
  \/ r = "modified" /\ c \in Semantic
  \/ r = "empty" /\ c \in Semantic /\ (call[c].wasBusy \/ readiness = "busy")

JudgeFinal(c) ==
  /\ At(c, "judging")
  /\ ~Retryable(c, call[c].slot)
  /\ Finish(c, IF call[c].slot \in Errors THEN "error" ELSE call[c].slot)
  /\ UNCHANGED <<requestState, readiness, outbound, inbound, serverSide>>

\* The mutant that counts one retry too many.
JudgePastLimit(c) ==
  /\ At(c, "judging")
  /\ Retryable(c, call[c].slot)
  /\ CASE Interrupted(c) -> Finish(c, Interruption(c))
       [] ~Interrupted(c) /\ call[c].attempt > MaxRetries ->
            Finish(c, IF call[c].slot = "empty" THEN "empty" ELSE "exhausted")
       [] OTHER -> Goto(c, "subscribing")
  /\ UNCHANGED <<requestState, readiness, outbound, inbound, serverSide>>

\* check_request_deadline, then the retry limit, then the wait.
JudgeRetryable(c) ==
  /\ At(c, "judging")
  /\ Retryable(c, call[c].slot)
  /\ CASE Interrupted(c) -> Finish(c, Interruption(c))
       [] ~Interrupted(c) /\ call[c].attempt = MaxRetries ->
            Finish(c, IF call[c].slot = "empty" THEN "empty" ELSE "exhausted")
       [] OTHER -> Goto(c, "subscribing")
  /\ UNCHANGED <<requestState, readiness, outbound, inbound, serverSide>>

\* `changed` is enabled before the first look at the state.
Subscribe(c) ==
  /\ At(c, "subscribing")
  /\ IF Interrupted(c)
       THEN Finish(c, Interruption(c))
       ELSE call' = [call EXCEPT ![c].pc = "checking", ![c].watching = TRUE]
  /\ UNCHANGED <<requestState, readiness, outbound, inbound, serverSide>>

CheckTransport(c) ==
  /\ At(c, "checking")
  /\ IF failure THEN Finish(c, "exited") ELSE Goto(c, "peeking")
  /\ UNCHANGED <<requestState, readiness, outbound, inbound, serverSide>>

Due(c) ==
  call[c].timer = 2 \/ (call[c].timer = 1 /\ readiness = "settled")

CheckReadiness(c) ==
  /\ At(c, "peeking")
  /\ IF Due(c)
       THEN call' = [call EXCEPT ![c].pc = "starting", ![c].watching = FALSE,
                                 ![c].timer = 0, ![c].attempt = @ + 1]
       ELSE Goto(c, "pausing")
  /\ UNCHANGED <<requestState, readiness, outbound, inbound, serverSide>>

\* The next of earliest_retry and latest_retry passes.  A call that pauses
\* sleeps until the next one, so it wakes.
TimerPasses(c) ==
  /\ call[c].pc \in {"subscribing", "checking", "peeking", "pausing"}
  /\ call[c].timer < 2
  /\ call' = IF At(c, "pausing")
             THEN [call EXCEPT ![c].timer = @ + 1, ![c].pc = "subscribing",
                               ![c].watching = FALSE]
             ELSE [call EXCEPT ![c].timer = @ + 1]
  /\ UNCHANGED <<requestState, readiness, outbound, inbound, serverSide>>

\* Cancellation, the deadline or a notification ends the pause.
Wake(c) ==
  /\ At(c, "pausing")
  /\ Interrupted(c) \/ ~call[c].watching
  /\ call' = [call EXCEPT ![c].pc = "subscribing", ![c].watching = FALSE]
  /\ UNCHANGED <<requestState, readiness, outbound, inbound, serverSide>>

-----------------------------------------------------------------------------
(* writer_loop, reader_loop and everybody else who uses the queue          *)

\* Document notifications and responses to the server's own requests.
SendOther ==
  /\ Room
  /\ queue' = Append(queue, Other)
  /\ UNCHANGED <<call, requestState, readiness, writing, inbound, serverSide>>

Write ==
  /\ writing
  /\ queue # <<>>
  /\ queue' = Tail(queue)
  /\ received' = IF Head(queue).kind = "request"
                 THEN received \cup {Head(queue)} ELSE received
  /\ UNCHANGED <<call, requestState, readiness, writing, inbound, delivered,
                 late>>

\* A write error ends the task and closes the channel, and nothing else.
WriteFails ==
  /\ writing
  /\ queue # <<>>
  /\ writing' = FALSE
  /\ queue' = <<>>
  /\ UNCHANGED <<call, requestState, readiness, inbound, serverSide>>

\* handle_incoming_message: a reply finds its call by id alone, and a late one
\* finds none.  A second reply to one request would change nothing.
Deliver(m, r) ==
  LET heard == IF Active(m.call)
               THEN [call EXCEPT ![m.call].said = @ \cup {<<m.attempt, r>>}]
               ELSE call
      c == pending[m.id]
  IN /\ reader = "reading"
     /\ received' = received \ {m}
     /\ IF c = NoCall
          THEN /\ call' = heard
               /\ late' = late \cup {m.id}
               /\ UNCHANGED <<pending, delivered>>
          ELSE /\ call' = [heard EXCEPT ![c].slot = r]
               /\ pending' = [pending EXCEPT ![m.id] = NoCall]
               /\ delivered' = delivered \cup {m.id}
               /\ UNCHANGED late
     /\ UNCHANGED <<nextId, failure, readiness, outbound, inbound>>

\* EOF, an I/O error or an oversized message; then the grace for stderr.
ReaderStops ==
  /\ reader = "reading"
  /\ reader' = "closing"
  /\ UNCHANGED <<call, requestState, readiness, outbound, unsent, serverSide>>

\* Under the lock the failure is set and the senders are taken.
ReaderFails ==
  /\ reader = "closing"
  /\ reader' = "failed"
  /\ failure' = TRUE
  /\ unsent' = {pending[i] : i \in Ids} \ {NoCall}
  /\ pending' = [i \in Ids |-> NoCall]
  /\ UNCHANGED <<call, nextId, readiness, outbound, serverSide>>

\* The mutant that leaves out notify_waiters.
ReaderNotifiesNobody ==
  /\ reader = "failed"
  /\ reader' = "ended"
  /\ UNCHANGED <<call, requestState, readiness, outbound, unsent, serverSide>>

ReaderNotifies ==
  /\ reader = "failed"
  /\ reader' = "ended"
  /\ call' = Notified
  /\ UNCHANGED <<requestState, readiness, outbound, unsent, serverSide>>

\* To a call that gave up, the send fails and nobody minds.
ReaderSendsError(c) ==
  /\ reader = "ended"
  /\ c \in unsent
  /\ unsent' = unsent \ {c}
  /\ call' = IF Active(c) THEN [call EXCEPT ![c].slot = "failure"] ELSE call
  /\ UNCHANGED <<requestState, readiness, outbound, reader, serverSide>>

-----------------------------------------------------------------------------
Attempt(c) ==
  \/ StartAttempt(c) \/ InterruptBeforeSend(c) \/ Validate(c) \/ Register(c)
  \/ Send(c) \/ SendFails(c) \/ Interrupt(c) \/ Withdraw(c) \/ Forward(c)
  \/ Receive(c)
Retry(c) ==
  \/ JudgeFinal(c) \/ JudgeRetryable(c) \/ Subscribe(c) \/ CheckTransport(c)
  \/ CheckReadiness(c) \/ Wake(c)
CallStep(c) == Attempt(c) \/ Retry(c)
ReaderCloses ==
  ReaderFails \/ ReaderNotifies \/ \E c \in Calls : ReaderSendsError(c)

Next ==
  \/ \E c \in Calls :
       \/ Begin(c) \/ Cancel(c) \/ Expire(c) \/ AcquirePermit(c)
       \/ CallStep(c) \/ TimerPasses(c)
  \/ \E r \in Reports : ReportReadiness(r)
  \/ SendOther \/ Write \/ WriteFails
  \/ \E m \in received, r \in Replies : Deliver(m, r)
  \/ ReaderStops \/ ReaderCloses

Spec == Init /\ [][Next]_vars

\* The tasks of Deixis run, and the semaphore is FIFO; nothing is assumed of
\* the server, of the writer, of the caller or of any timer.
Fairness ==
  /\ \A c \in Calls : WF_vars(CallStep(c)) /\ SF_vars(AcquirePermit(c))
  /\ WF_vars(ReaderCloses)

FairSpec == Spec /\ Fairness

-----------------------------------------------------------------------------
(* Properties                                                              *)

\* Shape of the state, and who has an id.
TypeOK ==
  /\ \A c \in Calls :
       /\ call[c].pc \in PCs
       /\ call[c].outcome \in Verdicts \cup {"open"}
       /\ call[c].attempt \in 0..MaxRetries
       /\ call[c].id \in Ids \cup {0}
       /\ call[c].pc \in {"sending", "awaiting", "withdrawing", "forwarding"}
            => call[c].id # 0
       /\ call[c].slot \in Replies \cup {"no reply", "failure"}
       /\ call[c].pc = "judging" => call[c].slot \in Replies
       /\ call[c].timer \in 0..2
       /\ {call[c].wasBusy, call[c].watching, call[c].cancelled,
           call[c].expired} \subseteq BOOLEAN
       /\ call[c].said \subseteq (0..MaxRetries) \X Replies
  /\ nextId \in Nat \ {0}
  /\ pending \in [Ids -> Calls \cup {NoCall}]
  /\ {failure, writing} \subseteq BOOLEAN
  /\ readiness \in Readiness
  /\ Len(queue) <= Capacity
  /\ reader \in {"reading", "closing", "failed", "ended"}
  /\ unsent \subseteq Calls
  /\ received \subseteq [kind : {"request"}, id : Ids, call : Calls,
                         attempt : 0..MaxRetries]
  /\ delivered \subseteq Ids
  /\ late \subseteq Ids

Said(c, r) == <<call[c].attempt, r>> \in call[c].said

\* What the environment did that justifies each verdict on a call.
Grounds(c) ==
  {r \in {"value", "empty"} : Said(c, r)}
    \cup {v \in {"error"} : \E r \in Errors : Said(c, r)}
    \cup {v \in {"exhausted"} : /\ call[c].attempt = MaxRetries
                                /\ Said(c, "disowned") \/ Said(c, "modified")}
    \cup {v \in {"outdated"} :
            \E r \in Retriggers : <<call[c].attempt - 1, r>> \in call[c].said}
    \cup {v \in {"canceled"} : call[c].cancelled}
    \cup {v \in {"timeout"} : call[c].expired}
    \cup {v \in {"exited"} : failure}
    \cup {v \in {"closed"} : ~writing}
    \cup {v \in {"busy"} : Len(queue) = Capacity}

Contract == INSTANCE CallContract WITH
  Open <- "open",
  verdict <- [c \in Calls |->
                IF At(c, "done") THEN call[c].outcome ELSE "open"],
  grounds <- [c \in Calls |-> Grounds(c)]

\* Every call settles exactly once, and with what really happened to its
\* current attempt: a reply meant for another call or an earlier attempt never
\* completes it, and it is called cancelled only when its caller cancelled.
FulfilsContract == Contract!Spec

\* At most max_concurrent_requests requests wait for a response at a time.
InFlightBounded ==
  Cardinality({i \in Ids : pending[i] # NoCall}) <= MaxConcurrent

\* Once the failure is recorded nobody is left waiting for a response that
\* can no longer come, those who raced the reader for the lock included.
NoneWaitsForTheDead ==
  failure => \A i \in Ids : pending[i] = NoCall

\* The requests that reached the server.
Written(i) == i \in delivered \cup late \/ \E m \in received : m.id = i

\* $/cancelRequest follows the request it cancels, and no request whose reply
\* Deixis has delivered is cancelled.
CancelFollowsRequest ==
  \A k \in 1..Len(queue) :
    queue[k].kind = "cancel" =>
      /\ queue[k].id \notin delivered
      /\ \/ Written(queue[k].id)
         \/ \E j \in 1..k : queue[j] = [queue[k] EXCEPT !.kind = "request"]

\* The replies that disown an attempt: -32801 and an empty result say nothing
\* of a request that is no semantic query.
Disowning(c) == IF c \in Semantic THEN Retriggers ELSE {"disowned"}

\* A request is sent again only after the server disowned the one before; a
\* request whose outcome is uncertain is never replayed, and `initialize` and
\* `shutdown` never are.
ReplaysOnlyTheDisowned ==
  [][\A c \in Calls :
       /\ At(c, "registering")
       /\ call'[c].pc = "sending"
       /\ call[c].id # 0
       => /\ c \notin Lifecycle
          /\ \E r \in Disowning(c) :
               <<call[c].attempt - 1, r>> \in call[c].said]_vars

\* No call waits in vain: a cancelled one, and one whose deadline has passed,
\* returns whatever the server and the other calls do, and one that waits for a
\* permit gets on when no request is in flight any more, though others wait to
\* retry.
NoneWaitsInVain ==
  \A c \in Calls :
    /\ (Active(c) /\ Interrupted(c)) ~> At(c, "done")
    /\ <>[](\A i \in Ids : pending[i] = NoCall) => []<>~At(c, "queued")

\* The end of the server's output reaches every call, also one that waits to
\* retry, without the help of any timer.
ExitReachesCalls ==
  \A c \in Calls : (failure /\ Active(c)) ~> At(c, "done")
=============================================================================
