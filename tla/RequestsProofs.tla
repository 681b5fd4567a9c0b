--------------------------- MODULE RequestsProofs ---------------------------
(***************************************************************************)
(* Proofs about Requests, for every set of calls, every limit and every    *)
(* bound: the shape of the state, who waits for which id, and that each    *)
(* call settles as CallContract says.                                      *)
(***************************************************************************)
EXTENDS Requests, TLAPS, FiniteSetTheorems

-----------------------------------------------------------------------------
(* The inductive invariant: each call by itself                            *)

InPlay == {"sending", "awaiting", "withdrawing"}
WaitPCs == {"subscribing", "checking", "peeking", "pausing"}
BeforePCs == {"idle", "starting", "queued", "validating", "registering"}

Futures ==
  [pc : PCs, outcome : Verdicts \cup {"open"}, attempt : 0..MaxRetries,
   id : Ids \cup {0}, slot : Replies \cup {"no reply", "failure"},
   wasBusy : BOOLEAN, timer : 0..2, watching : BOOLEAN,
   cancelled : BOOLEAN, expired : BOOLEAN,
   said : SUBSET ((0..MaxRetries) \X Replies)]

\* The attempt before this one was disowned by the server.
Retried(c, r) ==
  /\ c \notin Lifecycle
  /\ \E x \in Disowning(c) : <<r.attempt - 1, x>> \in r.said

\* What the place in the code says of a future's locals.
PathOK(c, r) ==
  /\ r.pc = "judging" => r.slot \in Replies
  /\ r.pc \in InPlay \cup {"forwarding"} => r.id # 0
  /\ r.pc = "idle" => r.id = 0
  /\ r.pc = "validating" => r.attempt > 0
  /\ r.pc \in BeforePCs /\ r.id # 0 => r.attempt > 0
  /\ r.pc \in WaitPCs => /\ c \notin Lifecycle
                        /\ r.slot \in Disowning(c)
                        /\ r.attempt < MaxRetries
OutcomeOK(r) ==
  r.pc \in {"withdrawing", "forwarding"} =>
    \/ r.outcome = "canceled" /\ r.cancelled
    \/ r.outcome = "timeout" /\ r.expired
\* Every attempt but the first follows one that was disowned, and a reply in
\* the slot is one to the current attempt.
SaidOK(c, r) ==
  /\ r.attempt > 0 => Retried(c, r)
  /\ r.pc \notin BeforePCs /\ r.slot \in Replies =>
       <<r.attempt, r.slot>> \in r.said

OwnOK(c, r) ==
  r \in Futures /\ PathOK(c, r) /\ OutcomeOK(r) /\ SaidOK(c, r)
OwnInv ==
  /\ call \in [Calls -> Futures]
  /\ \A c \in Calls : OwnOK(c, call[c])

-----------------------------------------------------------------------------
(* The moves of one future                                                 *)

LEMMA OwnOne ==
  ASSUME OwnInv, NEW c \in Calls, NEW r, OwnOK(c, r),
         call' = [call EXCEPT ![c] = r]
  PROVE  OwnInv'
<1>1. r \in Futures
  BY DEF OwnOK
<1>2. call' \in [Calls -> Futures]
  BY <1>1 DEF OwnInv
<1>3. \A d \in Calls : call'[d] = IF d = c THEN r ELSE call[d]
  BY DEF OwnInv
<1>4. \A d \in Calls : OwnOK(d, call'[d])
  BY <1>3 DEF OwnInv
<1> QED
  BY <1>2, <1>4 DEF OwnInv, OwnOK, PathOK, OutcomeOK, SaidOK, Retried

LEMMA FreshOK == Fresh \in Futures
  BY RequestsAssumption DEF Fresh, Futures, PCs, Replies

Finished(o) == [Fresh EXCEPT !.pc = "done", !.outcome = o]

LEMMA FinishedOK ==
  ASSUME NEW c \in Calls, NEW o \in Verdicts
  PROVE  /\ OwnOK(c, Finished(o))
         /\ Finished(o).pc = "done" /\ Finished(o).outcome = o
         /\ Finished(o).id = 0 /\ Finished(o).slot = "no reply"
<1>1. /\ Finished(o).pc = "done" /\ Finished(o).outcome = o
      /\ Finished(o).id = 0 /\ Finished(o).slot = "no reply"
      /\ Finished(o).attempt = 0
  BY DEF Finished, Fresh
<1>2. Finished(o) \in Futures
  BY FreshOK DEF Finished, Futures, PCs
<1> HIDE DEF Finished
<1>3. PathOK(c, Finished(o))
  BY <1>1 DEF PathOK, InPlay, BeforePCs, WaitPCs
<1>4. OutcomeOK(Finished(o))
  BY <1>1 DEF OutcomeOK
<1>5. Finished(o).slot \notin Replies
  BY <1>1 DEF Replies
<1>6. SaidOK(c, Finished(o))
  <2>1. ~(0 > 0)
    OBVIOUS
  <2>2. Finished(o).attempt = 0
    BY <1>1
  <2> QED
    BY <2>1, <2>2, <1>5, Zenon DEF SaidOK
<1> QED
  BY <1>1, <1>2, <1>3, <1>4, <1>6 DEF OwnOK

\* A future that only changes its place.
Placed(c, pc) == [call[c] EXCEPT !.pc = pc]

LEMMA PlacedIs ==
  ASSUME OwnInv, NEW c \in Calls, NEW pc \in PCs
  PROVE  /\ Placed(c, pc) \in Futures
         /\ Placed(c, pc).pc = pc
         /\ Placed(c, pc).outcome = call[c].outcome
         /\ Placed(c, pc).attempt = call[c].attempt
         /\ Placed(c, pc).id = call[c].id
         /\ Placed(c, pc).slot = call[c].slot
         /\ Placed(c, pc).cancelled = call[c].cancelled
         /\ Placed(c, pc).expired = call[c].expired
         /\ Placed(c, pc).said = call[c].said
  BY DEF OwnInv, Futures, Placed

LEMMA PlacedOK ==
  ASSUME OwnInv, NEW c \in Calls, NEW pc \in PCs,
         \/ pc = "starting" /\ call[c].pc = "idle"
         \/ /\ pc = "validating" /\ call[c].pc = "queued"
            /\ call[c].attempt > 0
         \/ pc = "registering" /\ call[c].pc \in {"queued", "validating"}
         \/ pc = "awaiting" /\ call[c].pc = "sending"
         \/ pc = "forwarding" /\ call[c].pc = "withdrawing"
         \/ /\ pc = "judging" /\ call[c].pc = "awaiting"
            /\ call[c].slot \in Replies
         \/ /\ pc = "subscribing" /\ call[c].pc = "judging"
            /\ c \notin Lifecycle /\ call[c].slot \in Disowning(c)
            /\ call[c].attempt < MaxRetries
         \/ pc = "peeking" /\ call[c].pc = "checking"
         \/ pc = "pausing" /\ call[c].pc = "peeking"
  PROVE  OwnOK(c, Placed(c, pc))
<1> DEFINE r == Placed(c, pc)
<1>1. /\ r \in Futures /\ r.pc = pc
      /\ r.outcome = call[c].outcome /\ r.attempt = call[c].attempt
      /\ r.id = call[c].id /\ r.slot = call[c].slot
      /\ r.cancelled = call[c].cancelled /\ r.expired = call[c].expired
      /\ r.said = call[c].said
  BY PlacedIs
<1>2. /\ PathOK(c, call[c]) /\ OutcomeOK(call[c]) /\ SaidOK(c, call[c])
  BY DEF OwnInv, OwnOK
<1> HIDE DEF r
<1>3. PathOK(c, r)
  BY <1>1, <1>2 DEF PathOK, InPlay, WaitPCs, BeforePCs
<1>4. OutcomeOK(r)
  BY <1>1, <1>2 DEF OutcomeOK
<1>5. SaidOK(c, r)
  BY <1>1, <1>2 DEF SaidOK, Retried, BeforePCs
<1>6. OwnOK(c, r)
  BY <1>1, <1>3, <1>4, <1>5 DEF OwnOK
<1> QED
  BY <1>6 DEF r

-----------------------------------------------------------------------------
(* The inductive invariant: who waits for which id                         *)

PendingOK(i, c) ==
  /\ c \in Calls
  /\ call[c].id = i /\ call[c].pc \in InPlay /\ call[c].slot = "no reply"
  /\ i \notin delivered

IdInv ==
  /\ nextId \in Nat \ {0}
  /\ \A c \in Calls : call[c].id < nextId
  /\ \A c, d \in Calls : call[c].id = call[d].id /\ c # d => call[c].id = 0
  /\ delivered \subseteq Ids /\ \A i \in delivered : i < nextId

WaitInv ==
  /\ pending \in [Ids -> Calls \cup {NoCall}]
  /\ \A i \in Ids : pending[i] # NoCall => PendingOK(i, pending[i])
  /\ \A c \in Calls : At(c, "forwarding") =>
       pending[call[c].id] = NoCall /\ call[c].id \notin delivered

FailInv ==
  /\ failure \in BOOLEAN
  /\ reader \in {"reading", "closing", "failed", "ended"}
  /\ failure <=> reader \in {"failed", "ended"}
  /\ failure => \A i \in Ids : pending[i] = NoCall
  /\ unsent \subseteq Calls
  /\ unsent # {} => failure
  /\ \A c \in unsent :
       At(c, "done") \/ (call[c].pc \in InPlay /\ call[c].slot = "no reply")
  /\ \A c \in Calls : call[c].slot = "failure" => failure

\* What is on its way to the server or with it.
Packets ==
  [kind : {"request", "cancel", "other"}, id : Ids \cup {0},
   call : Calls \cup {NoCall}, attempt : 0..MaxRetries]
Wanted(m) ==
  /\ m \in [kind : {"request"}, id : Ids, call : Calls,
            attempt : 0..MaxRetries]
  /\ m.id < nextId
  /\ pending[m.id] # NoCall =>
       m.call = pending[m.id] /\ m.attempt = call[m.call].attempt
Revoked(i) ==
  i \in Ids /\ i < nextId /\ pending[i] = NoCall /\ i \notin delivered
Requested(k) ==
  \/ Written(queue[k].id)
  \/ \E j \in 1..k : queue[j] = [queue[k] EXCEPT !.kind = "request"]
Sent(c) ==
  \/ Written(call[c].id)
  \/ \E j \in 1..Len(queue) : queue[j] = Message("request", c)

QueueInv ==
  /\ readiness \in Readiness
  /\ writing \in BOOLEAN
  /\ queue \in Seq(Packets) /\ Len(queue) <= Capacity
  /\ late \subseteq Ids
FlightInv ==
  /\ \A m \in received : Wanted(m)
  /\ \A k \in 1..Len(queue) : queue[k].kind = "request" => Wanted(queue[k])
  /\ \A k \in 1..Len(queue) : queue[k].kind = "cancel" =>
       Revoked(queue[k].id) /\ Requested(k)
  /\ writing => \A c \in Calls :
       call[c].pc \in {"awaiting", "withdrawing", "forwarding"} => Sent(c)

Inv == OwnInv /\ IdInv /\ WaitInv /\ FailInv /\ QueueInv /\ FlightInv

-----------------------------------------------------------------------------
(* Steps that only move futures                                            *)

\* The future keeps what the other tasks know of it.
Kept(c, r) ==
  /\ r.id = call[c].id /\ r.slot = call[c].slot /\ r.attempt = call[c].attempt
  /\ r.pc = call[c].pc \/ (At(c, "awaiting") /\ r.pc = "withdrawing")
\* Nobody waits to complete it, before the step or after it.
Free(c, r) ==
  /\ ~At(c, "done")
  /\ call[c].pc \notin InPlay \/ call[c].slot # "no reply"
  /\ r.pc \notin InPlay \cup {"forwarding"}
  /\ r.id \in {0, call[c].id} /\ r.slot \in {call[c].slot, "no reply"}
\* It settles with grounds for it, or does not.
Settles(c, r) ==
  IF At(c, "done")
  THEN r.pc = "done" /\ r.outcome = call[c].outcome
  ELSE r.pc = "done" => r.outcome \in Grounds(c) /\ r.outcome # "open"

Moves(c, r) ==
  /\ call' = [call EXCEPT ![c] = r]
  /\ OwnOK(c, r)
  /\ Kept(c, r) \/ Free(c, r)
  /\ Settles(c, r)

LEMMA Waiting ==
  ASSUME Inv, NEW i \in Ids, pending[i] # NoCall
  PROVE  /\ pending[i] \in Calls /\ call[pending[i]].id = i
         /\ call[pending[i]].pc \in InPlay
         /\ call[pending[i]].slot = "no reply"
         /\ i \notin delivered
  BY DEF Inv, WaitInv, PendingOK


\* A step after which the tasks find every future where they left it.
Sends(c, r) ==
  /\ r.id = call[c].id /\ r.slot = call[c].slot /\ r.attempt = call[c].attempt
  /\ At(c, "sending") /\ r.pc = "awaiting"
Calm ==
  /\ call' \in [Calls -> Futures]
  /\ \A c \in Calls :
       Kept(c, call'[c]) \/ Free(c, call'[c]) \/ Sends(c, call'[c])
  /\ nextId' \in {nextId, nextId + 1}
  /\ UNCHANGED <<pending, failure, inbound, delivered>>

LEMMA IdsBelow ==
  ASSUME Inv
  PROVE  /\ nextId \in Nat \ {0}
         /\ \A c \in Calls : call[c].id \in Nat /\ call[c].id < nextId
         /\ \A i \in delivered : i \in Nat /\ i < nextId
<1>1. \A c \in Calls : call[c].id \in Ids \cup {0}
  BY DEF Inv, OwnInv, Futures
<1>2. Ids \cup {0} \subseteq Nat
  BY RequestsAssumption DEF Ids
<1> QED
  BY <1>1, <1>2 DEF Inv, IdInv

LEMMA CalmLinks ==
  ASSUME Inv, Calm
  PROVE  IdInv' /\ WaitInv' /\ FailInv'
<1>1. \A c \in Calls :
        Kept(c, call'[c]) \/ Free(c, call'[c]) \/ Sends(c, call'[c])
  BY DEF Calm
<1>2. /\ nextId' \in {nextId, nextId + 1} /\ pending' = pending
      /\ failure' = failure /\ reader' = reader /\ unsent' = unsent
      /\ delivered' = delivered
  BY DEF Calm, inbound
<1>3. \A c \in Calls : call'[c].id \in {0, call[c].id}
  BY <1>1 DEF Kept, Free, Sends
<1>4. IdInv'
  <2>1. nextId' \in Nat \ {0} /\ \A n \in Nat : n < nextId => n < nextId'
    BY <1>2, IdsBelow
  <2>2. \A c \in Calls : call'[c].id < nextId'
    BY <1>3, <2>1, IdsBelow
  <2>3. \A i \in delivered : i < nextId'
    BY <2>1, IdsBelow
  <2>4. \A c, d \in Calls :
          call'[c].id = call'[d].id /\ c # d => call'[c].id = 0
    BY <1>3 DEF Inv, IdInv
  <2>5. delivered \subseteq Ids
    BY DEF Inv, IdInv
  <2> QED
    BY <1>2, <2>1, <2>2, <2>3, <2>4, <2>5 DEF IdInv
<1>5. WaitInv'
  <2>1. ASSUME NEW i \in Ids, pending[i] # NoCall
        PROVE  PendingOK(i, pending[i])'
    <3> DEFINE c == pending[i]
    <3>1. /\ c \in Calls /\ call[c].id = i /\ call[c].pc \in InPlay
          /\ call[c].slot = "no reply" /\ i \notin delivered
      BY <2>1, Waiting
    <3>2. Kept(c, call'[c]) \/ Sends(c, call'[c])
      BY <1>1, <3>1 DEF Free
    <3>3. call'[c].pc \in InPlay
      BY <3>1, <3>2 DEF Kept, Sends, InPlay
    <3> QED
      BY <1>2, <3>1, <3>2, <3>3 DEF PendingOK, Kept, Sends
  <2>2. ASSUME NEW c \in Calls, call'[c].pc = "forwarding"
        PROVE  pending[call'[c].id] = NoCall /\ call'[c].id \notin delivered
    <3>1. Kept(c, call'[c])
      BY <1>1, <2>2 DEF Free, Sends
    <3>2. At(c, "forwarding") /\ call'[c].id = call[c].id
      BY <3>1, <2>2 DEF Kept, At
    <3> QED
      BY <3>2 DEF Inv, WaitInv
  <2> QED
    BY <1>2, <2>1, <2>2 DEF Inv, WaitInv, At
<1>6. FailInv'
  <2>1. ASSUME NEW c \in unsent
        PROVE  \/ call'[c].pc = "done"
               \/ call'[c].pc \in InPlay /\ call'[c].slot = "no reply"
    <3>1. c \in Calls
      BY DEF Inv, FailInv
    <3>2. \/ At(c, "done")
          \/ call[c].pc \in InPlay /\ call[c].slot = "no reply"
      BY DEF Inv, FailInv
    <3>3. Kept(c, call'[c]) \/ Sends(c, call'[c])
      BY <1>1, <3>1, <3>2 DEF Free
    <3> QED
      BY <3>2, <3>3 DEF Kept, Sends, At, InPlay
  <2>2. \A c \in Calls : call'[c].slot = "failure" => failure
    BY <1>1 DEF Kept, Free, Sends, Inv, FailInv
  <2> QED
    BY <1>2, <2>1, <2>2 DEF Inv, FailInv, At
<1> QED
  BY <1>4, <1>5, <1>6

\* The requests and the cancellations on their way, after a step that leaves
\* the queue alone.
OnTheWay == {"awaiting", "withdrawing", "forwarding"}

LEMMA FlightKeeps ==
  ASSUME Inv, UNCHANGED <<queue, writing>>, received' \subseteq received,
         nextId' \in Nat, nextId' >= nextId,
         \A i \in Ids : i < nextId /\ pending'[i] # NoCall =>
           /\ pending'[i] = pending[i]
           /\ call'[pending[i]].attempt = call[pending[i]].attempt,
         \A i : Written(i) => Written(i)',
         \A i \in delivered' : i \in delivered \/ pending[i] # NoCall,
         \A c \in Calls : call'[c].pc \in OnTheWay =>
           /\ call[c].pc \in OnTheWay
           /\ call'[c].id = call[c].id /\ call'[c].attempt = call[c].attempt
  PROVE  FlightInv'
<1>1. \A i \in Ids : i < nextId => i < nextId'
  BY IdsBelow, RequestsAssumption DEF Ids
<1>2. ASSUME NEW m, Wanted(m)
      PROVE  Wanted(m)'
  <2>1. m.id \in Ids /\ m.id < nextId
    BY <1>2 DEF Wanted
  <2>2. ASSUME pending'[m.id] # NoCall
        PROVE  m.call = pending'[m.id] /\ m.attempt = call'[m.call].attempt
    BY <1>2, <2>1, <2>2 DEF Wanted
  <2> QED
    BY <1>1, <1>2, <2>1, <2>2 DEF Wanted
<1>3. ASSUME NEW i, Revoked(i)
      PROVE  Revoked(i)'
  BY <1>1, <1>3 DEF Revoked
<1>4. \A k \in 1..Len(queue) : Requested(k) => Requested(k)'
  BY DEF Requested
<1>5. ASSUME writing, NEW c \in Calls, call'[c].pc \in OnTheWay
      PROVE  Sent(c)'
  <2>1. /\ call[c].pc \in OnTheWay /\ call'[c].id = call[c].id
        /\ call'[c].attempt = call[c].attempt
    BY <1>5
  <2>2. Sent(c)
    BY <1>5, <2>1 DEF Inv, FlightInv, OnTheWay
  <2>3. Message("request", c)' = Message("request", c)
    BY <2>1 DEF Message
  <2> QED
    BY <2>1, <2>2, <2>3 DEF Sent
<1>6. \A m \in received' : Wanted(m)'
  BY <1>2 DEF Inv, FlightInv
<1>7. \A k \in 1..Len(queue') : queue'[k].kind = "request" => Wanted(queue[k])'
  BY <1>2 DEF Inv, FlightInv
<1>8. \A k \in 1..Len(queue') :
        queue'[k].kind = "cancel" => Revoked(queue[k].id)' /\ Requested(k)'
  BY <1>3, <1>4 DEF Inv, FlightInv
<1> QED
  BY <1>5, <1>6, <1>7, <1>8 DEF FlightInv, OnTheWay

LEMMA CalmFlight ==
  ASSUME Inv, Calm, \A c \in Calls : ~Sends(c, call'[c]),
         UNCHANGED <<outbound, serverSide>>
  PROVE  FlightInv'
<1>1. \A c \in Calls : Kept(c, call'[c]) \/ Free(c, call'[c])
  BY DEF Calm
<1>2. /\ nextId' \in {nextId, nextId + 1} /\ pending' = pending
      /\ queue' = queue /\ writing' = writing /\ received' = received
      /\ delivered' = delivered /\ late' = late
  BY DEF Calm, outbound, serverSide
<1>3. nextId' \in Nat /\ nextId' >= nextId
  BY <1>2, IdsBelow
<1>4. ASSUME NEW i \in Ids, pending[i] # NoCall
      PROVE  call'[pending[i]].attempt = call[pending[i]].attempt
  <2>1. /\ pending[i] \in Calls /\ call[pending[i]].pc \in InPlay
        /\ call[pending[i]].slot = "no reply"
    BY <1>4, Waiting
  <2>2. ~Free(pending[i], call'[pending[i]])
    BY <2>1 DEF Free
  <2>3. Kept(pending[i], call'[pending[i]])
    BY <1>1, <2>1, <2>2
  <2> QED
    BY <2>3 DEF Kept
<1>5. ASSUME NEW c \in Calls, call'[c].pc \in OnTheWay
      PROVE  /\ call[c].pc \in OnTheWay
             /\ call'[c].id = call[c].id /\ call'[c].attempt = call[c].attempt
  BY <1>1, <1>5 DEF Free, Kept, At, InPlay, OnTheWay
<1>6. \A i : Written(i) => Written(i)'
  BY <1>2 DEF Written
<1> QED
  BY <1>2, <1>3, <1>4, <1>5, <1>6, FlightKeeps

-----------------------------------------------------------------------------
(* The grounds of a verdict                                                *)

LEMMA GroundsAre ==
  \A c : Grounds(c) \subseteq Verdicts /\ "open" \notin Verdicts
<1> TAKE c
<1> QED
  BY DEF Grounds, Verdicts

LEMMA ToldGrounds ==
  ASSUME NEW c
  PROVE  /\ \A x \in {"value", "empty"} : Said(c, x) => x \in Grounds(c)
         /\ \A x \in Errors : Said(c, x) => "error" \in Grounds(c)
         /\ \A x \in {"disowned", "modified"} :
              Said(c, x) /\ call[c].attempt = MaxRetries
                => "exhausted" \in Grounds(c)
         /\ \A x \in Retriggers :
              <<call[c].attempt - 1, x>> \in call[c].said
                => "outdated" \in Grounds(c)
<1> DEFINE told == {x \in {"value", "empty"} : Said(c, x)}
           wrong == {v \in {"error"} : \E x \in Errors : Said(c, x)}
           spent == {v \in {"exhausted"} :
                       /\ call[c].attempt = MaxRetries
                       /\ Said(c, "disowned") \/ Said(c, "modified")}
           stale == {v \in {"outdated"} :
             \E x \in Retriggers : <<call[c].attempt - 1, x>> \in call[c].said}
<1>1. told \cup wrong \cup spent \cup stale \subseteq Grounds(c)
  BY DEF Grounds
<1>2. \A x \in {"value", "empty"} : Said(c, x) => x \in told
  OBVIOUS
<1>3. \A x \in Errors : Said(c, x) => "error" \in wrong
  OBVIOUS
<1>4. \A x \in {"disowned", "modified"} :
        Said(c, x) /\ call[c].attempt = MaxRetries => "exhausted" \in spent
  OBVIOUS
<1>5. \A x \in Retriggers :
        <<call[c].attempt - 1, x>> \in call[c].said => "outdated" \in stale
  OBVIOUS
<1> HIDE DEF told, wrong, spent, stale
<1> QED
  BY <1>1, <1>2, <1>3, <1>4, <1>5

LEMMA EventGrounds ==
  ASSUME NEW c
  PROVE  /\ call[c].cancelled => "canceled" \in Grounds(c)
         /\ call[c].expired => "timeout" \in Grounds(c)
         /\ Interrupted(c) => Interruption(c) \in Grounds(c)
         /\ failure => "exited" \in Grounds(c)
         /\ ~writing => "closed" \in Grounds(c)
         /\ Len(queue) = Capacity => "busy" \in Grounds(c)
<1>1. /\ call[c].cancelled => "canceled" \in Grounds(c)
      /\ call[c].expired => "timeout" \in Grounds(c)
      /\ failure => "exited" \in Grounds(c)
      /\ ~writing => "closed" \in Grounds(c)
      /\ Len(queue) = Capacity => "busy" \in Grounds(c)
  BY DEF Grounds
<1> QED
  BY <1>1 DEF Interrupted, Interruption

-----------------------------------------------------------------------------
(* The steps of a call that only move its future                           *)

LEMMA FinishMoves ==
  ASSUME Inv, NEW c \in Calls, NEW o \in Grounds(c), Finish(c, o),
         ~At(c, "done"), call[c].pc \notin InPlay \/ call[c].slot # "no reply"
  PROVE  Moves(c, Finished(o))
<1>1. o \in Verdicts /\ o # "open"
  BY GroundsAre
<1>2. /\ OwnOK(c, Finished(o))
      /\ Finished(o).pc = "done" /\ Finished(o).outcome = o
      /\ Finished(o).id = 0 /\ Finished(o).slot = "no reply"
  BY <1>1, FinishedOK
<1>3. call' = [call EXCEPT ![c] = Finished(o)]
  BY DEF Finish, Finished
<1> HIDE DEF Finished
<1>4. Free(c, Finished(o))
  BY <1>2 DEF Free, InPlay
<1>5. Settles(c, Finished(o))
  BY <1>1, <1>2 DEF Settles
<1> QED
  BY <1>2, <1>3, <1>4, <1>5 DEF Moves

LEMMA PlaceMoves ==
  ASSUME Inv, NEW c \in Calls, NEW pc \in PCs, Goto(c, pc),
         OwnOK(c, Placed(c, pc)), ~At(c, "done"),
         call[c].pc \notin InPlay \/ call[c].slot # "no reply",
         pc \notin InPlay \cup {"forwarding", "done"}
  PROVE  Moves(c, Placed(c, pc))
<1>1. /\ Placed(c, pc).pc = pc /\ Placed(c, pc).id = call[c].id
      /\ Placed(c, pc).slot = call[c].slot
  BY PlacedIs DEF Inv
<1>2. call' = [call EXCEPT ![c] = Placed(c, pc)]
  BY DEF Goto, Placed
<1> HIDE DEF Placed
<1>3. Free(c, Placed(c, pc))
  BY <1>1 DEF Free
<1>4. Settles(c, Placed(c, pc))
  BY <1>1 DEF Settles
<1> QED
  BY <1>2, <1>3, <1>4 DEF Moves

LEMMA OwnState ==
  ASSUME Inv, NEW c \in Calls
  PROVE  /\ call \in [Calls -> Futures]
         /\ call[c] \in Futures /\ OwnOK(c, call[c])
         /\ PathOK(c, call[c]) /\ OutcomeOK(call[c]) /\ SaidOK(c, call[c])
  BY DEF Inv, OwnInv, OwnOK

LEMMA StartingMoves ==
  ASSUME Inv, NEW c \in Calls, Begin(c) \/ StartAttempt(c)
  PROVE  \E r : Moves(c, r)
<1>1. CASE Begin(c)
  <2>1. OwnOK(c, Placed(c, "starting"))
    BY <1>1, PlacedOK DEF Begin, At, PCs, Inv
  <2> QED
    BY <1>1, <2>1, PlaceMoves DEF Begin, At, PCs, InPlay
<1>2. CASE StartAttempt(c) /\ call[c].cancelled
  <2>1. Finish(c, "canceled") /\ "canceled" \in Grounds(c)
    BY <1>2, EventGrounds DEF StartAttempt
  <2> QED
    BY <1>2, <2>1, FinishMoves DEF StartAttempt, At, InPlay
<1>3. CASE StartAttempt(c) /\ ~call[c].cancelled
  <2> DEFINE b == readiness = "busy"
             r == [call[c] EXCEPT !.pc = "queued", !.wasBusy = b]
  <2>1. call' = [call EXCEPT ![c] = r] /\ b \in BOOLEAN
    BY <1>3, OwnState DEF StartAttempt
  <2> HIDE DEF b
  <2>2. /\ r \in Futures /\ r.pc = "queued" /\ r.attempt = call[c].attempt
        /\ r.id = call[c].id /\ r.slot = call[c].slot
        /\ r.said = call[c].said
    <3>1. "queued" \in PCs
      BY DEF PCs
    <3>2. call[c] \in Futures
      BY OwnState
    <3>3. r \in Futures
      BY <2>1, <3>1, <3>2 DEF Futures
    <3> QED
      BY <3>2, <3>3 DEF Futures
  <2> HIDE DEF r
  <2>3. At(c, "starting")
    BY <1>3 DEF StartAttempt
  <2>4. PathOK(c, r)
    BY <2>2, <2>3, OwnState DEF PathOK, At, InPlay, BeforePCs, WaitPCs
  <2>5. OutcomeOK(r)
    BY <2>2 DEF OutcomeOK
  <2>6. SaidOK(c, r)
    BY <2>2, <2>3, OwnState DEF SaidOK, Retried, At, BeforePCs
  <2>7. Free(c, r) /\ Settles(c, r)
    BY <2>2, <2>3 DEF Free, Settles, At, InPlay
  <2> QED
    BY <2>1, <2>2, <2>4, <2>5, <2>6, <2>7 DEF Moves, OwnOK
<1> QED
  BY <1>1, <1>2, <1>3

LEMMA BeforeSendMoves ==
  ASSUME Inv, NEW c \in Calls,
         AcquirePermit(c) \/ InterruptBeforeSend(c) \/ Validate(c)
  PROVE  \E r : Moves(c, r)
<1>1. CASE AcquirePermit(c)
  <2> DEFINE pc == IF c \in Semantic /\ call[c].attempt > 0
                   THEN "validating" ELSE "registering"
  <2>1. /\ At(c, "queued") /\ Goto(c, pc)
        /\ pc \in {"validating", "registering"} /\ pc \in PCs
        /\ pc = "validating" => call[c].attempt > 0
    BY <1>1 DEF AcquirePermit, Granted, PCs
  <2> HIDE DEF pc
  <2>2. OwnOK(c, Placed(c, pc))
    BY <2>1, PlacedOK DEF At, Inv
  <2> QED
    BY <2>1, <2>2, PlaceMoves DEF At, InPlay
<1>2. CASE InterruptBeforeSend(c)
  <2>1. Finish(c, Interruption(c)) /\ Interruption(c) \in Grounds(c)
    BY <1>2, EventGrounds DEF InterruptBeforeSend
  <2> QED
    BY <1>2, <2>1, FinishMoves DEF InterruptBeforeSend, At, InPlay
<1>3. CASE Validate(c) /\ Goto(c, "registering")
  <2>1. OwnOK(c, Placed(c, "registering"))
    BY <1>3, PlacedOK DEF Validate, At, PCs, Inv
  <2> QED
    BY <1>3, <2>1, PlaceMoves DEF Validate, At, PCs, InPlay
<1>4. CASE Validate(c) /\ Finish(c, "outdated")
  <2>1. call[c].attempt > 0
    BY <1>4, OwnState DEF Validate, At, PathOK
  <2>2. Retried(c, call[c])
    BY <2>1, OwnState DEF SaidOK
  <2>3. "outdated" \in Grounds(c)
    BY <2>2, ToldGrounds DEF Retried, Disowning, Retriggers
  <2> QED
    BY <1>4, <2>3, FinishMoves DEF Validate, At, InPlay
<1> QED
  BY <1>1, <1>2, <1>3, <1>4 DEF Validate

LEMMA ReceiveMoves ==
  ASSUME Inv, NEW c \in Calls, Receive(c)
  PROVE  \E r : Moves(c, r)
<1>1. At(c, "awaiting") /\ call[c].slot # "no reply"
  BY DEF Receive
<1>2. CASE call[c].slot = "failure"
  <2>1. failure
    BY <1>2 DEF Inv, FailInv
  <2>2. Finish(c, "exited") /\ "exited" \in Grounds(c)
    BY <1>2, <2>1, EventGrounds DEF Receive
  <2> QED
    BY <1>1, <2>2, FinishMoves DEF At
<1>3. CASE call[c].slot # "failure"
  <2>1. call[c].slot \in Replies /\ Goto(c, "judging")
    BY <1>1, <1>3, OwnState DEF Receive, Futures
  <2>2. OwnOK(c, Placed(c, "judging"))
    BY <1>1, <2>1, PlacedOK DEF At, PCs, Inv
  <2> QED
    BY <1>1, <2>1, <2>2, PlaceMoves DEF At, PCs, InPlay
<1> QED
  BY <1>2, <1>3

LEMMA JudgeMoves ==
  ASSUME Inv, NEW c \in Calls, JudgeFinal(c) \/ JudgeRetryable(c)
  PROVE  \E r : Moves(c, r)
<1> DEFINE x == call[c].slot
<1>1. /\ At(c, "judging") /\ x \in Replies /\ Said(c, x)
      /\ call[c].attempt \in 0..MaxRetries
  <2>1. At(c, "judging")
    BY DEF JudgeFinal, JudgeRetryable
  <2>2. x \in Replies /\ call[c].attempt \in 0..MaxRetries
    BY <2>1, OwnState DEF PathOK, At, Futures
  <2>3. Said(c, x)
    BY <2>1, <2>2, OwnState DEF SaidOK, At, BeforePCs, Said
  <2> QED
    BY <2>1, <2>2, <2>3
<1>2. \A o \in Grounds(c) : Finish(c, o) => \E r : Moves(c, r)
  BY <1>1, FinishMoves DEF At, InPlay
<1>3. CASE JudgeFinal(c)
  <2> DEFINE o == IF x \in Errors THEN "error" ELSE x
  <2>1. Finish(c, o)
    BY <1>3 DEF JudgeFinal
  <2>2. x \in Errors => "error" \in Grounds(c)
    BY <1>1, ToldGrounds
  <2>3. x \notin Errors => x \in Grounds(c)
    BY <1>1, ToldGrounds DEF Replies, Errors
  <2>4. o \in Grounds(c)
    BY <2>2, <2>3
  <2> QED
    BY <2>1, <2>4, <1>2
<1>4. CASE JudgeRetryable(c)
  <2>1. Retryable(c, x)
    BY <1>4 DEF JudgeRetryable
  <2>2. x \in Disowning(c) /\ x \in Retriggers /\ c \notin Lifecycle
    BY <2>1, RequestsAssumption DEF Retryable, Disowning, Retriggers
  <2>3. CASE Interrupted(c)
    <3>1. Finish(c, Interruption(c))
      BY <1>4, <2>3 DEF JudgeRetryable
    <3> QED
      BY <3>1, <1>2, <2>3, EventGrounds
  <2>4. CASE ~Interrupted(c) /\ call[c].attempt = MaxRetries
    <3> DEFINE o == IF x = "empty" THEN "empty" ELSE "exhausted"
    <3>1. Finish(c, o)
      BY <1>4, <2>4 DEF JudgeRetryable
    <3>2. x = "empty" => "empty" \in Grounds(c)
      BY <1>1, ToldGrounds
    <3>3. x # "empty" => "exhausted" \in Grounds(c)
      BY <1>1, <2>2, <2>4, ToldGrounds DEF Retriggers
    <3>4. o \in Grounds(c)
      BY <3>2, <3>3
    <3> QED
      BY <3>1, <3>4, <1>2
  <2>5. CASE ~Interrupted(c) /\ call[c].attempt # MaxRetries
    <3>1. Goto(c, "subscribing")
      BY <1>4, <2>5 DEF JudgeRetryable
    <3>2. call[c].attempt < MaxRetries
      BY <1>1, <2>5, RequestsAssumption
    <3>3. OwnOK(c, Placed(c, "subscribing"))
      BY <1>1, <2>2, <3>2, PlacedOK DEF At, PCs, Inv
    <3> QED
      BY <1>1, <3>1, <3>3, PlaceMoves DEF At, PCs, InPlay
  <2> QED
    BY <2>3, <2>4, <2>5
<1> QED
  BY <1>3, <1>4

\* A future that waits to retry moves on, and takes nothing but its timer and
\* its subscription with it.
LEMMA PauseMoves ==
  ASSUME Inv, NEW c \in Calls, call[c].pc \in WaitPCs,
         NEW r, r \in Futures, call' = [call EXCEPT ![c] = r],
         r.pc \in WaitPCs, r.id = call[c].id, r.slot = call[c].slot,
         r.attempt = call[c].attempt, r.said = call[c].said
  PROVE  Moves(c, r)
<1>1. PathOK(c, r)
  BY OwnState DEF PathOK, InPlay, WaitPCs, BeforePCs
<1>2. OutcomeOK(r)
  BY DEF OutcomeOK, WaitPCs
<1>3. SaidOK(c, r)
  BY OwnState DEF SaidOK, Retried, WaitPCs, BeforePCs
<1>4. Free(c, r) /\ Settles(c, r)
  BY DEF Free, Settles, At, InPlay, WaitPCs
<1> QED
  BY <1>1, <1>2, <1>3, <1>4 DEF Moves, OwnOK

LEMMA WaitingMoves ==
  ASSUME Inv, NEW c \in Calls,
         Subscribe(c) \/ CheckTransport(c) \/ TimerPasses(c) \/ Wake(c)
  PROVE  \E r : Moves(c, r)
<1>1. \A o \in Grounds(c) :
        call[c].pc \in WaitPCs /\ Finish(c, o) => \E r : Moves(c, r)
  BY FinishMoves DEF At, InPlay, WaitPCs
<1>2. CASE Subscribe(c) /\ Interrupted(c)
  BY <1>1, <1>2, EventGrounds DEF Subscribe, At, WaitPCs
<1>3. CASE Subscribe(c) /\ ~Interrupted(c)
  <2> DEFINE r == [call[c] EXCEPT !.pc = "checking", !.watching = TRUE]
  <2>1. call' = [call EXCEPT ![c] = r]
    BY <1>3, OwnState DEF Subscribe
  <2>2. /\ r \in Futures /\ r.pc = "checking" /\ r.attempt = call[c].attempt
        /\ r.id = call[c].id /\ r.slot = call[c].slot
        /\ r.said = call[c].said
    <3>1. "checking" \in PCs
      BY DEF PCs
    <3>2. call[c] \in Futures
      BY OwnState
    <3>3. r \in Futures
      BY <3>1, <3>2 DEF Futures
    <3> QED
      BY <3>2, <3>3 DEF Futures
  <2>3. call[c].pc \in WaitPCs /\ r.pc \in WaitPCs
    BY <1>3, <2>2 DEF Subscribe, At, WaitPCs
  <2> HIDE DEF r
  <2> QED
    BY <2>1, <2>2, <2>3, PauseMoves
<1>4. CASE CheckTransport(c) /\ failure
  BY <1>1, <1>4, EventGrounds DEF CheckTransport, At, WaitPCs
<1>5. CASE CheckTransport(c) /\ ~failure
  <2>1. OwnOK(c, Placed(c, "peeking"))
    BY <1>5, PlacedOK DEF CheckTransport, At, PCs, Inv
  <2> QED
    BY <1>5, <2>1, PlaceMoves DEF CheckTransport, At, PCs, InPlay
<1>6. CASE TimerPasses(c) /\ At(c, "pausing")
  <2> DEFINE n == call[c].timer + 1
             r == [call[c] EXCEPT !.timer = n, !.pc = "subscribing",
                                  !.watching = FALSE]
  <2>1. call' = [call EXCEPT ![c] = r]
    BY <1>6, OwnState DEF TimerPasses
  <2>2. n \in 0..2
    <3>1. call[c].timer \in 0..2
      BY OwnState DEF Futures
    <3>2. call[c].timer < 2
      BY <1>6 DEF TimerPasses
    <3> QED
      BY <3>1, <3>2
  <2> HIDE DEF n
  <2>3. /\ r \in Futures /\ r.pc = "subscribing"
        /\ r.attempt = call[c].attempt /\ r.id = call[c].id
        /\ r.slot = call[c].slot /\ r.said = call[c].said
    <3>1. "subscribing" \in PCs
      BY DEF PCs
    <3>2. call[c] \in Futures
      BY OwnState
    <3>3. r \in Futures
      BY <2>2, <3>1, <3>2 DEF Futures
    <3> QED
      BY <3>2, <3>3 DEF Futures
  <2>4. call[c].pc \in WaitPCs /\ r.pc \in WaitPCs
    BY <1>6, <2>3 DEF At, WaitPCs
  <2> HIDE DEF r
  <2> QED
    BY <2>1, <2>3, <2>4, PauseMoves
<1>7. CASE TimerPasses(c) /\ ~At(c, "pausing")
  <2> DEFINE r == [call[c] EXCEPT !.timer = @ + 1]
  <2>1. call' = [call EXCEPT ![c] = r]
    BY <1>7, OwnState DEF TimerPasses
  <2>2. call[c].timer + 1 \in 0..2
    <3>1. call[c].timer \in 0..2
      BY OwnState DEF Futures
    <3>2. call[c].timer < 2
      BY <1>7 DEF TimerPasses
    <3> QED
      BY <3>1, <3>2
  <2>3. /\ r \in Futures /\ r.pc = call[c].pc
        /\ r.attempt = call[c].attempt /\ r.id = call[c].id
        /\ r.slot = call[c].slot /\ r.said = call[c].said
    BY <2>2, OwnState DEF Futures
  <2>4. call[c].pc \in WaitPCs /\ r.pc \in WaitPCs
    BY <1>7, <2>3 DEF TimerPasses, WaitPCs
  <2> HIDE DEF r
  <2> QED
    BY <2>1, <2>3, <2>4, PauseMoves
<1>8. CASE Wake(c)
  <2> DEFINE r == [call[c] EXCEPT !.pc = "subscribing", !.watching = FALSE]
  <2>1. call' = [call EXCEPT ![c] = r]
    BY <1>8, OwnState DEF Wake
  <2>2. /\ r \in Futures /\ r.pc = "subscribing"
        /\ r.attempt = call[c].attempt /\ r.id = call[c].id
        /\ r.slot = call[c].slot /\ r.said = call[c].said
    <3>1. "subscribing" \in PCs
      BY DEF PCs
    <3>2. call[c] \in Futures
      BY OwnState
    <3>3. r \in Futures
      BY <3>1, <3>2 DEF Futures
    <3> QED
      BY <3>2, <3>3 DEF Futures
  <2>3. call[c].pc \in WaitPCs /\ r.pc \in WaitPCs
    BY <1>8, <2>2 DEF Wake, At, WaitPCs
  <2> HIDE DEF r
  <2> QED
    BY <2>1, <2>2, <2>3, PauseMoves
<1> QED
  BY <1>2, <1>3, <1>4, <1>5, <1>6, <1>7, <1>8

LEMMA AgainMoves ==
  ASSUME Inv, NEW c \in Calls, CheckReadiness(c)
  PROVE  \E r : Moves(c, r)
<1>1. At(c, "peeking")
  BY DEF CheckReadiness
<1>2. CASE ~Due(c)
  <2>1. OwnOK(c, Placed(c, "pausing"))
    BY <1>1, PlacedOK DEF At, PCs, Inv
  <2> QED
    BY <1>1, <1>2, <2>1, PlaceMoves DEF CheckReadiness, At, PCs, InPlay
<1>3. CASE Due(c)
  <2> DEFINE n == call[c].attempt + 1
             r == [call[c] EXCEPT !.pc = "starting", !.watching = FALSE,
                                  !.timer = 0, !.attempt = n]
  <2>1. call' = [call EXCEPT ![c] = r]
    BY <1>3, OwnState DEF CheckReadiness
  <2>2. /\ c \notin Lifecycle /\ call[c].slot \in Disowning(c)
        /\ call[c].attempt < MaxRetries /\ call[c].attempt \in 0..MaxRetries
    BY <1>1, OwnState DEF PathOK, At, WaitPCs, Futures
  <2>3. n \in 0..MaxRetries /\ n > 0 /\ n - 1 = call[c].attempt
    BY <2>2, RequestsAssumption
  <2> HIDE DEF n
  <2>4. /\ r \in Futures /\ r.pc = "starting" /\ r.attempt = n
        /\ r.id = call[c].id /\ r.slot = call[c].slot
        /\ r.said = call[c].said
    <3>1. 0 \in 0..2 /\ "starting" \in PCs /\ FALSE \in BOOLEAN
      BY DEF PCs
    <3>2. call[c] \in Futures
      BY OwnState
    <3>3. r \in Futures
      BY <2>3, <3>1, <3>2 DEF Futures
    <3> QED
      BY <3>2, <3>3 DEF Futures
  <2> HIDE DEF r
  <2>5. PathOK(c, r)
    BY <2>3, <2>4 DEF PathOK, InPlay, WaitPCs
  <2>6. OutcomeOK(r)
    BY <2>4 DEF OutcomeOK
  <2>7. <<call[c].attempt, call[c].slot>> \in call[c].said
    BY <1>1, <2>2, OwnState
       DEF SaidOK, At, BeforePCs, Disowning, Retriggers, Replies
  <2>8. <<r.attempt - 1, call[c].slot>> \in r.said
    BY <2>3, <2>4, <2>7
  <2>9. SaidOK(c, r)
    BY <2>2, <2>4, <2>8 DEF SaidOK, Retried, BeforePCs
  <2>10. Free(c, r) /\ Settles(c, r)
    BY <1>1, <2>4 DEF Free, Settles, At, InPlay
  <2> QED
    BY <2>1, <2>4, <2>5, <2>6, <2>9, <2>10 DEF Moves, OwnOK
<1> QED
  BY <1>2, <1>3

LEMMA InterruptedMoves ==
  ASSUME Inv, NEW c \in Calls, Cancel(c) \/ Expire(c) \/ Interrupt(c)
  PROVE  \E r : Moves(c, r)
<1>1. CASE Cancel(c)
  <2> DEFINE r == [call[c] EXCEPT !.cancelled = TRUE]
  <2>1. call' = [call EXCEPT ![c] = r] /\ ~At(c, "done")
    BY <1>1, OwnState DEF Cancel, Active, At
  <2>2. /\ r \in Futures /\ r.pc = call[c].pc /\ r.outcome = call[c].outcome
        /\ r.attempt = call[c].attempt /\ r.id = call[c].id
        /\ r.slot = call[c].slot /\ r.said = call[c].said
        /\ r.cancelled /\ r.expired = call[c].expired
    BY OwnState DEF Futures
  <2> HIDE DEF r
  <2>3. PathOK(c, r)
    BY <2>2, OwnState DEF PathOK
  <2>4. OutcomeOK(r)
    BY <2>2, OwnState DEF OutcomeOK
  <2>5. SaidOK(c, r)
    BY <2>2, OwnState DEF SaidOK, Retried
  <2>6. Kept(c, r) /\ Settles(c, r)
    BY <2>1, <2>2 DEF Kept, Settles, At
  <2> QED
    BY <2>1, <2>2, <2>3, <2>4, <2>5, <2>6 DEF Moves, OwnOK
<1>2. CASE Expire(c)
  <2> DEFINE r == [call[c] EXCEPT !.expired = TRUE]
  <2>1. call' = [call EXCEPT ![c] = r] /\ ~At(c, "done")
    BY <1>2, OwnState DEF Expire, Active, At
  <2>2. /\ r \in Futures /\ r.pc = call[c].pc /\ r.outcome = call[c].outcome
        /\ r.attempt = call[c].attempt /\ r.id = call[c].id
        /\ r.slot = call[c].slot /\ r.said = call[c].said
        /\ r.expired /\ r.cancelled = call[c].cancelled
    BY OwnState DEF Futures
  <2> HIDE DEF r
  <2>3. PathOK(c, r)
    BY <2>2, OwnState DEF PathOK
  <2>4. OutcomeOK(r)
    BY <2>2, OwnState DEF OutcomeOK
  <2>5. SaidOK(c, r)
    BY <2>2, OwnState DEF SaidOK, Retried
  <2>6. Kept(c, r) /\ Settles(c, r)
    BY <2>1, <2>2 DEF Kept, Settles, At
  <2> QED
    BY <2>1, <2>2, <2>3, <2>4, <2>5, <2>6 DEF Moves, OwnOK
<1>3. CASE Interrupt(c)
  <2> DEFINE r == [call[c] EXCEPT !.pc = "withdrawing",
                                  !.outcome = Interruption(c)]
  <2>1. /\ call' = [call EXCEPT ![c] = r]
        /\ At(c, "awaiting") /\ Interrupted(c)
    BY <1>3, OwnState DEF Interrupt, GiveUp
  <2>2. Interruption(c) \in Verdicts
    BY DEF Interruption, Verdicts
  <2>3. /\ r \in Futures /\ r.pc = "withdrawing"
        /\ r.outcome = Interruption(c)
        /\ r.attempt = call[c].attempt /\ r.id = call[c].id
        /\ r.slot = call[c].slot /\ r.said = call[c].said
        /\ r.cancelled = call[c].cancelled /\ r.expired = call[c].expired
    <3>1. "withdrawing" \in PCs
      BY DEF PCs
    <3>2. call[c] \in Futures
      BY OwnState
    <3>3. r \in Futures
      BY <2>2, <3>1, <3>2 DEF Futures
    <3> QED
      BY <3>2, <3>3 DEF Futures
  <2> HIDE DEF r
  <2>4. PathOK(c, r)
    BY <2>1, <2>3, OwnState DEF PathOK, At, InPlay, WaitPCs, BeforePCs
  <2>5. OutcomeOK(r)
    BY <2>1, <2>3 DEF OutcomeOK, Interruption, Interrupted
  <2>6. SaidOK(c, r)
    BY <2>1, <2>3, OwnState DEF SaidOK, Retried, At, BeforePCs
  <2>7. Kept(c, r) /\ Settles(c, r)
    BY <2>1, <2>3 DEF Kept, Settles, At
  <2> QED
    BY <2>1, <2>3, <2>4, <2>5, <2>6, <2>7 DEF Moves, OwnOK
<1> QED
  BY <1>1, <1>2, <1>3

-----------------------------------------------------------------------------
(* Every step keeps the invariant                                          *)

LEMMA OneMoves ==
  ASSUME Inv, NEW c \in Calls, NEW r, r \in Futures,
         call' = [call EXCEPT ![c] = r]
  PROVE  /\ call' \in [Calls -> Futures]
         /\ call'[c] = r
         /\ \A d \in Calls : d # c => call'[d] = call[d]
  BY DEF Inv, OwnInv

LEMMA KeptSame == \A c \in Calls : Kept(c, call[c])
  BY DEF Kept

LEMMA MovesCalm ==
  ASSUME Inv, NEW c \in Calls, NEW r, Moves(c, r),
         nextId' \in {nextId, nextId + 1},
         UNCHANGED <<pending, failure, inbound, delivered>>
  PROVE  /\ OwnInv' /\ Calm
         /\ \A d \in Calls : ~Sends(d, call'[d])
<1>1. /\ OwnOK(c, r) /\ r \in Futures /\ call' = [call EXCEPT ![c] = r]
      /\ Kept(c, r) \/ Free(c, r)
  BY DEF Moves, OwnOK
<1>2. /\ call' \in [Calls -> Futures]
      /\ call'[c] = r
      /\ \A d \in Calls : d # c => call'[d] = call[d]
  BY <1>1, OneMoves
<1>3. \A d \in Calls : Kept(d, call'[d]) \/ Free(d, call'[d])
  BY <1>1, <1>2, KeptSame
<1>4. \A d \in Calls : ~Sends(d, call'[d])
  BY <1>3 DEF Sends, Kept, Free, At, InPlay
<1>5. Calm
  BY <1>2, <1>3 DEF Calm
<1> QED
  BY <1>1, <1>4, <1>5, OwnOne DEF Inv

LEMMA MovesInv ==
  ASSUME Inv, NEW c \in Calls, NEW r, Moves(c, r),
         nextId' \in {nextId, nextId + 1},
         UNCHANGED <<pending, failure, inbound, readiness, outbound>>,
         UNCHANGED serverSide
  PROVE  Inv'
<1>1. OwnInv' /\ Calm /\ \A d \in Calls : ~Sends(d, call'[d])
  BY MovesCalm DEF serverSide
<1>2. IdInv' /\ WaitInv' /\ FailInv' /\ FlightInv'
  BY <1>1, CalmLinks, CalmFlight
<1>3. QueueInv'
  BY DEF Inv, QueueInv, outbound, serverSide
<1> QED
  BY <1>1, <1>2, <1>3 DEF Inv

\* The steps that only move the future of a call.
FutureStep(c) ==
  \/ Begin(c) \/ Cancel(c) \/ Expire(c) \/ AcquirePermit(c)
  \/ StartAttempt(c) \/ InterruptBeforeSend(c) \/ Validate(c)
  \/ Interrupt(c) \/ Receive(c)
  \/ Retry(c) \/ TimerPasses(c)

LEMMA FutureMoves ==
  ASSUME Inv, NEW c \in Calls, FutureStep(c)
  PROVE  /\ \E r : Moves(c, r)
         /\ UNCHANGED <<requestState, readiness, outbound, inbound,
                        serverSide>>
<1>1. \E r : Moves(c, r)
  BY StartingMoves, BeforeSendMoves, ReceiveMoves, JudgeMoves, WaitingMoves,
     AgainMoves, InterruptedMoves DEF FutureStep, Retry
<1>2. UNCHANGED <<requestState, readiness, outbound, inbound, serverSide>>
  BY DEF FutureStep, Retry, Begin, Cancel, Expire, AcquirePermit,
         StartAttempt, InterruptBeforeSend, Validate, Interrupt, Receive,
         JudgeFinal, JudgeRetryable, Subscribe, CheckTransport,
         CheckReadiness, TimerPasses, Wake
<1> QED
  BY <1>1, <1>2

LEMMA FutureStepInv ==
  ASSUME Inv, NEW c \in Calls, FutureStep(c)
  PROVE  Inv'
<1>1. /\ \E r : Moves(c, r)
      /\ UNCHANGED <<requestState, readiness, outbound, inbound, serverSide>>
  BY FutureMoves
<1> QED
  BY <1>1, MovesInv DEF requestState

LEMMA NotifiedIs ==
  ASSUME Inv
  PROVE  /\ Notified \in [Calls -> Futures]
         /\ \A c \in Calls : Kept(c, Notified[c]) /\ OwnOK(c, Notified[c])
         /\ \A c \in Calls : Notified[c].pc = call[c].pc
                             /\ Notified[c].outcome = call[c].outcome
<1> SUFFICES ASSUME NEW c \in Calls
             PROVE  /\ Notified[c] \in Futures
                    /\ Kept(c, Notified[c]) /\ OwnOK(c, Notified[c])
                    /\ Notified[c].pc = call[c].pc
                    /\ Notified[c].outcome = call[c].outcome
  BY DEF Notified
<1> DEFINE r == Notified[c]
<1>1. /\ r \in Futures /\ r.pc = call[c].pc /\ r.outcome = call[c].outcome
      /\ r.attempt = call[c].attempt /\ r.id = call[c].id
      /\ r.slot = call[c].slot /\ r.said = call[c].said
      /\ r.cancelled = call[c].cancelled /\ r.expired = call[c].expired
  BY OwnState, ZenonT(60) DEF Notified, Futures
<1> HIDE DEF r
<1>2. PathOK(c, r)
  BY <1>1, OwnState DEF PathOK
<1>3. OutcomeOK(r) /\ SaidOK(c, r)
  BY <1>1, OwnState DEF OutcomeOK, SaidOK, Retried
<1>4. Kept(c, r) /\ OwnOK(c, r)
  BY <1>1, <1>2, <1>3 DEF Kept, OwnOK
<1> QED
  BY <1>1, <1>4 DEF r

LEMMA NotifiedOwn ==
  ASSUME Inv, call' = Notified
  PROVE  OwnInv'
<1>1. \A c \in Calls : OwnOK(c, call'[c])
  BY NotifiedIs
<1>2. call' \in [Calls -> Futures]
  BY NotifiedIs
<1> QED
  BY <1>1, <1>2 DEF OwnInv, OwnOK, PathOK, OutcomeOK, SaidOK, Retried

LEMMA ReportInv ==
  ASSUME Inv, NEW x \in Reports, ReportReadiness(x)
  PROVE  Inv'
<1>1. /\ call' = Notified /\ readiness' = x
      /\ UNCHANGED <<requestState, outbound, inbound, serverSide>>
  BY DEF ReportReadiness
<1>2. Calm /\ \A c \in Calls : ~Sends(c, call'[c])
  BY <1>1, NotifiedIs DEF Calm, requestState, serverSide, Kept, Sends, At
<1>3. IdInv' /\ WaitInv' /\ FailInv' /\ FlightInv'
  BY <1>1, <1>2, CalmLinks, CalmFlight
<1>4. QueueInv'
  BY <1>1, RequestsAssumption DEF Inv, QueueInv, outbound, serverSide
<1> QED
  BY <1>1, <1>3, <1>4, NotifiedOwn DEF Inv

LEMMA NotifiesInv ==
  ASSUME Inv, ReaderNotifies
  PROVE  Inv'
<1>1. /\ call' = Notified /\ reader = "failed" /\ reader' = "ended"
      /\ UNCHANGED <<requestState, readiness, outbound, unsent, serverSide>>
  BY DEF ReaderNotifies
<1>2. /\ nextId' = nextId /\ pending' = pending /\ failure' = failure
      /\ queue' = queue /\ writing' = writing /\ unsent' = unsent
      /\ received' = received /\ delivered' = delivered /\ late' = late
      /\ readiness' = readiness
  BY <1>1 DEF requestState, outbound, serverSide
<1>3. \A c \in Calls : Kept(c, call'[c])
  BY <1>1, NotifiedIs
<1>4. IdInv' /\ WaitInv'
  <2>1. \A c \in Calls : /\ call'[c].pc = call[c].pc
                         /\ call'[c].id = call[c].id
                         /\ call'[c].slot = call[c].slot
    BY <1>1, <1>3, NotifiedIs DEF Kept
  <2>2. IdInv'
    BY <1>2, <2>1, ZenonT(60) DEF Inv, IdInv
  <2>3. \A i \in Ids : pending[i] # NoCall => PendingOK(i, pending[i])'
    BY <1>2, <2>1, Waiting DEF PendingOK
  <2>4. \A c \in Calls : call'[c].pc = "forwarding" =>
          pending[call'[c].id] = NoCall /\ call'[c].id \notin delivered
    BY <2>1 DEF Inv, WaitInv, At
  <2> QED
    BY <1>2, <2>2, <2>3, <2>4 DEF Inv, WaitInv, At
<1>5. FailInv'
  BY <1>1, <1>2, <1>3, NotifiedIs, ZenonT(60) DEF Inv, FailInv, Kept, At
<1>6. FlightInv'
  <2>1. \A c \in Calls : /\ call'[c].pc = call[c].pc
                         /\ call'[c].id = call[c].id
                         /\ call'[c].attempt = call[c].attempt
    BY <1>1, <1>3, NotifiedIs DEF Kept
  <2>2. \A i \in Ids : pending[i] # NoCall => pending[i] \in Calls
    BY Waiting
  <2>3. nextId' \in Nat /\ nextId' >= nextId
    BY <1>2, IdsBelow
  <2>4. \A i : Written(i) => Written(i)'
    BY <1>2 DEF Written
  <2> QED
    BY <1>2, <2>1, <2>2, <2>3, <2>4, FlightKeeps
<1>7. QueueInv'
  BY <1>2 DEF Inv, QueueInv
<1> QED
  BY <1>1, <1>4, <1>5, <1>6, <1>7, NotifiedOwn DEF Inv

LEMMA RegisterInv ==
  ASSUME Inv, NEW c \in Calls, Register(c)
  PROVE  Inv'
<1>1. At(c, "registering") /\ nextId' = nextId + 1
  BY DEF Register
<1>2. /\ failure' = failure /\ readiness' = readiness
      /\ UNCHANGED <<outbound, inbound, serverSide>>
  BY DEF Register
<1>3. CASE failure
  <2>1. Finish(c, "exited") /\ "exited" \in Grounds(c) /\ pending' = pending
    BY <1>3, EventGrounds DEF Register
  <2>2. Moves(c, Finished("exited"))
    BY <1>1, <2>1, FinishMoves DEF At, InPlay
  <2> HIDE DEF Finished
  <2> QED
    BY <1>1, <1>2, <2>1, <2>2, MovesInv
<1>4. CASE ~failure
  <2> DEFINE r == [call[c] EXCEPT !.pc = "sending", !.id = nextId,
                                  !.slot = "no reply"]
  <2>1. /\ nextId \in Ids /\ pending' = [pending EXCEPT ![nextId] = c]
        /\ call' = [call EXCEPT ![c] = r]
    BY <1>4, OwnState DEF Register, Insert
  <2>2. /\ r \in Futures /\ r.pc = "sending" /\ r.attempt = call[c].attempt
        /\ r.id = nextId /\ r.slot = "no reply" /\ r.said = call[c].said
    <3>1. /\ "sending" \in PCs /\ nextId \in Ids \cup {0}
          /\ "no reply" \in Replies \cup {"no reply", "failure"}
      BY <2>1 DEF PCs
    <3>2. call[c] \in Futures
      BY OwnState
    <3>3. r \in Futures
      BY <3>1, <3>2 DEF Futures
    <3> QED
      BY <3>2, <3>3 DEF Futures
  <2> HIDE DEF r
  <2>3. nextId \in Nat \ {0} /\ nextId # 0
    BY IdsBelow
  <2>4. OwnOK(c, r)
    <3>1. PathOK(c, r)
      BY <2>2, <2>3 DEF PathOK, InPlay, WaitPCs, BeforePCs
    <3>2. OutcomeOK(r)
      BY <2>2 DEF OutcomeOK
    <3>3. r.slot \notin Replies
      BY <2>2 DEF Replies
    <3>4. SaidOK(c, r)
      BY <2>2, <3>3, OwnState DEF SaidOK, Retried
    <3> QED
      BY <2>2, <3>1, <3>2, <3>4 DEF OwnOK
  <2>5. /\ call'[c] = r
        /\ \A d \in Calls : d # c => call'[d] = call[d]
    BY <2>1, <2>2, OneMoves
  <2>6. /\ pending \in [Ids -> Calls \cup {NoCall}]
        /\ \A i \in Ids : pending'[i] = IF i = nextId THEN c ELSE pending[i]
    BY <2>1 DEF Inv, WaitInv
  <2>7. /\ reader' = reader /\ unsent' = unsent /\ delivered' = delivered
        /\ queue' = queue /\ writing' = writing /\ received' = received
        /\ late' = late
    BY <1>2 DEF outbound, inbound, serverSide
  <2>8. \A d \in Calls : call[d].id \in Nat /\ call[d].id < nextId
    BY IdsBelow
  <2>9. nextId + 1 \in Nat \ {0} /\ nextId < nextId + 1
        /\ \A n \in Nat : n < nextId => n < nextId + 1 /\ n # nextId
    BY <2>3
  <2>10. IdInv'
    <3>1. \A d \in Calls : call'[d].id < nextId'
      BY <1>1, <2>2, <2>5, <2>8, <2>9
    <3>2. \A d, e \in Calls :
            call'[d].id = call'[e].id /\ d # e => call'[d].id = 0
      BY <2>2, <2>5, <2>8, <2>9, ZenonT(60) DEF Inv, IdInv
    <3>3. \A i \in delivered : i < nextId'
      BY <1>1, <2>9, IdsBelow
    <3> QED
      BY <1>1, <2>7, <2>9, <3>1, <3>2, <3>3 DEF Inv, IdInv
  <2>11. WaitInv'
    <3>1. \A i \in delivered : i # nextId
      BY <2>9, IdsBelow
    <3>2. ASSUME NEW i \in Ids, pending'[i] # NoCall
          PROVE  PendingOK(i, pending[i])'
      <4>1. CASE i = nextId
        BY <4>1, <2>2, <2>5, <2>6, <2>7, <3>1 DEF PendingOK, InPlay
      <4>2. CASE i # nextId
        <5>1. /\ pending'[i] = pending[i] /\ pending[i] \in Calls
              /\ call[pending[i]].id = i /\ call[pending[i]].pc \in InPlay
              /\ call[pending[i]].slot = "no reply" /\ i \notin delivered
          BY <3>2, <4>2, <2>6, Waiting
        <5>2. pending[i] # c
          BY <5>1, <1>1 DEF At, InPlay
        <5> QED
          BY <5>1, <5>2, <2>5, <2>7 DEF PendingOK
      <4> QED
        BY <4>1, <4>2
    <3>3. ASSUME NEW d \in Calls, call'[d].pc = "forwarding"
          PROVE  /\ pending'[call'[d].id] = NoCall
                 /\ call'[d].id \notin delivered'
      <4>1. d # c /\ call'[d] = call[d]
        BY <3>3, <2>2, <2>5
      <4>2. /\ pending[call[d].id] = NoCall /\ call[d].id \notin delivered
            /\ call[d].id # nextId
        BY <3>3, <4>1, <2>8, <2>9 DEF Inv, WaitInv, At
      <4>3. call[d].id \in Ids
        BY <3>3, <4>1, OwnState DEF PathOK, Futures
      <4> QED
        BY <4>1, <4>2, <4>3, <2>6, <2>7
    <3>4. pending' \in [Ids -> Calls \cup {NoCall}]
      BY <2>1, <2>6
    <3> QED
      BY <3>2, <3>3, <3>4 DEF WaitInv, At
  <2>12. FailInv'
    <3>1. unsent = {} /\ \A d \in Calls : call'[d].slot # "failure"
      BY <1>4, <2>2, <2>5 DEF Inv, FailInv
    <3> QED
      BY <1>2, <1>4, <2>7, <3>1 DEF Inv, FailInv
  <2>13. FlightInv'
    <3>1. \A i \in Ids : i < nextId /\ pending'[i] # NoCall =>
            /\ pending'[i] = pending[i]
            /\ call'[pending[i]].attempt = call[pending[i]].attempt
      <4> SUFFICES ASSUME NEW i \in Ids, i < nextId, pending'[i] # NoCall
                   PROVE  /\ pending'[i] = pending[i]
                          /\ call'[pending[i]].attempt
                               = call[pending[i]].attempt
        OBVIOUS
      <4>1. i # nextId
        BY <2>3
      <4>2. pending'[i] = pending[i] /\ pending[i] \in Calls
        BY <4>1, <2>6, Waiting
      <4> QED
        BY <4>2, <2>2, <2>5
    <3>2. \A i : Written(i) => Written(i)'
      BY <2>7 DEF Written
    <3>3. \A d \in Calls : call'[d].pc \in OnTheWay =>
            /\ call[d].pc \in OnTheWay
            /\ call'[d].id = call[d].id /\ call'[d].attempt = call[d].attempt
      BY <2>2, <2>5 DEF OnTheWay
    <3>4. nextId' \in Nat /\ nextId' >= nextId
      BY <1>1, <2>3
    <3> QED
      BY <2>7, <3>1, <3>2, <3>3, <3>4, FlightKeeps
  <2>14. QueueInv'
    BY <1>2, <2>7 DEF Inv, QueueInv
  <2>15. OwnInv'
    BY <2>1, <2>4, OwnOne DEF Inv
  <2> QED
    BY <2>10, <2>11, <2>12, <2>13, <2>14, <2>15 DEF Inv
<1> QED
  BY <1>3, <1>4

\* A call takes its own sender out again, if it is still there.
Leaves(c, r) ==
  /\ OwnOK(c, r)
  /\ call[c].pc \in {"sending", "withdrawing"}
  /\ pending' = [pending EXCEPT ![call[c].id] = NoCall]
  /\ call' = [call EXCEPT ![c] = r]
  /\ r.id \in {0, call[c].id} /\ r.slot \in {call[c].slot, "no reply"}
  /\ \/ r.pc = "done"
     \/ /\ At(c, "withdrawing") /\ r.pc = "forwarding"
        /\ r.id = call[c].id /\ r.attempt = call[c].attempt
        /\ pending[call[c].id] # NoCall
  /\ UNCHANGED <<nextId, failure, readiness, outbound, inbound, serverSide>>

LEMMA LeaveInv ==
  ASSUME Inv, NEW c \in Calls, NEW r, Leaves(c, r)
  PROVE  Inv'
<1> DEFINE n == call[c].id
<1>1. n \in Ids
  BY OwnState DEF Leaves, PathOK, Futures, InPlay
<1>2. /\ call'[c] = r
      /\ \A d \in Calls : d # c => call'[d] = call[d]
  BY OneMoves DEF OwnOK, Leaves
<1>3. /\ pending \in [Ids -> Calls \cup {NoCall}]
      /\ pending' \in [Ids -> Calls \cup {NoCall}]
      /\ \A i \in Ids : pending'[i] = IF i = n THEN NoCall ELSE pending[i]
  BY <1>1 DEF Inv, WaitInv, Leaves
<1>4. /\ reader' = reader /\ unsent' = unsent /\ delivered' = delivered
      /\ queue' = queue /\ writing' = writing /\ received' = received
      /\ late' = late /\ nextId' = nextId /\ failure' = failure
      /\ readiness' = readiness
  BY DEF Leaves, outbound, inbound, serverSide
<1>5. \A d \in Calls : d # c /\ call[d].id # 0 => call[d].id # n
  BY DEF Inv, IdInv
<1>6. IdInv'
  <2>1. \A d \in Calls : call'[d].id \in {0, call[d].id}
    BY <1>2 DEF Leaves
  <2>2. \A d \in Calls : call'[d].id < nextId
    <3>1. 0 < nextId /\ \A d \in Calls : call[d].id < nextId
      BY IdsBelow
    <3> QED
      BY <2>1, <3>1
  <2>3. \A d, e \in Calls :
          call'[d].id = call'[e].id /\ d # e => call'[d].id = 0
    BY <2>1 DEF Inv, IdInv
  <2> QED
    BY <1>4, <2>2, <2>3 DEF Inv, IdInv
<1>7. WaitInv'
  <2>1. ASSUME NEW i \in Ids, pending'[i] # NoCall
        PROVE  PendingOK(i, pending[i])'
    <3>1. /\ pending'[i] = pending[i] /\ i # n /\ pending[i] \in Calls
          /\ call[pending[i]].id = i /\ call[pending[i]].pc \in InPlay
          /\ call[pending[i]].slot = "no reply" /\ i \notin delivered
      BY <2>1, <1>3, Waiting
    <3>2. pending[i] # c
      BY <3>1
    <3> QED
      BY <3>1, <3>2, <1>2, <1>4 DEF PendingOK
  <2>2. ASSUME NEW d \in Calls, call'[d].pc = "forwarding"
        PROVE  pending'[call'[d].id] = NoCall /\ call'[d].id \notin delivered'
    <3>1. CASE d = c
      <4>1. call'[d].id = n /\ pending[n] # NoCall
        BY <2>2, <3>1, <1>2 DEF Leaves
      <4> QED
        BY <4>1, <1>1, <1>3, <1>4, Waiting
    <3>2. CASE d # c
      <4>1. call'[d] = call[d] /\ At(d, "forwarding")
        BY <2>2, <3>2, <1>2 DEF At
      <4>2. /\ pending[call[d].id] = NoCall /\ call[d].id \notin delivered
        BY <4>1 DEF Inv, WaitInv
      <4>3. call[d].id \in Ids
        BY <4>1, OwnState DEF PathOK, Futures, At
      <4>4. pending'[call[d].id] = NoCall
        BY <4>2, <4>3, <1>3
      <4> QED
        BY <4>1, <4>2, <4>4, <1>4
    <3> QED
      BY <3>1, <3>2
  <2> QED
    BY <1>3, <2>1, <2>2 DEF WaitInv, At
<1>8. FailInv'
  <2>1. r.pc # "done" => unsent = {}
    BY <1>1 DEF Inv, FailInv, Leaves
  <2>2. ASSUME NEW d \in unsent
        PROVE  \/ call'[d].pc = "done"
               \/ call'[d].pc \in InPlay /\ call'[d].slot = "no reply"
    <3>1. d \in Calls
      BY DEF Inv, FailInv
    <3>2. CASE d = c
      BY <2>1, <3>2, <1>2
    <3>3. CASE d # c
      BY <3>1, <3>3, <1>2 DEF Inv, FailInv, At
    <3> QED
      BY <3>2, <3>3
  <2>3. \A d \in Calls : call'[d].slot = "failure" => failure
    BY <1>2 DEF Inv, FailInv, Leaves
  <2>4. failure => \A i \in Ids : pending'[i] = NoCall
    BY <1>3 DEF Inv, FailInv
  <2>5. /\ failure \in BOOLEAN
        /\ reader \in {"reading", "closing", "failed", "ended"}
        /\ failure <=> reader \in {"failed", "ended"}
        /\ unsent \subseteq Calls /\ (unsent # {} => failure)
    BY DEF Inv, FailInv
  <2> QED
    BY <1>4, <2>2, <2>3, <2>4, <2>5 DEF FailInv, At
<1>9. FlightInv'
  <2>1. \A i \in Ids : i < nextId /\ pending'[i] # NoCall =>
          /\ pending'[i] = pending[i]
          /\ call'[pending[i]].attempt = call[pending[i]].attempt
    <3> SUFFICES ASSUME NEW i \in Ids, pending'[i] # NoCall
                 PROVE  /\ pending'[i] = pending[i]
                        /\ call'[pending[i]].attempt = call[pending[i]].attempt
      OBVIOUS
    <3>1. i # n /\ pending'[i] = pending[i]
      BY <1>3
    <3>2. pending[i] \in Calls /\ call[pending[i]].id = i
      BY <3>1, Waiting
    <3> QED
      BY <3>1, <3>2, <1>2
  <2>2. \A i : Written(i) => Written(i)'
    BY <1>4 DEF Written
  <2>3. \A d \in Calls : call'[d].pc \in OnTheWay =>
          /\ call[d].pc \in OnTheWay
          /\ call'[d].id = call[d].id /\ call'[d].attempt = call[d].attempt
    BY <1>2 DEF OnTheWay, At, Leaves
  <2>4. nextId' \in Nat /\ nextId' >= nextId
    <3>1. nextId \in Nat /\ nextId' = nextId
      BY <1>4, IdsBelow
    <3> QED
      BY <3>1
  <2> QED
    BY <1>4, <2>1, <2>2, <2>3, <2>4, FlightKeeps
<1>10. QueueInv'
  BY <1>4 DEF Inv, QueueInv
<1>11. OwnInv'
  BY OwnOne DEF Inv, Leaves
<1> QED
  BY <1>6, <1>7, <1>8, <1>9, <1>10, <1>11 DEF Inv

LEMMA SendFailsInv ==
  ASSUME Inv, NEW c \in Calls, SendFails(c)
  PROVE  Inv'
<1> DEFINE o == IF writing THEN "busy" ELSE "closed"
<1>1. /\ At(c, "sending")
      /\ pending' = [pending EXCEPT ![call[c].id] = NoCall]
      /\ Finish(c, o)
      /\ UNCHANGED <<nextId, failure, readiness, outbound, inbound,
                     serverSide>>
  BY DEF SendFails
<1>2. o \in Verdicts
  BY DEF Verdicts
<1> HIDE DEF o
<1>3. /\ OwnOK(c, Finished(o)) /\ Finished(o).pc = "done"
      /\ Finished(o).id = 0 /\ Finished(o).slot = "no reply"
  BY <1>2, FinishedOK
<1>4. call' = [call EXCEPT ![c] = Finished(o)]
  BY <1>1 DEF Finish, Finished
<1> HIDE DEF Finished
<1> QED
  BY <1>1, <1>3, <1>4, LeaveInv DEF Leaves, At

LEMMA WithdrawInv ==
  ASSUME Inv, NEW c \in Calls, Withdraw(c)
  PROVE  Inv'
<1>1. /\ At(c, "withdrawing")
      /\ pending' = [pending EXCEPT ![call[c].id] = NoCall]
      /\ UNCHANGED <<nextId, failure, readiness, outbound, inbound,
                     serverSide>>
  BY DEF Withdraw
<1>2. CASE pending[call[c].id] # NoCall
  <2> DEFINE r == Placed(c, "forwarding")
  <2>1. OwnOK(c, r)
    BY <1>1, PlacedOK DEF At, PCs, Inv
  <2>2. call' = [call EXCEPT ![c] = r]
    BY <1>2 DEF Withdraw, Goto, Placed
  <2>3. /\ r.pc = "forwarding" /\ r.id = call[c].id /\ r.slot = call[c].slot
        /\ r.attempt = call[c].attempt
    BY PlacedIs DEF PCs, Inv
  <2> HIDE DEF r
  <2> QED
    BY <1>1, <1>2, <2>1, <2>2, <2>3, LeaveInv DEF Leaves, At
<1>3. CASE pending[call[c].id] = NoCall
  <2> DEFINE o == call[c].outcome
  <2>1. o \in Verdicts
    BY <1>1, OwnState DEF OutcomeOK, At, Verdicts
  <2>2. Finish(c, o)
    BY <1>3 DEF Withdraw
  <2> HIDE DEF o
  <2>3. /\ OwnOK(c, Finished(o)) /\ Finished(o).pc = "done"
        /\ Finished(o).id = 0 /\ Finished(o).slot = "no reply"
    BY <2>1, FinishedOK
  <2>4. call' = [call EXCEPT ![c] = Finished(o)]
    BY <2>2 DEF Finish, Finished
  <2> HIDE DEF Finished
  <2> QED
    BY <1>1, <2>3, <2>4, LeaveInv DEF Leaves, At
<1> QED
  BY <1>2, <1>3

\* A message joins the queue.
Joins(m) ==
  /\ m \in Packets /\ Room /\ queue' = Append(queue, m)
  /\ m.kind = "request" => Wanted(m)
  /\ m.kind = "cancel" =>
       /\ Revoked(m.id)
       /\ \/ Written(m.id)
          \/ \E j \in 1..Len(queue) : queue[j] = [m EXCEPT !.kind = "request"]
  /\ UNCHANGED <<requestState, readiness, writing, serverSide>>
\* Its sender, and nobody else, may now wait for a reply.
Follows(m) ==
  /\ \A i \in Ids : pending[i] # NoCall =>
       call'[pending[i]].attempt = call[pending[i]].attempt
  /\ \A c \in Calls : call'[c].pc \in OnTheWay =>
       /\ call[c].pc \in OnTheWay \/ m = Message("request", c)
       /\ call'[c].id = call[c].id /\ call'[c].attempt = call[c].attempt

LEMMA JoinInv ==
  ASSUME Inv, NEW m, Joins(m), Follows(m)
  PROVE  FlightInv' /\ QueueInv'
<1>1. /\ queue \in Seq(Packets) /\ Len(queue) \in Nat
      /\ Len(queue) < Capacity
  BY DEF Inv, QueueInv, Joins, Room
<1>2. /\ queue' \in Seq(Packets) /\ Len(queue') = Len(queue) + 1
      /\ \A k \in 1..Len(queue) : queue'[k] = queue[k]
      /\ queue'[Len(queue) + 1] = m
  BY <1>1 DEF Joins
<1>3. \A k \in 1..Len(queue') : k \in 1..Len(queue) \/ k = Len(queue) + 1
  BY <1>1, <1>2
<1>4. /\ nextId' = nextId /\ pending' = pending /\ writing' = writing
      /\ received' = received /\ delivered' = delivered /\ late' = late
      /\ readiness' = readiness
  BY DEF Joins, requestState, serverSide
<1>5. \A i : Written(i)' <=> Written(i)
  BY <1>4 DEF Written
<1>6. ASSUME NEW x, Wanted(x)
      PROVE  Wanted(x)'
  BY <1>4, <1>6 DEF Wanted, Follows
<1>7. \A i : Revoked(i)' <=> Revoked(i)
  BY <1>4 DEF Revoked
<1>8. \A k \in 1..Len(queue') :
        queue'[k].kind = "request" => Wanted(queue[k])'
  <2>1. \A k \in 1..Len(queue) :
          queue[k].kind = "request" => Wanted(queue[k])
    BY DEF Inv, FlightInv
  <2>2. m.kind = "request" => Wanted(m)
    BY DEF Joins
  <2>3. \A k \in 1..Len(queue') :
          queue'[k].kind = "request" => Wanted(queue'[k])
    BY <1>2, <1>3, <2>1, <2>2
  <2>4. \A x : Wanted(x) => \A y : y = x => Wanted(x)'
    BY <1>6
  <2> SUFFICES ASSUME NEW k \in 1..Len(queue'), queue'[k].kind = "request"
               PROVE  Wanted(queue[k])'
    OBVIOUS
  <2>5. Wanted(queue'[k])
    BY <2>3
  <2>6. /\ queue'[k] \in [kind : {"request"}, id : Ids, call : Calls,
                          attempt : 0..MaxRetries]
        /\ queue'[k].id < nextId
        /\ pending[queue'[k].id] # NoCall =>
             /\ queue'[k].call = pending[queue'[k].id]
             /\ queue'[k].attempt = call[queue'[k].call].attempt
    BY <2>5 DEF Wanted
  <2>7. pending[queue'[k].id] # NoCall =>
          queue'[k].attempt = call'[queue'[k].call].attempt
    BY <2>6 DEF Follows
  <2> QED
    BY <1>4, <2>6, <2>7 DEF Wanted
<1>9. \A k \in 1..Len(queue') :
        queue'[k].kind = "cancel" => Revoked(queue[k].id)' /\ Requested(k)'
  <2> SUFFICES ASSUME NEW k \in 1..Len(queue'), queue'[k].kind = "cancel"
               PROVE  Revoked(queue[k].id)' /\ Requested(k)'
    OBVIOUS
  <2>1. CASE k \in 1..Len(queue)
    <3>1. queue'[k] = queue[k] /\ Revoked(queue[k].id) /\ Requested(k)
      BY <1>2, <2>1 DEF Inv, FlightInv
    <3>2. \A j \in 1..k : queue'[j] = queue[j]
      BY <1>1, <1>2, <2>1
    <3>3. Requested(k)'
      BY <1>5, <3>1, <3>2 DEF Requested
    <3>4. Revoked(queue[k].id)'
      BY <1>4, <3>1 DEF Revoked
    <3> QED
      BY <3>3, <3>4
  <2>2. CASE k = Len(queue) + 1
    <3>1. queue'[k] = m /\ m.kind = "cancel"
      BY <1>2, <2>2
    <3>2. /\ Revoked(m.id)
          /\ \/ Written(m.id)
             \/ \E j \in 1..Len(queue) :
                  queue[j] = [m EXCEPT !.kind = "request"]
      BY <3>1 DEF Joins
    <3>3. \A j \in 1..Len(queue) : j \in 1..k /\ queue'[j] = queue[j]
      BY <1>1, <1>2, <2>2
    <3>4. Requested(k)'
      BY <1>5, <3>1, <3>2, <3>3 DEF Requested
    <3>5. Revoked(queue[k].id)'
      BY <1>4, <3>1, <3>2 DEF Revoked
    <3> QED
      BY <3>4, <3>5
  <2> QED
    BY <1>3, <2>1, <2>2
<1>10. ASSUME writing, NEW c \in Calls, call'[c].pc \in OnTheWay
       PROVE  Sent(c)'
  <2>1. /\ call[c].pc \in OnTheWay \/ m = Message("request", c)
        /\ call'[c].id = call[c].id /\ call'[c].attempt = call[c].attempt
    BY <1>10 DEF Follows
  <2>2. Message("request", c)' = Message("request", c)
    BY <2>1 DEF Message
  <2>3. \A k \in 1..Len(queue) : k \in 1..Len(queue')
    BY <1>1, <1>2
  <2>4. Len(queue) + 1 \in 1..Len(queue')
    BY <1>1, <1>2
  <2>5. CASE call[c].pc \in OnTheWay
    <3>1. Sent(c)
      BY <1>10, <2>5 DEF Inv, FlightInv, OnTheWay
    <3>2. CASE Written(call[c].id)
      BY <1>5, <2>1, <3>2 DEF Sent
    <3>3. CASE \E j \in 1..Len(queue) : queue[j] = Message("request", c)
      BY <1>2, <2>2, <2>3, <3>3 DEF Sent
    <3> QED
      BY <3>1, <3>2, <3>3 DEF Sent
  <2>6. CASE m = Message("request", c)
    BY <1>2, <2>2, <2>4, <2>6 DEF Sent
  <2> QED
    BY <2>1, <2>5, <2>6
<1>11. FlightInv'
  <2>1. \A x \in received' : Wanted(x)'
    BY <1>4, <1>6 DEF Inv, FlightInv
  <2> QED
    BY <1>4, <1>8, <1>9, <1>10, <2>1 DEF FlightInv, OnTheWay
<1>12. QueueInv'
  <2>1. Len(queue') <= Capacity
    BY <1>1, <1>2, RequestsAssumption
  <2> QED
    BY <1>2, <1>4, <2>1 DEF Inv, QueueInv
<1> QED
  BY <1>11, <1>12

LEMMA CalmFollows ==
  ASSUME Inv, Calm, \A c \in Calls : ~Sends(c, call'[c]), NEW m
  PROVE  Follows(m)
<1>1. \A c \in Calls : Kept(c, call'[c]) \/ Free(c, call'[c])
  BY DEF Calm
<1>2. ASSUME NEW i \in Ids, pending[i] # NoCall
      PROVE  call'[pending[i]].attempt = call[pending[i]].attempt
  <2>1. /\ pending[i] \in Calls /\ call[pending[i]].pc \in InPlay
        /\ call[pending[i]].slot = "no reply"
    BY <1>2, Waiting
  <2>2. ~Free(pending[i], call'[pending[i]])
    BY <2>1 DEF Free
  <2>3. Kept(pending[i], call'[pending[i]])
    BY <1>1, <2>1, <2>2
  <2> QED
    BY <2>3 DEF Kept
<1>3. ASSUME NEW c \in Calls, call'[c].pc \in OnTheWay
      PROVE  /\ call[c].pc \in OnTheWay
             /\ call'[c].id = call[c].id /\ call'[c].attempt = call[c].attempt
  BY <1>1, <1>3 DEF Free, Kept, At, InPlay, OnTheWay
<1> QED
  BY <1>2, <1>3 DEF Follows

LEMMA SendOtherInv ==
  ASSUME Inv, SendOther
  PROVE  Inv'
<1>1. Other \in Packets /\ Other.kind = "other"
  BY RequestsAssumption DEF Other, Packets
<1>2. Joins(Other)
  BY <1>1 DEF SendOther, Joins
<1>3. call' = call /\ UNCHANGED <<requestState, inbound, serverSide>>
  BY DEF SendOther
<1>4. Follows(Other)
  BY <1>3 DEF Follows
<1>5. FlightInv' /\ QueueInv'
  BY <1>2, <1>4, JoinInv
<1>6. OwnInv' /\ IdInv' /\ WaitInv' /\ FailInv'
  BY <1>3 DEF Inv, OwnInv, OwnOK, PathOK, OutcomeOK, SaidOK, Retried, IdInv,
              WaitInv, PendingOK, FailInv, requestState, inbound, serverSide,
              At
<1> QED
  BY <1>5, <1>6 DEF Inv

LEMMA MessageIs ==
  ASSUME Inv, NEW c \in Calls, call[c].id \in Ids,
         NEW kind \in {"request", "cancel"}
  PROVE  /\ Message(kind, c) \in Packets
         /\ Message(kind, c).kind = kind /\ Message(kind, c).id = call[c].id
         /\ Message(kind, c).call = c
         /\ Message(kind, c).attempt = call[c].attempt
         /\ Message(kind, c) \in [kind : {kind}, id : Ids, call : Calls,
                                  attempt : 0..MaxRetries]
         /\ [Message(kind, c) EXCEPT !.kind = "request"]
              = Message("request", c)
<1>1. call[c].attempt \in 0..MaxRetries
  BY OwnState DEF Futures
<1> QED
  BY <1>1 DEF Message, Packets

LEMMA SendInv ==
  ASSUME Inv, NEW c \in Calls, Send(c)
  PROVE  Inv'
<1> DEFINE r == Placed(c, "awaiting")
           m == Message("request", c)
<1>1. /\ At(c, "sending") /\ Room /\ queue' = Append(queue, m)
      /\ UNCHANGED <<requestState, readiness, writing, inbound, serverSide>>
  BY DEF Send
<1>2. call' = [call EXCEPT ![c] = r]
  BY DEF Send, Goto, Placed
<1>3. OwnOK(c, r)
  BY <1>1, PlacedOK DEF At, PCs, Inv
<1>4. /\ r \in Futures /\ r.pc = "awaiting" /\ r.id = call[c].id
      /\ r.slot = call[c].slot /\ r.attempt = call[c].attempt
  BY PlacedIs DEF PCs, Inv
<1> HIDE DEF r
<1>5. /\ call' \in [Calls -> Futures] /\ call'[c] = r
      /\ \A d \in Calls : d # c => call'[d] = call[d]
  BY <1>2, <1>4, OneMoves
<1>6. Sends(c, r)
  BY <1>1, <1>4 DEF Sends
<1>7. Calm
  BY <1>1, <1>5, <1>6, KeptSame DEF Calm, requestState, serverSide
<1>8. OwnInv' /\ IdInv' /\ WaitInv' /\ FailInv'
  BY <1>2, <1>3, <1>7, OwnOne, CalmLinks DEF Inv
<1>9. call[c].id \in Ids
  BY <1>1, OwnState DEF PathOK, Futures, InPlay, At
<1>10. /\ m \in Packets /\ m.kind = "request" /\ m.id = call[c].id
       /\ m.call = c /\ m.attempt = call[c].attempt
       /\ m \in [kind : {"request"}, id : Ids, call : Calls,
                 attempt : 0..MaxRetries]
  BY <1>9, MessageIs
<1> HIDE DEF m
<1>11. Wanted(m)
  <2>1. ASSUME pending[m.id] # NoCall
        PROVE  m.call = pending[m.id]
    <3>1. /\ pending[m.id] \in Calls
          /\ call[pending[m.id]].id = call[c].id
      BY <1>9, <1>10, <2>1, Waiting
    <3>2. call[c].id # 0
      BY <1>1, OwnState DEF PathOK, InPlay, At
    <3> QED
      BY <1>10, <3>1, <3>2 DEF Inv, IdInv
  <2>2. m.id < nextId
    BY <1>10, IdsBelow
  <2> QED
    BY <1>10, <2>1, <2>2 DEF Wanted
<1>12. Joins(m)
  BY <1>1, <1>10, <1>11 DEF Joins
<1>13. Follows(m)
  <2>1. \A i \in Ids : pending[i] # NoCall => pending[i] \in Calls
    BY Waiting
  <2>2. \A d \in Calls : call'[d].attempt = call[d].attempt
                         /\ call'[d].id = call[d].id
    BY <1>4, <1>5
  <2>3. \A d \in Calls : call'[d].pc \in OnTheWay =>
          call[d].pc \in OnTheWay \/ m = Message("request", d)
    BY <1>5 DEF m
  <2> QED
    BY <2>1, <2>2, <2>3 DEF Follows
<1>14. FlightInv' /\ QueueInv'
  BY <1>12, <1>13, JoinInv
<1> QED
  BY <1>8, <1>14 DEF Inv

LEMMA ForwardInv ==
  ASSUME Inv, NEW c \in Calls, Forward(c)
  PROVE  Inv'
<1> DEFINE o == call[c].outcome
           m == Message("cancel", c)
<1>1. /\ At(c, "forwarding") /\ Finish(c, o)
      /\ queue' = IF Room THEN Append(queue, m) ELSE queue
      /\ UNCHANGED <<requestState, readiness, writing, inbound, serverSide>>
  BY DEF Forward
<1>2. o \in Grounds(c)
  BY <1>1, OwnState, EventGrounds DEF OutcomeOK, At
<1>3. Moves(c, Finished(o))
  BY <1>1, <1>2, FinishMoves DEF At, InPlay
<1> HIDE DEF Finished, o
<1>4. OwnInv' /\ Calm /\ \A d \in Calls : ~Sends(d, call'[d])
  BY <1>1, <1>3, MovesCalm DEF requestState, serverSide
<1>5. IdInv' /\ WaitInv' /\ FailInv'
  BY <1>4, CalmLinks
<1>6. CASE ~Room
  <2>1. queue' = queue
    BY <1>1, <1>6
  <2> QED
    BY <1>1, <1>3, <2>1, MovesInv DEF requestState, outbound
<1>7. CASE Room
  <2>1. call[c].id \in Ids
    BY <1>1, OwnState DEF PathOK, Futures, InPlay, At
  <2>2. /\ m \in Packets /\ m.kind = "cancel" /\ m.id = call[c].id
        /\ [m EXCEPT !.kind = "request"] = Message("request", c)
    BY <2>1, MessageIs
  <2> HIDE DEF m
  <2>3. Revoked(m.id)
    BY <1>1, <2>1, <2>2, IdsBelow DEF Revoked, Inv, WaitInv
  <2>4. Sent(c)
    BY <1>1, <1>7 DEF Inv, FlightInv, Room, At
  <2>5. queue' = Append(queue, m)
    BY <1>1, <1>7
  <2>6. \/ Written(m.id)
        \/ \E j \in 1..Len(queue) : queue[j] = [m EXCEPT !.kind = "request"]
    BY <2>2, <2>4 DEF Sent
  <2>7. Joins(m)
    BY <1>1, <1>7, <2>2, <2>3, <2>5, <2>6 DEF Joins
  <2>8. FlightInv' /\ QueueInv'
    BY <1>4, <2>7, CalmFollows, JoinInv
  <2> QED
    BY <1>4, <1>5, <2>8 DEF Inv
<1> QED
  BY <1>6, <1>7

\* What a step leaves alone that does not touch the futures, the ids or who
\* waits for them.
LEMMA OwnersStay ==
  ASSUME Inv, UNCHANGED <<call, requestState, inbound, delivered>>
  PROVE  OwnInv' /\ IdInv' /\ WaitInv' /\ FailInv'
<1>1. /\ call' = call /\ nextId' = nextId /\ pending' = pending
      /\ failure' = failure /\ reader' = reader /\ unsent' = unsent
      /\ delivered' = delivered
  BY DEF requestState, inbound
<1>2. OwnInv' /\ IdInv'
  BY <1>1 DEF Inv, OwnInv, OwnOK, PathOK, OutcomeOK, SaidOK, Retried, IdInv
<1>3. WaitInv'
  BY <1>1 DEF Inv, WaitInv, PendingOK, At
<1>4. FailInv'
  BY <1>1 DEF Inv, FailInv, At
<1> QED
  BY <1>2, <1>3, <1>4

LEMMA WriteInv ==
  ASSUME Inv, Write
  PROVE  Inv'
<1> DEFINE h == Head(queue)
<1>1. /\ writing /\ queue # <<>> /\ queue' = Tail(queue)
      /\ received' = IF h.kind = "request" THEN received \cup {h} ELSE received
      /\ UNCHANGED <<call, requestState, readiness, writing, inbound,
                     delivered, late>>
  BY DEF Write
<1>2. OwnInv' /\ IdInv' /\ WaitInv' /\ FailInv'
  BY <1>1, OwnersStay
<1>3. /\ call' = call /\ nextId' = nextId /\ pending' = pending
      /\ writing' = writing /\ delivered' = delivered /\ late' = late
      /\ readiness' = readiness
  BY <1>1 DEF requestState
<1>4. queue \in Seq(Packets) /\ Len(queue) \in Nat /\ Len(queue) > 0
  BY <1>1 DEF Inv, QueueInv
<1>5. /\ queue' \in Seq(Packets) /\ Len(queue') = Len(queue) - 1
      /\ \A k \in 1..Len(queue') : queue'[k] = queue[k + 1]
      /\ h = queue[1] /\ 1 \in 1..Len(queue)
  BY <1>1, <1>4
<1>6. \A k \in 1..Len(queue') : k + 1 \in 1..Len(queue)
  BY <1>4, <1>5
<1>7. /\ \A j \in 1..Len(queue) : j = 1 \/ j - 1 \in 1..Len(queue')
      /\ \A j \in 1..Len(queue) : j # 1 => queue'[j - 1] = queue[j]
  BY <1>4, <1>5
<1> HIDE DEF h
<1>8. h.kind = "request" => Wanted(h)
  BY <1>5 DEF Inv, FlightInv
<1>9. \A m : Wanted(m)' <=> Wanted(m)
  BY <1>3 DEF Wanted
<1>10. \A m \in received' : Wanted(m)'
  <2>1. \A m \in received' : Wanted(m)
    BY <1>1, <1>8 DEF Inv, FlightInv
  <2> QED
    BY <2>1, <1>9
<1>11. \A i : Written(i) => Written(i)'
  BY <1>1, <1>3 DEF Written
<1>12. h.kind = "request" => \A i : i = h.id => Written(i)'
  BY <1>1 DEF Written
<1>13. ASSUME NEW k \in 1..Len(queue'), queue'[k].kind = "request"
       PROVE  Wanted(queue[k])'
  <2>1. Wanted(queue[k + 1])
    BY <1>5, <1>6, <1>13 DEF Inv, FlightInv
  <2>2. queue'[k] = queue[k + 1]
    BY <1>5
  <2> QED
    BY <1>3, <2>1, <2>2 DEF Wanted
<1>14. ASSUME NEW k \in 1..Len(queue'), queue'[k].kind = "cancel"
       PROVE  Revoked(queue[k].id)' /\ Requested(k)'
  <2>1. queue'[k] = queue[k + 1] /\ k + 1 \in 1..Len(queue)
    BY <1>5, <1>6
  <2>2. Revoked(queue[k + 1].id) /\ Requested(k + 1)
    BY <1>14, <2>1 DEF Inv, FlightInv
  <2>3. Revoked(queue[k].id)'
    BY <1>3, <2>1, <2>2 DEF Revoked
  <2>4. CASE Written(queue[k + 1].id)
    BY <1>11, <2>1, <2>3, <2>4 DEF Requested, Written
  <2>5. CASE \E j \in 1..(k + 1) :
               queue[j] = [queue[k + 1] EXCEPT !.kind = "request"]
    <3>1. PICK j \in 1..(k + 1) :
            queue[j] = [queue[k + 1] EXCEPT !.kind = "request"]
      BY <2>5
    <3>2. queue[k + 1] \in Packets
      BY <1>4, <2>1
    <3>3. queue[j].kind = "request" /\ queue[j].id = queue[k + 1].id
      BY <3>1, <3>2 DEF Packets
    <3>4. j \in 1..Len(queue)
      BY <1>4, <2>1
    <3>5. CASE j = 1
      <4>1. queue'[k].id = h.id /\ h.kind = "request"
        BY <1>5, <2>1, <3>3, <3>5
      <4>2. \A i : i = queue'[k].id => Written(i)'
        BY <1>12, <4>1
      <4> QED
        BY <2>3, <4>2 DEF Requested, Written
    <3>6. CASE j # 1
      <4>1. j - 1 \in 1..k /\ queue'[j - 1] = queue[j]
        BY <1>7, <3>4, <3>6
      <4>2. queue'[j - 1] = [queue'[k] EXCEPT !.kind = "request"]
        BY <2>1, <3>1, <4>1
      <4> QED
        BY <2>3, <4>1, <4>2 DEF Requested
    <3> QED
      BY <3>5, <3>6
  <2> QED
    BY <2>2, <2>3, <2>4, <2>5 DEF Requested
<1>15. ASSUME NEW c \in Calls, call[c].pc \in OnTheWay
       PROVE  Sent(c)'
  <2>1. Sent(c)
    BY <1>1, <1>15 DEF Inv, FlightInv, OnTheWay
  <2>2. Message("request", c)' = Message("request", c)
    BY <1>3 DEF Message
  <2>3. CASE Written(call[c].id)
    BY <1>3, <1>11, <2>3 DEF Sent
  <2>4. CASE \E j \in 1..Len(queue) : queue[j] = Message("request", c)
    <3>1. PICK j \in 1..Len(queue) : queue[j] = Message("request", c)
      BY <2>4
    <3>2. CASE j = 1
      <4>1. h.kind = "request" /\ h.id = call[c].id
        BY <1>5, <3>1, <3>2 DEF Message
      <4> QED
        BY <1>3, <1>12, <4>1 DEF Sent, Written
    <3>3. CASE j # 1
      BY <1>7, <2>2, <3>1, <3>3 DEF Sent
    <3> QED
      BY <3>2, <3>3
  <2> QED
    BY <2>1, <2>3, <2>4 DEF Sent
<1>16. FlightInv'
  BY <1>3, <1>10, <1>13, <1>14, <1>15 DEF FlightInv, OnTheWay
<1>17. QueueInv'
  <2>1. Len(queue') <= Capacity
    BY <1>4, <1>5, RequestsAssumption DEF Inv, QueueInv
  <2> QED
    BY <1>3, <1>5, <2>1 DEF Inv, QueueInv
<1> QED
  BY <1>2, <1>16, <1>17 DEF Inv

LEMMA WriteFailsInv ==
  ASSUME Inv, WriteFails
  PROVE  Inv'
<1>1. /\ writing' = FALSE /\ queue' = <<>>
      /\ UNCHANGED <<call, requestState, readiness, inbound, serverSide>>
  BY DEF WriteFails
<1>2. OwnInv' /\ IdInv' /\ WaitInv' /\ FailInv'
  BY <1>1, OwnersStay DEF serverSide
<1>3. /\ call' = call /\ nextId' = nextId /\ pending' = pending
      /\ readiness' = readiness /\ received' = received /\ late' = late
  BY <1>1 DEF requestState, serverSide
<1>4. queue' \in Seq(Packets) /\ Len(queue') = 0
  BY <1>1
<1>5. \A m \in received' : Wanted(m)'
  BY <1>3 DEF Inv, FlightInv, Wanted
<1>6. 1..Len(queue') = {}
  BY <1>4
<1>7. FlightInv'
  BY <1>1, <1>5, <1>6 DEF FlightInv
<1>8. 0 <= Capacity
  BY RequestsAssumption
<1>9. QueueInv'
  BY <1>1, <1>3, <1>4, <1>8 DEF Inv, QueueInv
<1> QED
  BY <1>2, <1>7, <1>9 DEF Inv

\* The flight of messages, when the futures, the queue and the server stay.
LEMMA FlightStays ==
  ASSUME Inv, UNCHANGED <<call, nextId, outbound, serverSide>>,
         \A i \in Ids : pending'[i] \in {pending[i], NoCall}
  PROVE  FlightInv'
<1>1. /\ call' = call /\ nextId' = nextId /\ queue' = queue
      /\ writing' = writing /\ received' = received
      /\ delivered' = delivered /\ late' = late
  BY DEF outbound, serverSide
<1>2. nextId' \in Nat /\ nextId' >= nextId
  BY <1>1, IdsBelow
<1>3. \A i : Written(i) => Written(i)'
  BY <1>1 DEF Written
<1> QED
  BY <1>1, <1>2, <1>3, FlightKeeps

LEMMA ReaderStopsInv ==
  ASSUME Inv, ReaderStops
  PROVE  Inv'
<1>1. /\ reader = "reading" /\ reader' = "closing"
      /\ call' = call /\ readiness' = readiness /\ unsent' = unsent
      /\ UNCHANGED <<requestState, outbound, serverSide>>
  BY DEF ReaderStops
<1>2. /\ nextId' = nextId /\ pending' = pending /\ failure' = failure
      /\ queue' = queue /\ writing' = writing /\ delivered' = delivered
      /\ late' = late
  BY <1>1 DEF requestState, outbound, serverSide
<1>3. OwnInv' /\ IdInv' /\ WaitInv'
  BY <1>1, <1>2 DEF Inv, OwnInv, OwnOK, PathOK, OutcomeOK, SaidOK, Retried,
                    IdInv, WaitInv, PendingOK, At
<1>4. FailInv'
  BY <1>1, <1>2 DEF Inv, FailInv, At
<1>5. FlightInv'
  BY <1>1, <1>2, FlightStays
<1>6. QueueInv'
  BY <1>1, <1>2 DEF Inv, QueueInv
<1> QED
  BY <1>3, <1>4, <1>5, <1>6 DEF Inv

LEMMA ReaderFailsInv ==
  ASSUME Inv, ReaderFails
  PROVE  Inv'
<1>1. /\ reader = "closing" /\ reader' = "failed" /\ failure' = TRUE
      /\ unsent' = {pending[i] : i \in Ids} \ {NoCall}
      /\ pending' = [i \in Ids |-> NoCall]
      /\ call' = call /\ nextId' = nextId /\ readiness' = readiness
      /\ UNCHANGED <<outbound, serverSide>>
  BY DEF ReaderFails
<1>2. /\ queue' = queue /\ writing' = writing /\ delivered' = delivered
      /\ late' = late
  BY <1>1 DEF outbound, serverSide
<1>3. OwnInv' /\ IdInv'
  BY <1>1, <1>2 DEF Inv, OwnInv, OwnOK, PathOK, OutcomeOK, SaidOK, Retried,
                    IdInv
<1>4. WaitInv'
  <2>1. \A c \in Calls : At(c, "forwarding") => call[c].id \in Ids
    BY OwnState DEF PathOK, Futures, At
  <2>2. \A c \in Calls : At(c, "forwarding") =>
          pending'[call[c].id] = NoCall /\ call[c].id \notin delivered
    BY <1>1, <2>1 DEF Inv, WaitInv
  <2>3. /\ pending' \in [Ids -> Calls \cup {NoCall}]
        /\ \A i \in Ids : pending'[i] = NoCall
    BY <1>1
  <2> QED
    BY <1>1, <1>2, <2>2, <2>3 DEF WaitInv, At
<1>5. FailInv'
  <2>1. ASSUME NEW c \in unsent'
        PROVE  /\ c \in Calls /\ call[c].pc \in InPlay
               /\ call[c].slot = "no reply"
    <3>1. PICK i \in Ids : c = pending[i] /\ pending[i] # NoCall
      BY <1>1, <2>1
    <3> QED
      BY <3>1, Waiting
  <2> QED
    BY <1>1, <2>1 DEF FailInv, At
<1>6. FlightInv'
  BY <1>1, FlightStays
<1>7. QueueInv'
  BY <1>1, <1>2 DEF Inv, QueueInv
<1> QED
  BY <1>3, <1>4, <1>5, <1>6, <1>7 DEF Inv

LEMMA SendsErrorInv ==
  ASSUME Inv, NEW c \in Calls, ReaderSendsError(c)
  PROVE  Inv'
<1>1. /\ reader' = reader /\ c \in unsent /\ unsent' = unsent \ {c}
      /\ UNCHANGED <<requestState, readiness, outbound, serverSide>>
  BY DEF ReaderSendsError
<1>2. /\ nextId' = nextId /\ pending' = pending /\ failure' = failure
      /\ queue' = queue /\ writing' = writing /\ received' = received
      /\ delivered' = delivered /\ late' = late /\ readiness' = readiness
  BY <1>1 DEF requestState, outbound, serverSide
<1>3. failure /\ \A i \in Ids : pending[i] = NoCall
  BY <1>1 DEF Inv, FailInv
<1>4. CASE ~Active(c)
  <2>1. call' = call
    BY <1>4 DEF ReaderSendsError
  <2>2. OwnInv' /\ IdInv' /\ WaitInv'
    BY <1>2, <2>1 DEF Inv, OwnInv, OwnOK, PathOK, OutcomeOK, SaidOK, Retried,
                      IdInv, WaitInv, PendingOK, At
  <2>3. FailInv'
    BY <1>1, <1>2, <2>1 DEF Inv, FailInv, At
  <2>4. FlightInv'
    BY <1>1, <1>2, <2>1, FlightStays
  <2>5. QueueInv'
    BY <1>2 DEF Inv, QueueInv
  <2> QED
    BY <2>2, <2>3, <2>4, <2>5 DEF Inv
<1>5. CASE Active(c)
  <2> DEFINE r == [call[c] EXCEPT !.slot = "failure"]
  <2>1. call' = [call EXCEPT ![c] = r]
    BY <1>5, OwnState DEF ReaderSendsError
  <2>2. call[c].pc \in InPlay
    BY <1>1, <1>5 DEF Inv, FailInv, Active, At
  <2>3. /\ r \in Futures /\ r.pc = call[c].pc /\ r.outcome = call[c].outcome
        /\ r.attempt = call[c].attempt /\ r.id = call[c].id
        /\ r.slot = "failure" /\ r.said = call[c].said
        /\ r.cancelled = call[c].cancelled /\ r.expired = call[c].expired
    BY OwnState DEF Futures
  <2> HIDE DEF r
  <2>4. OwnOK(c, r)
    <3>1. PathOK(c, r)
      BY <2>2, <2>3, OwnState DEF PathOK, InPlay, WaitPCs, BeforePCs
    <3>2. OutcomeOK(r)
      BY <2>3, OwnState DEF OutcomeOK
    <3>3. r.slot \notin Replies
      BY <2>3 DEF Replies
    <3>4. SaidOK(c, r)
      BY <2>3, <3>3, OwnState DEF SaidOK, Retried
    <3> QED
      BY <2>3, <3>1, <3>2, <3>4 DEF OwnOK
  <2>5. /\ call'[c] = r
        /\ \A d \in Calls : d # c => call'[d] = call[d]
    BY <2>1, <2>3, OneMoves
  <2>6. \A d \in Calls : /\ call'[d].id = call[d].id
                         /\ call'[d].pc = call[d].pc
                         /\ call'[d].attempt = call[d].attempt
    BY <2>3, <2>5
  <2>7. OwnInv'
    BY <2>1, <2>4, OwnOne DEF Inv
  <2>8. IdInv'
    BY <1>2, <2>6 DEF Inv, IdInv
  <2>9. WaitInv'
    BY <1>2, <1>3, <2>6 DEF Inv, WaitInv, At
  <2>10. FailInv'
    <3>1. \A d \in unsent' : d \in Calls /\ d # c /\ d \in unsent
      BY <1>1 DEF Inv, FailInv
    <3>2. \A d \in unsent' :
            \/ call'[d].pc = "done"
            \/ call'[d].pc \in InPlay /\ call'[d].slot = "no reply"
      BY <2>5, <3>1 DEF Inv, FailInv, At
    <3> QED
      BY <1>1, <1>2, <1>3, <3>1, <3>2 DEF Inv, FailInv, At
  <2>11. FlightInv'
    <3>1. nextId' \in Nat /\ nextId' >= nextId
      BY <1>2, IdsBelow
    <3>2. \A i : Written(i) => Written(i)'
      BY <1>2 DEF Written
    <3> QED
      BY <1>2, <1>3, <2>6, <3>1, <3>2, FlightKeeps
  <2>12. QueueInv'
    BY <1>2 DEF Inv, QueueInv
  <2> QED
    BY <2>7, <2>8, <2>9, <2>10, <2>11, <2>12 DEF Inv
<1> QED
  BY <1>4, <1>5

\* What a future becomes when the server answers its attempt n with x.
Heard(c, n, x) == [call[c] EXCEPT !.said = @ \cup {<<n, x>>}]

LEMMA HeardOK ==
  ASSUME Inv, NEW c \in Calls, NEW n \in 0..MaxRetries, NEW x \in Replies
  PROVE  /\ Kept(c, Heard(c, n, x))
         /\ OwnOK(c, Heard(c, n, x))
         /\ Heard(c, n, x).pc = call[c].pc
         /\ Heard(c, n, x).outcome = call[c].outcome
         /\ <<n, x>> \in Heard(c, n, x).said
<1> DEFINE r == Heard(c, n, x)
<1>1. /\ call[c] \in Futures
      /\ call[c].said \cup {<<n, x>>} \in SUBSET ((0..MaxRetries) \X Replies)
  <2>1. call[c] \in Futures
    BY OwnState
  <2>2. call[c].said \in SUBSET ((0..MaxRetries) \X Replies)
    BY <2>1 DEF Futures
  <2>3. <<n, x>> \in (0..MaxRetries) \X Replies
    OBVIOUS
  <2> QED
    BY <2>1, <2>2, <2>3
<1>2. /\ r \in Futures /\ r.pc = call[c].pc /\ r.outcome = call[c].outcome
      /\ r.attempt = call[c].attempt /\ r.id = call[c].id
      /\ r.slot = call[c].slot
      /\ r.said = call[c].said \cup {<<n, x>>}
      /\ r.cancelled = call[c].cancelled /\ r.expired = call[c].expired
  BY <1>1 DEF Futures, Heard
<1> HIDE DEF r
<1>3. PathOK(c, r)
  BY <1>2, OwnState DEF PathOK
<1>4. OutcomeOK(r)
  BY <1>2, OwnState DEF OutcomeOK
<1>5. SaidOK(c, r)
  BY <1>2, OwnState DEF SaidOK, Retried
<1>6. Kept(c, r) /\ OwnOK(c, r) /\ <<n, x>> \in r.said
  BY <1>2, <1>3, <1>4, <1>5 DEF Kept, OwnOK
<1> QED
  BY <1>2, <1>6 DEF r

LEMMA DeliverLateInv ==
  ASSUME Inv, NEW m \in received, NEW x \in Replies, Deliver(m, x),
         pending[m.id] = NoCall
  PROVE  Inv'
<1> DEFINE c == m.call
           r == Heard(c, m.attempt, x)
<1>1. /\ m.id \in Ids /\ c \in Calls /\ m.attempt \in 0..MaxRetries
  BY DEF Inv, FlightInv, Wanted
<1>2. /\ received' = received \ {m} /\ late' = late \cup {m.id}
      /\ call' = IF Active(c) THEN [call EXCEPT ![c] = r] ELSE call
      /\ UNCHANGED <<pending, delivered>>
      /\ UNCHANGED <<nextId, failure, readiness, outbound, inbound>>
  BY OwnState, <1>1 DEF Deliver, Heard
<1>3. Kept(c, r) /\ OwnOK(c, r) /\ r \in Futures
  BY <1>1, HeardOK DEF OwnOK
<1> HIDE DEF r
<1>4. /\ OwnInv' /\ call' \in [Calls -> Futures]
      /\ \A d \in Calls : Kept(d, call'[d])
  <2>1. CASE Active(c)
    <3>1. call' = [call EXCEPT ![c] = r]
      BY <1>2, <2>1
    <3>2. /\ call' \in [Calls -> Futures] /\ call'[c] = r
          /\ \A d \in Calls : d # c => call'[d] = call[d]
      BY <1>1, <1>3, <3>1, OneMoves
    <3> QED
      BY <1>1, <1>3, <3>1, <3>2, OwnOne, KeptSame DEF Inv
  <2>2. CASE ~Active(c)
    <3>1. call' = call
      BY <1>2, <2>2
    <3>2. OwnInv'
      BY <3>1 DEF Inv, OwnInv, OwnOK, PathOK, OutcomeOK, SaidOK, Retried
    <3> QED
      BY <3>1, <3>2, KeptSame DEF OwnInv
  <2> QED
    BY <2>1, <2>2
<1>5. Calm /\ \A d \in Calls : ~Sends(d, call'[d])
  BY <1>2, <1>4 DEF Calm, Kept, Sends, At
<1>6. IdInv' /\ WaitInv' /\ FailInv'
  BY <1>5, CalmLinks
<1>7. /\ nextId' = nextId /\ pending' = pending /\ delivered' = delivered
      /\ queue' = queue /\ writing' = writing /\ readiness' = readiness
  BY <1>2 DEF outbound
<1>8. FlightInv'
  <2>1. Follows(m)
    BY <1>5, CalmFollows
  <2>2. \A d \in Calls : call'[d].pc \in OnTheWay =>
          /\ call[d].pc \in OnTheWay
          /\ call'[d].id = call[d].id /\ call'[d].attempt = call[d].attempt
    BY <1>4 DEF Kept, At, OnTheWay
  <2>3. \A i : Written(i) => Written(i)'
    BY <1>2 DEF Written
  <2>4. nextId' \in Nat /\ nextId' >= nextId
    BY <1>7, IdsBelow
  <2> QED
    BY <1>2, <1>7, <2>1, <2>2, <2>3, <2>4, FlightKeeps DEF Follows
<1>9. QueueInv'
  BY <1>1, <1>2, <1>7 DEF Inv, QueueInv
<1> QED
  BY <1>4, <1>6, <1>8, <1>9 DEF Inv

\* The reply completes the call that waits for it, which is the one that sent
\* the request, at the same attempt.
Completes(c, m, x) ==
  /\ c \in Calls /\ m.call = c /\ m.id \in Ids /\ m.id = call[c].id
  /\ pending[m.id] # NoCall
  /\ m.attempt = call[c].attempt /\ call[c].pc \in InPlay
  /\ call' = [call EXCEPT ![c] = [Heard(c, m.attempt, x) EXCEPT !.slot = x]]
  /\ pending' = [pending EXCEPT ![m.id] = NoCall]
  /\ delivered' = delivered \cup {m.id}
  /\ received' = received \ {m}
  /\ reader = "reading"
  /\ UNCHANGED <<nextId, failure, readiness, outbound, inbound, late>>

LEMMA DeliverCompletes ==
  ASSUME Inv, NEW m \in received, NEW x \in Replies, Deliver(m, x),
         pending[m.id] # NoCall
  PROVE  Completes(pending[m.id], m, x)
<1> DEFINE c == pending[m.id]
<1>1. /\ m.id \in Ids /\ m.call = c /\ m.attempt = call[c].attempt
  BY DEF Inv, FlightInv, Wanted
<1>2. c \in Calls /\ call[c].id = m.id /\ call[c].pc \in InPlay
  BY <1>1, Waiting
<1>3. Active(m.call)
  BY <1>1, <1>2 DEF Active, InPlay
<1>4. /\ call' = [[call EXCEPT ![c].said = @ \cup {<<m.attempt, x>>}]
                    EXCEPT ![c].slot = x]
      /\ pending' = [pending EXCEPT ![m.id] = NoCall]
      /\ delivered' = delivered \cup {m.id}
      /\ received' = received \ {m} /\ reader = "reading"
      /\ UNCHANGED <<nextId, failure, readiness, outbound, inbound, late>>
  BY <1>1, <1>3 DEF Deliver
<1>5. call' = [call EXCEPT ![c] = [Heard(c, m.attempt, x) EXCEPT !.slot = x]]
  BY <1>2, <1>4, OwnState DEF Heard
<1> QED
  BY <1>1, <1>2, <1>4, <1>5 DEF Completes

LEMMA CompleteInv ==
  ASSUME Inv, NEW c, NEW m \in received, NEW x \in Replies,
         Completes(c, m, x)
  PROVE  Inv'
<1> DEFINE n == m.id
           r == [Heard(c, m.attempt, x) EXCEPT !.slot = x]
<1>1. /\ c \in Calls /\ n \in Ids /\ n = call[c].id /\ n # 0 /\ n < nextId
      /\ call[c].pc \in InPlay /\ m.attempt \in 0..MaxRetries
      /\ m.attempt = call[c].attempt
  <2>1. c \in Calls /\ n \in Ids /\ n = call[c].id /\ call[c].pc \in InPlay
        /\ m.attempt = call[c].attempt
    BY DEF Completes
  <2>2. n # 0
    BY <2>1, RequestsAssumption DEF Ids
  <2>3. call[c].attempt \in 0..MaxRetries
    BY <2>1, OwnState DEF Futures
  <2>4. call[c].id < nextId
    BY <2>1, IdsBelow
  <2> QED
    BY <2>1, <2>2, <2>3, <2>4
<1>2. /\ call' = [call EXCEPT ![c] = r]
      /\ pending' = [pending EXCEPT ![n] = NoCall]
      /\ delivered' = delivered \cup {n}
      /\ received' = received \ {m}
      /\ reader = "reading"
      /\ UNCHANGED <<nextId, failure, readiness, outbound, inbound, late>>
  BY DEF Completes
<1>3. /\ r \in Futures /\ r.pc = call[c].pc /\ r.slot = x /\ r.id = call[c].id
      /\ r.attempt = call[c].attempt /\ OwnOK(c, r)
  <2> DEFINE h == Heard(c, m.attempt, x)
  <2>1. /\ Kept(c, h) /\ OwnOK(c, h) /\ h.pc = call[c].pc
        /\ <<m.attempt, x>> \in h.said
    BY <1>1, HeardOK
  <2> HIDE DEF h
  <2>2. /\ h \in Futures /\ h.id = call[c].id /\ h.attempt = call[c].attempt
        /\ PathOK(c, h) /\ OutcomeOK(h) /\ SaidOK(c, h)
    BY <2>1 DEF OwnOK, Kept
  <2>3. /\ r \in Futures /\ r.pc = h.pc /\ r.id = h.id /\ r.slot = x
        /\ r.attempt = h.attempt /\ r.said = h.said
        /\ r.outcome = h.outcome /\ r.cancelled = h.cancelled
        /\ r.expired = h.expired
    BY <2>2 DEF Futures, h
  <2> HIDE DEF r
  <2>4. PathOK(c, r)
    BY <1>1, <2>1, <2>2, <2>3 DEF PathOK, InPlay, WaitPCs, BeforePCs
  <2>5. OutcomeOK(r)
    BY <2>2, <2>3 DEF OutcomeOK
  <2>6. SaidOK(c, r)
    BY <1>1, <2>1, <2>2, <2>3 DEF SaidOK, Retried
  <2> QED
    BY <2>1, <2>2, <2>3, <2>4, <2>5, <2>6 DEF OwnOK
<1> HIDE DEF r
<1>4. /\ call'[c] = r
      /\ \A d \in Calls : d # c => call'[d] = call[d]
  BY <1>1, <1>2, <1>3, OneMoves
<1>5. \A d \in Calls : /\ call'[d].id = call[d].id
                       /\ call'[d].pc = call[d].pc
                       /\ call'[d].attempt = call[d].attempt
  BY <1>3, <1>4
<1>6. /\ pending \in [Ids -> Calls \cup {NoCall}]
      /\ pending' \in [Ids -> Calls \cup {NoCall}]
      /\ \A i \in Ids : pending'[i] = IF i = n THEN NoCall ELSE pending[i]
  BY <1>1, <1>2 DEF Inv, WaitInv
<1>7. /\ nextId' = nextId /\ failure' = failure /\ readiness' = readiness
      /\ queue' = queue /\ writing' = writing /\ reader' = reader
      /\ unsent' = unsent /\ late' = late
  BY <1>2 DEF outbound, inbound
<1>8. \A d \in Calls : d # c => call[d].id # n
  BY <1>1 DEF Inv, IdInv
<1>9. OwnInv'
  BY <1>1, <1>2, <1>3, OwnOne DEF Inv
<1>10. IdInv'
  BY <1>1, <1>2, <1>5, <1>7 DEF Inv, IdInv
<1>11. WaitInv'
  <2>1. ASSUME NEW i \in Ids, pending'[i] # NoCall
        PROVE  PendingOK(i, pending[i])'
    <3>1. /\ pending'[i] = pending[i] /\ i # n /\ pending[i] \in Calls
          /\ call[pending[i]].id = i /\ call[pending[i]].pc \in InPlay
          /\ call[pending[i]].slot = "no reply" /\ i \notin delivered
      BY <2>1, <1>6, Waiting
    <3>2. call'[pending[i]] = call[pending[i]]
      BY <3>1, <1>1, <1>4
    <3> QED
      BY <3>1, <3>2, <1>2 DEF PendingOK
  <2>2. ASSUME NEW d \in Calls, call'[d].pc = "forwarding"
        PROVE  pending'[call'[d].id] = NoCall /\ call'[d].id \notin delivered'
    <3>1. At(d, "forwarding") /\ call'[d].id = call[d].id
      BY <2>2, <1>5 DEF At
    <3>2. d # c
      BY <3>1, <1>1 DEF At, InPlay
    <3>3. call[d].id # n /\ call[d].id \in Ids
      BY <3>1, <3>2, <1>8, OwnState DEF PathOK, Futures, At
    <3>4. pending[call[d].id] = NoCall /\ call[d].id \notin delivered
      BY <3>1 DEF Inv, WaitInv
    <3>5. pending'[call[d].id] = NoCall
      BY <3>3, <3>4, <1>6
    <3> QED
      BY <3>1, <3>3, <3>4, <3>5, <1>2
  <2> QED
    BY <1>6, <2>1, <2>2 DEF WaitInv, At
<1>12. FailInv'
  <2>1. ~failure /\ unsent = {}
    BY <1>2 DEF Inv, FailInv
  <2>2. \A d \in Calls : call'[d].slot # "failure"
    <3>1. x # "failure"
      BY DEF Replies
    <3> QED
      BY <2>1, <3>1, <1>3, <1>4 DEF Inv, FailInv
  <2> QED
    BY <1>2, <1>7, <2>1, <2>2 DEF Inv, FailInv
<1>13. FlightInv'
  <2>1. \A i \in Ids : pending'[i] # NoCall =>
          /\ pending'[i] = pending[i]
          /\ call'[pending[i]].attempt = call[pending[i]].attempt
    BY <1>5, <1>6, Waiting
  <2>2. \A i : Written(i) => Written(i)'
    BY <1>2, <1>7 DEF Written
  <2>3. nextId' \in Nat /\ nextId' >= nextId
    BY <1>7, IdsBelow
  <2>4. \A i \in delivered' : i \in delivered \/ pending[i] # NoCall
    BY <1>2 DEF Completes
  <2> QED
    BY <1>2, <1>5, <1>7, <2>1, <2>2, <2>3, <2>4, FlightKeeps
<1>14. QueueInv'
  BY <1>7 DEF Inv, QueueInv
<1> QED
  BY <1>9, <1>10, <1>11, <1>12, <1>13, <1>14 DEF Inv

LEMMA DeliverInv ==
  ASSUME Inv, NEW m \in received, NEW x \in Replies, Deliver(m, x)
  PROVE  Inv'
<1>1. CASE pending[m.id] = NoCall
  BY <1>1, DeliverLateInv
<1>2. CASE pending[m.id] # NoCall
  <2>1. Completes(pending[m.id], m, x)
    BY <1>2, DeliverCompletes
  <2> QED
    BY <2>1, CompleteInv
<1> QED
  BY <1>1, <1>2

LEMMA InitInv ==
  ASSUME Init
  PROVE  Inv
<1>1. OwnInv
  <2>1. \A c \in Calls : OwnOK(c, Fresh)
    <3> TAKE c \in Calls
    <3>1. /\ Fresh.pc = "idle" /\ Fresh.id = 0 /\ Fresh.slot = "no reply"
          /\ Fresh.attempt = 0
      BY DEF Fresh
    <3> HIDE DEF Fresh
    <3>2. PathOK(c, Fresh)
      BY <3>1 DEF PathOK, InPlay, WaitPCs, BeforePCs
    <3>3. OutcomeOK(Fresh)
      BY <3>1 DEF OutcomeOK
    <3>4. ~(0 > 0)
      OBVIOUS
    <3>5. Fresh.slot \notin Replies
      BY <3>1 DEF Replies
    <3>6. SaidOK(c, Fresh)
      BY <3>1, <3>4, <3>5, Zenon DEF SaidOK
    <3> QED
      BY <3>2, <3>3, <3>6, FreshOK DEF OwnOK
  <2>2. call = [c \in Calls |-> Fresh]
    BY DEF Init
  <2> QED
    BY <2>1, <2>2, FreshOK DEF OwnInv
<1>2. \A c \in Calls : call[c].pc = "idle" /\ call[c].id = 0
                       /\ call[c].slot = "no reply"
  BY DEF Init, Fresh
<1>3. /\ nextId = 1 /\ pending = [i \in Ids |-> NoCall] /\ failure = FALSE
      /\ readiness = "settled" /\ queue = <<>> /\ writing = TRUE
      /\ reader = "reading" /\ unsent = {} /\ received = {}
      /\ delivered = {} /\ late = {}
  BY DEF Init
<1>4. IdInv
  <2>1. 0 < 1 /\ 1 \in Nat \ {0}
    OBVIOUS
  <2>2. \A c \in Calls : call[c].id < nextId
    BY <1>2, <1>3, <2>1
  <2> QED
    BY <1>2, <1>3, <2>1, <2>2 DEF IdInv
<1>5. WaitInv
  BY <1>2, <1>3 DEF WaitInv, At
<1>6. FailInv
  BY <1>2, <1>3 DEF FailInv
<1>7. QueueInv
  BY <1>3, RequestsAssumption DEF QueueInv, Readiness
<1>8. FlightInv
  <2>1. 1..Len(queue) = {}
    BY <1>3
  <2>2. \A c \in Calls :
          call[c].pc \notin {"awaiting", "withdrawing", "forwarding"}
    BY <1>2
  <2> QED
    BY <1>3, <2>1, <2>2, Zenon DEF FlightInv
<1> QED
  BY <1>1, <1>4, <1>5, <1>6, <1>7, <1>8 DEF Inv

\* The kinds of step, by what they touch.
LEMMA StepKinds ==
  ASSUME Next
  PROVE  \/ \E c \in Calls : FutureStep(c)
         \/ \E c \in Calls : Register(c) \/ Send(c) \/ SendFails(c)
         \/ \E c \in Calls : Withdraw(c) \/ Forward(c)
         \/ \E x \in Reports : ReportReadiness(x)
         \/ SendOther \/ Write \/ WriteFails
         \/ \E m \in received, x \in Replies : Deliver(m, x)
         \/ ReaderStops \/ ReaderFails \/ ReaderNotifies
         \/ \E c \in Calls : ReaderSendsError(c)
<1>1. ASSUME NEW c \in Calls,
             \/ Begin(c) \/ Cancel(c) \/ Expire(c) \/ AcquirePermit(c)
             \/ CallStep(c) \/ TimerPasses(c)
      PROVE  \/ FutureStep(c)
             \/ Register(c) \/ Send(c) \/ SendFails(c)
             \/ Withdraw(c) \/ Forward(c)
  BY <1>1, Zenon DEF FutureStep, CallStep, Attempt
<1> QED
  BY <1>1, Zenon DEF Next, ReaderCloses

LEMMA StepInv ==
  ASSUME Inv, [Next]_vars
  PROVE  Inv'
<1>1. CASE UNCHANGED vars
  <2>1. UNCHANGED <<call, requestState, readiness, outbound, inbound,
                    serverSide>>
    BY <1>1 DEF vars
  <2>2. OwnInv' /\ IdInv' /\ WaitInv' /\ FailInv'
    BY <2>1, OwnersStay DEF serverSide
  <2>3. FlightInv'
    BY <2>1, FlightStays DEF requestState
  <2>4. QueueInv'
    BY <2>1 DEF Inv, QueueInv, outbound, serverSide
  <2> QED
    BY <2>2, <2>3, <2>4 DEF Inv
<1>2. ASSUME NEW c \in Calls, FutureStep(c) PROVE Inv'
  BY <1>2, FutureStepInv
<1>3. ASSUME NEW c \in Calls, Register(c) \/ Send(c) \/ SendFails(c)
      PROVE  Inv'
  BY <1>3, RegisterInv, SendInv, SendFailsInv
<1>4. ASSUME NEW c \in Calls, Withdraw(c) \/ Forward(c) PROVE Inv'
  BY <1>4, WithdrawInv, ForwardInv
<1>5. ASSUME NEW x \in Reports, ReportReadiness(x) PROVE Inv'
  BY <1>5, ReportInv
<1>6. CASE SendOther \/ Write \/ WriteFails
  BY <1>6, SendOtherInv, WriteInv, WriteFailsInv
<1>7. ASSUME NEW m \in received, NEW x \in Replies, Deliver(m, x) PROVE Inv'
  BY <1>7, DeliverInv
<1>8. CASE ReaderStops \/ ReaderFails \/ ReaderNotifies
  BY <1>8, ReaderStopsInv, ReaderFailsInv, NotifiesInv
<1>9. ASSUME NEW c \in Calls, ReaderSendsError(c) PROVE Inv'
  BY <1>9, SendsErrorInv
<1> QED
  BY <1>1, <1>2, <1>3, <1>4, <1>5, <1>6, <1>7, <1>8, <1>9, StepKinds

\* Everything above holds in every state: each call's locals fit its place, an
\* id is one call's, and requests and cancellations in flight are of calls
\* that wait, or waited, for them.
THEOREM InvHolds == Spec => []Inv
<1>1. Init => Inv
  BY InitInv
<1>2. Inv /\ [Next]_vars => Inv'
  BY StepInv
<1> QED
  BY <1>1, <1>2, PTL DEF Spec

-----------------------------------------------------------------------------
(* What follows                                                            *)

\* The shape of the state: every call and message is what the code says it
\* is, and a call that waits for a reply has an id.
THEOREM TypeCorrect == Spec => []TypeOK
<1>1. Inv => TypeOK
  <2> SUFFICES ASSUME Inv PROVE TypeOK
    OBVIOUS
  <2>1. ASSUME NEW c \in Calls
        PROVE  /\ call[c].pc \in PCs
               /\ call[c].outcome \in Verdicts \cup {"open"}
               /\ call[c].attempt \in 0..MaxRetries
               /\ call[c].id \in Ids \cup {0}
               /\ call[c].slot \in Replies \cup {"no reply", "failure"}
               /\ call[c].timer \in 0..2
               /\ {call[c].wasBusy, call[c].watching, call[c].cancelled,
                   call[c].expired} \subseteq BOOLEAN
               /\ call[c].said \subseteq (0..MaxRetries) \X Replies
    BY OwnState DEF Futures
  <2>2. ASSUME NEW c \in Calls
        PROVE  /\ call[c].pc \in {"sending", "awaiting", "withdrawing",
                                  "forwarding"} => call[c].id # 0
               /\ call[c].pc = "judging" => call[c].slot \in Replies
    BY OwnState DEF PathOK, InPlay
  <2>3. /\ nextId \in Nat \ {0}
        /\ pending \in [Ids -> Calls \cup {NoCall}]
        /\ {failure, writing} \subseteq BOOLEAN
        /\ readiness \in Readiness /\ Len(queue) <= Capacity
        /\ reader \in {"reading", "closing", "failed", "ended"}
        /\ unsent \subseteq Calls /\ delivered \subseteq Ids
        /\ late \subseteq Ids
    BY DEF Inv, IdInv, WaitInv, FailInv, QueueInv
  <2>4. received \subseteq [kind : {"request"}, id : Ids, call : Calls,
                            attempt : 0..MaxRetries]
    BY DEF Inv, FlightInv, Wanted
  <2> QED
    BY <2>1, <2>2, <2>3, <2>4 DEF TypeOK
<1> QED
  BY <1>1, InvHolds, PTL

\* Once the end of the server's output is recorded, nobody waits for a reply:
\* not those who raced the reader for the lock either.
THEOREM NoneWaits == Spec => []NoneWaitsForTheDead
<1>1. Inv => NoneWaitsForTheDead
  BY DEF Inv, FailInv, NoneWaitsForTheDead
<1> QED
  BY <1>1, InvHolds, PTL

\* A $/cancelRequest comes after its request, and is never sent for a request
\* whose reply Deixis has delivered.
THEOREM CancelFollows == Spec => []CancelFollowsRequest
<1>1. Inv => CancelFollowsRequest
  BY DEF Inv, FlightInv, Revoked, Requested, CancelFollowsRequest
<1> QED
  BY <1>1, InvHolds, PTL

\* A request goes out again only after the server disowned the attempt before
\* it, and `initialize` and `shutdown` never do.
THEOREM OnlyTheDisowned == Spec => ReplaysOnlyTheDisowned
<1>1. ASSUME Inv, NEW c \in Calls, At(c, "registering"), call[c].id # 0
      PROVE  /\ c \notin Lifecycle
             /\ \E r \in Disowning(c) :
                  <<call[c].attempt - 1, r>> \in call[c].said
  <2>1. call[c].attempt > 0
    BY <1>1, OwnState DEF PathOK, BeforePCs, At
  <2> QED
    BY <1>1, <2>1, OwnState DEF SaidOK, Retried
<1>2. Inv => [\A c \in Calls :
               /\ At(c, "registering")
               /\ call'[c].pc = "sending"
               /\ call[c].id # 0
               => /\ c \notin Lifecycle
                  /\ \E r \in Disowning(c) :
                       <<call[c].attempt - 1, r>> \in call[c].said]_vars
  BY <1>1
<1> QED
  BY <1>2, InvHolds, PTL DEF ReplaysOnlyTheDisowned

-----------------------------------------------------------------------------
(* Permits                                                                 *)

Holders == {c \in Calls : call[c].pc \in HoldingPCs}
PermitInv == IsFiniteSet(Holders) /\ Cardinality(Holders) <= MaxConcurrent

LEMMA GotoPc ==
  ASSUME Inv, NEW c \in Calls, NEW pc, Goto(c, pc)
  PROVE  /\ call'[c].pc = pc
         /\ \A d \in Calls : d # c => call'[d] = call[d]
  BY OwnState DEF Goto, Futures

LEMMA FinishPc ==
  ASSUME Inv, NEW c \in Calls, NEW o, Finish(c, o)
  PROVE  /\ call'[c].pc = "done"
         /\ \A d \in Calls : d # c => call'[d] = call[d]
  BY OwnState DEF Finish, Fresh

\* One future moves, and not into the region of the permit.
Outside(c) ==
  /\ call'[c].pc \in HoldingPCs => call[c].pc \in HoldingPCs
  /\ \A d \in Calls : d # c => call'[d] = call[d]

LEMMA FutureOutside ==
  ASSUME Inv, NEW c \in Calls, FutureStep(c), ~AcquirePermit(c)
  PROVE  Outside(c)
<1> USE DEF HoldingPCs
<1>0. \A o : Finish(c, o) => Outside(c)
  BY FinishPc DEF Outside
<1>00. \A pc : Goto(c, pc) /\ pc \notin HoldingPCs => Outside(c)
  BY GotoPc DEF Outside
<1>1. CASE Begin(c)
  BY <1>1, <1>00 DEF Begin
<1>2. CASE Cancel(c)
  BY <1>2, OwnState DEF Cancel, Futures, Outside
<1>15. CASE Expire(c)
  BY <1>15, OwnState DEF Expire, Futures, Outside
<1>3. CASE StartAttempt(c)
  <2>1. CASE call[c].cancelled
    BY <1>0, <1>3, <2>1 DEF StartAttempt
  <2>2. CASE ~call[c].cancelled
    <3> DEFINE b == readiness = "busy"
    <3>1. call' = [call EXCEPT ![c].pc = "queued", ![c].wasBusy = b]
      BY <1>3, <2>2 DEF StartAttempt
    <3> HIDE DEF b
    <3> QED
      BY <3>1, OwnState DEF Futures, Outside
  <2> QED
    BY <2>1, <2>2
<1>4. CASE InterruptBeforeSend(c)
  BY <1>0, <1>4 DEF InterruptBeforeSend
<1>5. CASE Validate(c)
  <2>1. At(c, "validating")
    BY <1>5 DEF Validate
  <2>2. CASE Goto(c, "registering")
    BY <2>1, <2>2, GotoPc DEF Outside, At
  <2>3. CASE Finish(c, "outdated")
    BY <1>0, <2>3
  <2> QED
    BY <1>5, <2>2, <2>3 DEF Validate
<1>6. CASE Interrupt(c)
  BY <1>6, OwnState DEF Interrupt, GiveUp, At, Futures, Outside
<1>7. CASE Receive(c)
  BY <1>0, <1>00, <1>7 DEF Receive
<1>8. CASE JudgeFinal(c)
  BY <1>0, <1>8 DEF JudgeFinal
<1>9. CASE JudgeRetryable(c)
  BY <1>0, <1>00, <1>9 DEF JudgeRetryable
<1>10. CASE Subscribe(c)
  <2>1. CASE Interrupted(c)
    BY <1>0, <1>10, <2>1 DEF Subscribe
  <2>2. CASE ~Interrupted(c)
    <3>1. call' = [call EXCEPT ![c].pc = "checking", ![c].watching = TRUE]
      BY <1>10, <2>2 DEF Subscribe
    <3>2. call'[c].pc = "checking"
      BY <3>1, OwnState DEF Futures
    <3>3. \A d \in Calls : d # c => call'[d] = call[d]
      BY <3>1, OwnState
    <3> QED
      BY <3>2, <3>3 DEF Outside
  <2> QED
    BY <2>1, <2>2
<1>11. CASE CheckTransport(c)
  BY <1>0, <1>00, <1>11 DEF CheckTransport
<1>12. CASE CheckReadiness(c)
  <2>1. CASE Due(c)
    <3>1. call' = [call EXCEPT ![c].pc = "starting", ![c].watching = FALSE,
                               ![c].timer = 0, ![c].attempt = @ + 1]
      BY <1>12, <2>1 DEF CheckReadiness
    <3>2. call'[c].pc = "starting"
      BY <3>1, OwnState DEF Futures
    <3>3. \A d \in Calls : d # c => call'[d] = call[d]
      BY <3>1, OwnState
    <3> QED
      BY <3>2, <3>3 DEF Outside
  <2>2. CASE ~Due(c)
    BY <1>00, <1>12, <2>2 DEF CheckReadiness
  <2> QED
    BY <2>1, <2>2
<1>13. CASE Wake(c)
  BY <1>13, OwnState DEF Wake, Futures, Outside
<1>14. CASE TimerPasses(c)
  <2>1. CASE At(c, "pausing")
    BY <1>14, <2>1, OwnState DEF TimerPasses, Futures, Outside
  <2>2. CASE ~At(c, "pausing")
    BY <1>14, <2>2, OwnState DEF TimerPasses, Futures, Outside
  <2> QED
    BY <2>1, <2>2
<1> QED
  BY <1>1, <1>2, <1>3, <1>4, <1>5, <1>6, <1>7, <1>8, <1>9, <1>10, <1>11,
     <1>12, <1>13, <1>14, <1>15 DEF FutureStep, Retry

LEMMA RequestOutside ==
  ASSUME Inv, NEW c \in Calls,
         \/ Register(c) \/ Send(c) \/ SendFails(c)
         \/ Withdraw(c) \/ Forward(c)
  PROVE  Outside(c)
<1> USE DEF HoldingPCs
<1>0. \A o : Finish(c, o) => Outside(c)
  BY FinishPc DEF Outside
<1>1. CASE Register(c)
  <2>1. CASE failure
    BY <1>0, <1>1, <2>1 DEF Register
  <2>2. CASE ~failure
    BY <1>1, <2>2, OwnState DEF Register, Insert, At, Futures, Outside
  <2> QED
    BY <2>1, <2>2
<1>2. CASE Send(c)
  BY <1>2, GotoPc DEF Send, At, Outside
<1>3. CASE SendFails(c)
  BY <1>0, <1>3 DEF SendFails
<1>4. CASE Withdraw(c)
  <2>1. CASE pending[call[c].id] # NoCall
    BY <1>4, <2>1, GotoPc DEF Withdraw, At, Outside
  <2>2. CASE pending[call[c].id] = NoCall
    BY <1>0, <1>4, <2>2 DEF Withdraw
  <2> QED
    BY <2>1, <2>2
<1>5. CASE Forward(c)
  BY <1>0, <1>5 DEF Forward
<1> QED
  BY <1>1, <1>2, <1>3, <1>4, <1>5

\* The steps of the other tasks take no future anywhere.
LEMMA TasksPlaceNobody ==
  ASSUME Inv,
         \/ \E x \in Reports : ReportReadiness(x)
         \/ SendOther \/ Write \/ WriteFails
         \/ \E m \in received, x \in Replies : Deliver(m, x)
         \/ ReaderStops \/ ReaderFails \/ ReaderNotifies
         \/ \E c \in Calls : ReaderSendsError(c)
         \/ UNCHANGED vars
  PROVE  \A c \in Calls : /\ call'[c].pc = call[c].pc
                          /\ call'[c].outcome = call[c].outcome
<1>1. CASE call' = Notified
  BY <1>1, NotifiedIs
<1>2. CASE call' = call
  BY <1>2
<1>3. ASSUME NEW m \in received, NEW x \in Replies, Deliver(m, x)
      PROVE  \A c \in Calls : /\ call'[c].pc = call[c].pc
                              /\ call'[c].outcome = call[c].outcome
  <2>1. m.call \in Calls /\ m.id \in Ids /\ m.attempt \in 0..MaxRetries
    BY DEF Inv, FlightInv, Wanted
  <2> DEFINE h == Heard(m.call, m.attempt, x)
  <2>2. /\ h.pc = call[m.call].pc /\ h.outcome = call[m.call].outcome
        /\ h \in Futures
    BY <2>1, HeardOK DEF OwnOK
  <2>3. CASE pending[m.id] = NoCall
    <3>1. call' = IF Active(m.call) THEN [call EXCEPT ![m.call] = h] ELSE call
      BY <1>3, <2>1, <2>3, OwnState DEF Deliver, Heard
    <3> HIDE DEF h
    <3> QED
      BY <2>1, <2>2, <3>1, OneMoves
  <2>4. CASE pending[m.id] # NoCall
    <3> DEFINE r == [h EXCEPT !.slot = x]
    <3>1. m.call = pending[m.id] /\ call' = [call EXCEPT ![m.call] = r]
      BY <1>3, <2>4, DeliverCompletes DEF Completes
    <3> HIDE DEF h
    <3>2. r \in Futures /\ r.pc = h.pc /\ r.outcome = h.outcome
      BY <2>2 DEF Futures
    <3> HIDE DEF r
    <3> QED
      BY <2>1, <2>2, <3>1, <3>2, OneMoves
  <2> QED
    BY <2>3, <2>4
<1>4. ASSUME NEW c \in Calls, ReaderSendsError(c)
      PROVE  \A d \in Calls : /\ call'[d].pc = call[d].pc
                              /\ call'[d].outcome = call[d].outcome
  BY <1>4, OwnState DEF ReaderSendsError, Futures
<1> QED
  BY <1>1, <1>2, <1>3, <1>4
     DEF ReportReadiness, SendOther, Write, WriteFails, ReaderStops,
         ReaderFails, ReaderNotifies, vars

LEMMA FewerHolders ==
  ASSUME PermitInv, Holders' \subseteq Holders
  PROVE  PermitInv'
<1>1. IsFiniteSet(Holders') /\ Cardinality(Holders') <= Cardinality(Holders)
  BY FS_Subset DEF PermitInv
<1>2. Cardinality(Holders) \in Nat /\ Cardinality(Holders') \in Nat
  BY <1>1, FS_CardinalityType DEF PermitInv
<1> QED
  BY <1>1, <1>2, RequestsAssumption DEF PermitInv

LEMMA PermitStep ==
  ASSUME Inv, PermitInv, [Next]_vars
  PROVE  PermitInv'
<1>1. ASSUME NEW c \in Calls, Outside(c)
      PROVE  PermitInv'
  <2>1. Holders' \subseteq Holders
    BY <1>1 DEF Outside, Holders
  <2> QED
    BY <2>1, FewerHolders
<1>2. ASSUME NEW c \in Calls, AcquirePermit(c)
      PROVE  PermitInv'
  <2>1. Holders' \subseteq Holders \cup {c}
    <3>1. \A d \in Calls : d # c => call'[d] = call[d]
      BY <1>2, GotoPc DEF AcquirePermit, Granted
    <3> QED
      BY <3>1 DEF Holders
  <2>2. /\ IsFiniteSet(Holders) /\ Cardinality(Holders) < MaxConcurrent
        /\ Cardinality(Holders) \in Nat
    BY <1>2, FS_CardinalityType
       DEF AcquirePermit, PermitsFree, Holders, PermitInv
  <2>3. /\ IsFiniteSet(Holders \cup {c})
        /\ Cardinality(Holders \cup {c}) \in
             {Cardinality(Holders), Cardinality(Holders) + 1}
    BY <2>2, FS_AddElement
  <2>4. Cardinality(Holders \cup {c}) <= MaxConcurrent
    BY <2>2, <2>3, RequestsAssumption
  <2>5. /\ IsFiniteSet(Holders')
        /\ Cardinality(Holders') <= Cardinality(Holders \cup {c})
    BY <2>1, <2>3, FS_Subset
  <2>6. /\ Cardinality(Holders') \in Nat
        /\ Cardinality(Holders \cup {c}) \in Nat
    BY <2>3, <2>5, FS_CardinalityType
  <2> QED
    BY <2>4, <2>5, <2>6, RequestsAssumption DEF PermitInv
<1>3. ASSUME \A c \in Calls : call'[c].pc = call[c].pc
      PROVE  PermitInv'
  <2>1. Holders' \subseteq Holders
    BY <1>3 DEF Holders
  <2> QED
    BY <2>1, FewerHolders
<1>4. ASSUME NEW c \in Calls, FutureStep(c)
      PROVE  PermitInv'
  BY <1>1, <1>2, <1>4, FutureOutside
<1>5. ASSUME NEW c \in Calls,
             \/ Register(c) \/ Send(c) \/ SendFails(c)
             \/ Withdraw(c) \/ Forward(c)
      PROVE  PermitInv'
  BY <1>1, <1>5, RequestOutside
<1> QED
  BY <1>3, <1>4, <1>5, StepKinds, TasksPlaceNobody

LEMMA PermitInit ==
  ASSUME Init
  PROVE  PermitInv
<1>1. Holders = {}
  BY DEF Init, Fresh, Holders, HoldingPCs
<1> QED
  BY <1>1, FS_EmptySet, RequestsAssumption DEF PermitInv

\* Every request that waits for a response belongs to a call of its own, and
\* that call holds a permit.
LEMMA InFlightHold ==
  ASSUME Inv, PermitInv
  PROVE  InFlightBounded
<1> DEFINE S == {i \in Ids : pending[i] # NoCall}
           f == [i \in S |-> pending[i]]
<1>1. IsFiniteSet(S) /\ Cardinality(S) \in Nat
  <2>1. IsFiniteSet(Ids)
    BY FS_Interval, RequestsAssumption DEF Ids
  <2>2. IsFiniteSet(S)
    BY <2>1, FS_Subset
  <2> QED
    BY <2>2, FS_CardinalityType
<1>2. f \in [S -> Holders]
  BY Waiting DEF Holders, HoldingPCs, InPlay
<1>3. \A i, j \in S : f[i] = f[j] => i = j
  BY Waiting
<1>4. IsFiniteSet(Holders) /\ Cardinality(Holders) \in Nat
  BY FS_CardinalityType DEF PermitInv
<1> HIDE DEF f
<1>5. ~(Cardinality(Holders) < Cardinality(S))
  BY <1>1, <1>2, <1>3, <1>4, FS_PigeonHole
<1>6. Cardinality(S) <= MaxConcurrent
  BY <1>1, <1>4, <1>5, RequestsAssumption DEF PermitInv
<1> QED
  BY <1>6 DEF InFlightBounded

\* max_concurrent_requests bounds the requests in flight, though permits are
\* held by futures and replies are awaited by id.
THEOREM InFlight == Spec => []InFlightBounded
<1>1. Init => PermitInv
  BY PermitInit
<1>2. Inv /\ PermitInv /\ [Next]_vars => PermitInv'
  BY PermitStep
<1>3. Inv /\ PermitInv => InFlightBounded
  BY InFlightHold
<1> QED
  BY <1>1, <1>2, <1>3, InvHolds, PTL DEF Spec

-----------------------------------------------------------------------------
(* The refinement                                                          *)

Verdict == [c \in Calls |->
              IF At(c, "done") THEN call[c].outcome ELSE "open"]

LEMMA VerdictStays ==
  ASSUME \A c \in Calls : /\ (call'[c].pc = "done") <=> (call[c].pc = "done")
                          /\ call[c].pc = "done" =>
                               call'[c].outcome = call[c].outcome
  PROVE  Verdict' = Verdict
  BY DEF Verdict, At

\* One call moves; if it settles, there are grounds for its verdict.
LEMMA SettlesOrStays ==
  ASSUME NEW c \in Calls, NEW r, Settles(c, r),
         call'[c] = r, \A d \in Calls : d # c => call'[d] = call[d]
  PROVE  Contract!Next \/ Verdict' = Verdict
<1>1. CASE At(c, "done") \/ r.pc # "done"
  <2>1. \A d \in Calls : /\ (call'[d].pc = "done") <=> (call[d].pc = "done")
                         /\ call[d].pc = "done" =>
                              call'[d].outcome = call[d].outcome
    BY <1>1 DEF Settles, At
  <2> QED
    BY <2>1, VerdictStays
<1>2. CASE ~At(c, "done") /\ r.pc = "done"
  <2>1. r.outcome \in Grounds(c) /\ r.outcome # "open"
    BY <1>2 DEF Settles
  <2>2. Verdict[c] = "open" /\ Verdict'[c] = r.outcome
    BY <1>2 DEF Verdict, At
  <2>3. \A d \in Calls : d # c => Verdict'[d] = Verdict[d]
    BY DEF Verdict, At
  <2>4. Verdict' = [Verdict EXCEPT ![c] = Verdict'[c]]
    <3>1. /\ Verdict = [d \in Calls |-> Verdict[d]]
          /\ Verdict' = [d \in Calls |-> Verdict'[d]]
      BY DEF Verdict
    <3> QED
      BY <2>3, <3>1
  <2>5. [d \in Calls |-> Grounds(d)][c] = Grounds(c)
    OBVIOUS
  <2>6. Contract!Settle(c)
    BY <2>1, <2>2, <2>4, <2>5 DEF Contract!Settle, Verdict
  <2> QED
    BY <2>6 DEF Contract!Next
<1> QED
  BY <1>1, <1>2

LEMMA MovesSettles ==
  ASSUME Inv, NEW c \in Calls, NEW r, Moves(c, r)
  PROVE  Contract!Next \/ Verdict' = Verdict
<1>1. /\ Settles(c, r) /\ r \in Futures /\ call' = [call EXCEPT ![c] = r]
  BY DEF Moves, OwnOK
<1> QED
  BY <1>1, OneMoves, SettlesOrStays

LEMMA FinishSettles ==
  ASSUME Inv, NEW c \in Calls, NEW o \in Grounds(c), Finish(c, o),
         ~At(c, "done")
  PROVE  Contract!Next \/ Verdict' = Verdict
<1>1. o \in Verdicts /\ o # "open"
  BY GroundsAre
<1>2. /\ OwnOK(c, Finished(o))
      /\ Finished(o).pc = "done" /\ Finished(o).outcome = o
  BY <1>1, FinishedOK
<1>3. call' = [call EXCEPT ![c] = Finished(o)]
  BY DEF Finish, Finished
<1> HIDE DEF Finished
<1>4. Settles(c, Finished(o))
  BY <1>1, <1>2 DEF Settles
<1>5. Finished(o) \in Futures
  BY <1>2 DEF OwnOK
<1> QED
  BY <1>3, <1>4, <1>5, OneMoves, SettlesOrStays

LEMMA PassesBy ==
  ASSUME Inv, NEW c \in Calls, NEW pc, Goto(c, pc), pc # "done",
         ~At(c, "done")
  PROVE  Verdict' = Verdict
<1>1. /\ call'[c].pc = pc
      /\ \A d \in Calls : d # c => call'[d] = call[d]
  BY GotoPc
<1> QED
  BY <1>1, VerdictStays DEF At

LEMMA RequestSettles ==
  ASSUME Inv, NEW c \in Calls,
         \/ Register(c) \/ Send(c) \/ SendFails(c)
         \/ Withdraw(c) \/ Forward(c)
  PROVE  Contract!Next \/ Verdict' = Verdict
<1>1. CASE Register(c)
  <2>1. CASE failure
    BY <1>1, <2>1, EventGrounds, FinishSettles DEF Register, At
  <2>2. CASE ~failure
    <3>1. call' = [call EXCEPT ![c].pc = "sending", ![c].id = nextId,
                               ![c].slot = "no reply"]
      BY <1>1, <2>2 DEF Register, Insert
    <3>2. call'[c].pc = "sending"
      BY <3>1, OwnState DEF Futures
    <3>3. \A d \in Calls : d # c => call'[d] = call[d]
      BY <3>1, OwnState
    <3> QED
      BY <1>1, <3>2, <3>3, VerdictStays DEF Register, At
  <2> QED
    BY <2>1, <2>2
<1>2. CASE Send(c)
  BY <1>2, PassesBy DEF Send, At
<1>3. CASE SendFails(c)
  <2>1. writing => Len(queue) = Capacity
    <3>1. Len(queue) <= Capacity /\ Len(queue) \in Nat
      BY DEF Inv, QueueInv
    <3> QED
      BY <1>3, <3>1, RequestsAssumption DEF SendFails, Room
  <2>2. CASE writing
    BY <1>3, <2>1, <2>2, EventGrounds, FinishSettles DEF SendFails, At
  <2>3. CASE ~writing
    BY <1>3, <2>3, EventGrounds, FinishSettles DEF SendFails, At
  <2> QED
    BY <2>2, <2>3
<1>4. CASE Withdraw(c)
  <2>1. CASE pending[call[c].id] # NoCall
    BY <1>4, <2>1, PassesBy DEF Withdraw, At
  <2>2. CASE pending[call[c].id] = NoCall
    <3>1. call[c].outcome \in Grounds(c)
      BY <1>4, OwnState, EventGrounds DEF Withdraw, OutcomeOK, At
    <3> QED
      BY <1>4, <2>2, <3>1, FinishSettles DEF Withdraw, At
  <2> QED
    BY <2>1, <2>2
<1>5. CASE Forward(c)
  <2>1. call[c].outcome \in Grounds(c)
    BY <1>5, OwnState, EventGrounds DEF Forward, OutcomeOK, At
  <2> QED
    BY <1>5, <2>1, FinishSettles DEF Forward, At
<1> QED
  BY <1>1, <1>2, <1>3, <1>4, <1>5

LEMMA ContractStep ==
  ASSUME Inv, [Next]_vars
  PROVE  Contract!Next \/ Verdict' = Verdict
<1>1. ASSUME NEW c \in Calls, FutureStep(c)
      PROVE  Contract!Next \/ Verdict' = Verdict
  BY <1>1, FutureMoves, MovesSettles
<1>2. ASSUME \A c \in Calls : /\ call'[c].pc = call[c].pc
                              /\ call'[c].outcome = call[c].outcome
      PROVE  Verdict' = Verdict
  BY <1>2, VerdictStays
<1> QED
  BY <1>1, <1>2, StepKinds, RequestSettles, TasksPlaceNobody

\* Requests implements CallContract: a call settles once, and with what really
\* happened to its current attempt.
THEOREM Fulfils == Spec => FulfilsContract
<1>1. Init => Contract!Init
  <2> SUFFICES ASSUME Init PROVE Contract!Init
    OBVIOUS
  <2>1. \A c \in Calls : ~At(c, "done")
    BY DEF Init, Fresh, At
  <2> QED
    BY <2>1 DEF Contract!Init
<1>2. Inv /\ [Next]_vars => [Contract!Next]_Verdict
  BY ContractStep
<1> QED
  BY <1>1, <1>2, InvHolds, PTL
     DEF Spec, FulfilsContract, Contract!Spec, Verdict
=============================================================================
