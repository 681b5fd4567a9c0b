------------------------- MODULE DiagnosticsProofs --------------------------
(***************************************************************************)
(* Proofs about Diagnostics, for every set of callers and of reports and   *)
(* every bound.                                                            *)
(***************************************************************************)
EXTENDS Diagnostics, TLAPS

-----------------------------------------------------------------------------
(* The inductive invariant                                                 *)

Calls == [pc : PCs, pulls : BOOLEAN, version : 0..version,
          previous : 0..Len(results), least : 0..version, full : BOOLEAN,
          id : 0..Len(results), items : Items \cup {NoItems},
          availability : Availabilities]

\* TypeOK, but for the calls.
SharedOK ==
  /\ version \in 0..MaxVersions
  /\ refused \subseteq 1..version
  /\ torn \subseteq 1..version
  /\ told \in Announced /\ \A n \in Announced : n <= told
  /\ view \in Announced
  /\ analysis \in [Versions -> Items]
  /\ registered \in BOOLEAN
  /\ results \in Seq(Items)
  /\ pull \in [id : 0..Len(results), items : Items \cup {NoItems}]
  /\ push \in [version : 0..view, items : Items \cup {NoItems}]
  /\ crossed \in BOOLEAN
QueriesOK == query \in [Queries -> Calls]

PullPCs == {"choosing", "sending", "waiting", "answered", "storing"}

\* A call stays on the path its provider set, and asks a server that reads
\* every version announced up to its own before it answers.
PathOK(q) ==
  /\ query[q].pc \in PullPCs => query[q].pulls
  /\ query[q].pc = "looking" => ~query[q].pulls
  /\ query[q].pc = "waiting" =>
       \A n \in Announced : n <= query[q].version => n <= query[q].least
PathInv == \A q \in Queries : PathOK(q)

Known(id, items) == id # 0 => results[id] = items

\* What an answer says holds of a version the call may report.
AnswerOK(q) ==
  /\ query[q].pc \in {"answered", "storing", "done"}
       /\ query[q].pulls /\ query[q].full => Timely(q)
  /\ query[q].pc \in {"answered", "storing"} /\ query[q].full
       => Known(query[q].id, query[q].items)
  /\ query[q].pc = "answered" /\ ~query[q].full =>
       /\ query[q].id = query[q].previous
       /\ query[q].previous # 0
       /\ TimelyFor(query[q].version, results[query[q].previous])
AnswerInv == \A q \in Queries : AnswerOK(q)

\* Until an unchanged report meets another result, the cache is coherent.
ReportOK(q) ==
  /\ query[q].pc \in {"storing", "done"} /\ query[q].pulls => Timely(q)
  /\ query[q].pc = "storing" => Known(query[q].id, query[q].items)
CoherenceInv ==
  ~crossed =>
    /\ Known(pull.id, pull.items)
    /\ \A q \in Queries : ReportOK(q)

\* The push cache is the last report of the greatest version that arrived.
Reports == [version : Nat, items : Items]
PushInv ==
  /\ published \in Seq(Reports)
  /\ IF published = <<>>
       THEN push = NoPush
       ELSE \E k \in 1..Len(published) :
              /\ published[k] = push
              /\ \A j \in 1..Len(published) :
                   /\ published[j].version <= push.version
                   /\ published[j].version = push.version => j <= k

-----------------------------------------------------------------------------
(* Types                                                                   *)

\* Whatever it has open, the server finds items.
LEMMA FindingsAreItems ==
  ASSUME SharedOK, NEW v \in Announced
  PROVE  Findings(v) \subseteq Items
<1>1. CASE v = 0 \/ v \in torn
  BY <1>1 DEF Findings
<1>2. CASE v # 0 /\ v \notin torn
  <2>1. v \in Versions
    BY <1>2, DiagnosticsAssumption DEF SharedOK, Announced, Versions
  <2> QED
    BY <1>2, <2>1 DEF SharedOK, Findings
<1> QED
  BY <1>1, <1>2

\* Every step keeps what the calls share within its types.
LEMMA SharedStep ==
  SharedOK /\ QueriesOK /\ PathInv /\ [Next]_vars => SharedOK'
<1> USE DiagnosticsAssumption DEF documents, server, cache, history, Goto, At
<1> SUFFICES ASSUME SharedOK, QueriesOK, PathInv, [Next]_vars PROVE SharedOK'
  OBVIOUS
<1>1. CASE ServerReads
  BY <1>1 DEF SharedOK, QueriesOK, Calls, ServerReads, Announced
<1>2. CASE Registration
  BY <1>2 DEF SharedOK, QueriesOK, Calls, Registration, Announced
<1>3. ASSUME NEW v \in 0..MaxVersions, NEW items \in Items,
             Publish(v, items)
      PROVE  SharedOK'
  BY <1>3 DEF SharedOK, Publish, Replaces, Announced
<1>4. ASSUME NEW q \in Queries, AnswerFull(q) PROVE SharedOK'
  <2>1. PICK id \in {0, Len(results) + 1}, items \in Findings(view) :
          results' = IF id = 0 THEN results ELSE Append(results, items)
    BY <1>4 DEF AnswerFull
  <2>2. items \in Items
    BY FindingsAreItems DEF SharedOK
  <2> QED
    BY <1>4, <2>1, <2>2 DEF SharedOK, AnswerFull, Announced
<1>5. ASSUME NEW q \in Queries, AnswerUnchanged(q) PROVE SharedOK'
  BY <1>5 DEF SharedOK, QueriesOK, Calls, AnswerUnchanged, Announced
<1>6. ASSUME NEW q \in Queries, Begin(q) PROVE SharedOK'
  BY <1>6 DEF SharedOK, QueriesOK, Calls, Begin, Announced
<1>7. ASSUME NEW q \in Queries, Synchronize(q) PROVE SharedOK'
  <2>1. PICK v \in NextVersions :
          /\ version' = v
          /\ told' = IF v = version THEN told ELSE v
          /\ torn' \in Tears(v)
    BY <1>7 DEF Synchronize
  <2>2. v \in {version, version + 1} /\ v <= MaxVersions /\ version \in Nat
        /\ MaxVersions \in Nat
    BY DEF SharedOK, NextVersions
  <2>3. torn' = torn \/ (v = version + 1 /\ torn' = torn \cup {v})
    BY <2>1, <2>2 DEF Tears
  <2>4. refused' = refused /\ refused \subseteq 1..version
        /\ torn \subseteq 1..version
    BY <1>7 DEF Synchronize, SharedOK
  <2>5. refused' \subseteq 1..version' /\ torn' \subseteq 1..version'
    <3>1. \A n \in 1..version : n \in 1..version'
      BY <2>1, <2>2
    <3>2. v = version + 1 => v \in 1..version'
      BY <2>1, <2>2
    <3> QED
      BY <2>3, <2>4, <3>1, <3>2
  <2>6. Announced \subseteq Announced'
        /\ \A n \in Announced' : n \in Announced \/ n = v
    BY <2>1, <2>2, <2>4 DEF Announced
  <2>7. told' \in Announced' /\ \A n \in Announced' : n <= told'
    <3>1. told \in Announced /\ \A n \in Announced : n <= told
      BY DEF SharedOK
    <3>2. CASE v = version
      <4>1. Announced' = Announced /\ told' = told
        BY <2>1, <2>4, <3>2 DEF Announced
      <4> QED
        BY <3>1, <4>1
    <3>3. CASE v = version + 1
      <4>1. told' = version + 1 /\ version + 1 \notin refused
        BY <2>1, <2>2, <2>4, <3>3
      <4> QED
        BY <2>1, <2>2, <2>4, <3>3, <4>1 DEF Announced
    <3> QED
      BY <2>2, <3>2, <3>3
  <2>8. view' = view /\ view \in Announced' /\ version' \in 0..MaxVersions
    BY <1>7, <2>1, <2>2, <2>6 DEF SharedOK, Synchronize
  <2>9. UNCHANGED <<analysis, registered, results, pull, push, crossed>>
    BY <1>7 DEF Synchronize
  <2> QED
    BY <2>5, <2>7, <2>8, <2>9 DEF SharedOK
<1>8. ASSUME NEW q \in Queries, Choose(q) PROVE SharedOK'
  BY <1>8 DEF SharedOK, QueriesOK, Calls, Choose, Announced
<1>9. ASSUME NEW q \in Queries, Send(q) PROVE SharedOK'
  BY <1>9 DEF SharedOK, QueriesOK, Calls, Send, Announced
<1>10. ASSUME NEW q \in Queries, Decode(q) PROVE SharedOK'
  BY <1>10 DEF SharedOK, QueriesOK, Calls, Decode, Announced
<1>11. ASSUME NEW q \in Queries, Store(q) PROVE SharedOK'
  BY <1>11 DEF SharedOK, QueriesOK, Calls, Store, Announced
<1>12. ASSUME NEW q \in Queries, Look(q) PROVE SharedOK'
  BY <1>12 DEF SharedOK, QueriesOK, Calls, Look, Announced
<1>13. ASSUME NEW q \in Queries, Fail(q) PROVE SharedOK'
  BY <1>13 DEF SharedOK, QueriesOK, Calls, Fail, Announced
<1>14. ASSUME NEW q \in Queries, End(q) PROVE SharedOK'
  BY <1>14 DEF SharedOK, QueriesOK, Calls, End, Announced
<1>15. CASE UNCHANGED vars
  BY <1>15 DEF SharedOK, QueriesOK, Calls, vars, Announced
<1>16. ASSUME NEW q \in Queries, SynchronizeRefused(q) PROVE SharedOK'
  <2>1. version' = version + 1 /\ refused' = refused \cup {version + 1}
        /\ version < MaxVersions /\ told' = told /\ torn' = torn
    BY <1>16 DEF SynchronizeRefused
  <2>2. Announced' = Announced
    BY <2>1 DEF SharedOK, Announced
  <2> QED
    BY <1>16, <2>1, <2>2 DEF SharedOK, SynchronizeRefused
<1> QED
  BY <1>1, <1>2, <1>3, <1>4, <1>5, <1>6, <1>7, <1>8, <1>9, <1>10, <1>11, <1>12,
     <1>13, <1>14, <1>15, <1>16
     DEF Next, Server, Call, Pull

\* The types of a call only widen.
LEMMA CallsGrow ==
  ASSUME SharedOK, SharedOK',
         version <= version', Len(results) <= Len(results')
  PROVE  Calls \subseteq Calls'
  BY DEF SharedOK, Calls

\* What has to be shown of a step that changes one call.
LEMMA OneCall ==
  ASSUME QueriesOK, Calls \subseteq Calls',
         NEW q \in Queries, query' = [query EXCEPT ![q] = query'[q]],
         query'[q] \in Calls'
  PROVE  QueriesOK'
  BY DEF QueriesOK

\* Versions, whether the server was told of them, findings and issued results
\* stay what they are.
Grows ==
  /\ version' \in Nat /\ version <= version'
  /\ \A n \in 0..version : n \in refused' <=> n \in refused
  /\ \A n \in 0..version : n \in torn' <=> n \in torn
  /\ analysis' = analysis
  /\ Len(results) <= Len(results')
  /\ \A i \in 1..Len(results) : results'[i] = results[i]

LEMMA Growth == SharedOK /\ [Next]_vars => Grows
<1> USE DiagnosticsAssumption DEF documents, server, cache, history, Goto, At
<1> USE DEF Grows
<1> SUFFICES ASSUME SharedOK, [Next]_vars PROVE Grows
  OBVIOUS
<1>1. CASE ServerReads
  BY <1>1 DEF SharedOK, ServerReads
<1>2. CASE Registration
  BY <1>2 DEF SharedOK, Registration
<1>3. ASSUME NEW v \in 0..MaxVersions, NEW items \in Items,
             Publish(v, items)
      PROVE  Grows
  BY <1>3 DEF SharedOK, Publish
<1>4. ASSUME NEW q \in Queries, AnswerFull(q) PROVE Grows
  BY <1>4 DEF SharedOK, AnswerFull
<1>5. ASSUME NEW q \in Queries, AnswerUnchanged(q) PROVE Grows
  BY <1>5 DEF SharedOK, AnswerUnchanged
<1>6. ASSUME NEW q \in Queries, Begin(q) PROVE Grows
  BY <1>6 DEF SharedOK, Begin
<1>7. ASSUME NEW q \in Queries, Synchronize(q) PROVE Grows
  <2>1. PICK v \in NextVersions : version' = v /\ torn' \in Tears(v)
    BY <1>7 DEF Synchronize
  <2>2. v \in {version, version + 1} /\ version \in Nat
    BY DEF SharedOK, NextVersions
  <2>3. torn' = torn \/ (v = version + 1 /\ torn' = torn \cup {v})
    BY <2>1, <2>2 DEF Tears
  <2>4. \A n \in 0..version : n # version + 1
    BY <2>2
  <2>5. \A n \in 0..version : n \in torn' <=> n \in torn
    BY <2>3, <2>4
  <2>6. UNCHANGED <<refused, analysis, results>>
    BY <1>7 DEF Synchronize
  <2> QED
    BY <2>1, <2>2, <2>5, <2>6
<1>8. ASSUME NEW q \in Queries, Choose(q) PROVE Grows
  BY <1>8 DEF SharedOK, Choose
<1>9. ASSUME NEW q \in Queries, Send(q) PROVE Grows
  BY <1>9 DEF SharedOK, Send
<1>10. ASSUME NEW q \in Queries, Decode(q) PROVE Grows
  BY <1>10 DEF SharedOK, Decode
<1>11. ASSUME NEW q \in Queries, Store(q) PROVE Grows
  BY <1>11 DEF SharedOK, Store
<1>12. ASSUME NEW q \in Queries, Look(q) PROVE Grows
  BY <1>12 DEF SharedOK, Look
<1>13. ASSUME NEW q \in Queries, Fail(q) PROVE Grows
  BY <1>13 DEF SharedOK, Fail
<1>14. ASSUME NEW q \in Queries, End(q) PROVE Grows
  BY <1>14 DEF SharedOK, End
<1>15. CASE UNCHANGED vars
  BY <1>15 DEF SharedOK, vars
<1>16. ASSUME NEW q \in Queries, SynchronizeRefused(q) PROVE Grows
  BY <1>16 DEF SharedOK, SynchronizeRefused
<1> QED
  BY <1>1, <1>2, <1>3, <1>4, <1>5, <1>6, <1>7, <1>8, <1>9, <1>10, <1>11, <1>12,
     <1>13, <1>14, <1>15, <1>16
     DEF Next, Server, Call, Pull

\* Every step keeps the calls within theirs.
LEMMA QueriesStep ==
  SharedOK /\ QueriesOK /\ PathInv /\ [Next]_vars => QueriesOK'
<1> USE DiagnosticsAssumption DEF documents, server, cache, history, Goto, At
<1> USE DEF PCs, Availabilities, Fresh
<1> SUFFICES ASSUME SharedOK, QueriesOK, PathInv, [Next]_vars PROVE QueriesOK'
  OBVIOUS
<1>0. SharedOK' /\ Calls \subseteq Calls'
  BY SharedStep, CallsGrow, Growth DEF Grows
<1>1. CASE ServerReads
  BY <1>1, <1>0 DEF QueriesOK, ServerReads
<1>2. CASE Registration
  BY <1>2, <1>0 DEF QueriesOK, Registration
<1>3. ASSUME NEW v \in 0..MaxVersions, NEW items \in Items,
             Publish(v, items)
      PROVE  QueriesOK'
  BY <1>3, <1>0 DEF QueriesOK, Publish
<1>4. ASSUME NEW q \in Queries, AnswerFull(q) PROVE QueriesOK'
  <2>1. query[q] \in Calls'
    BY <1>0 DEF QueriesOK
  <2>3. PICK id \in {0, Len(results) + 1}, items \in Findings(view) :
          /\ results' = IF id = 0 THEN results ELSE Append(results, items)
          /\ query' = [query EXCEPT ![q].pc = "answered", ![q].full = TRUE,
                                    ![q].items = items, ![q].id = id]
    BY <1>4 DEF AnswerFull
  <2>2. items \in Items
    BY FindingsAreItems DEF SharedOK
  <2>4. id \in 0..Len(results')
    BY <2>2, <2>3 DEF SharedOK
  <2>5. [query[q] EXCEPT !.pc = "answered", !.full = TRUE,
                         !.items = items, !.id = id] \in Calls'
    BY <2>1, <2>2, <2>4, <1>0 DEF Calls
  <2> QED
    BY <1>0, <2>3, <2>5 DEF QueriesOK
<1>5. ASSUME NEW q \in Queries, AnswerUnchanged(q) PROVE QueriesOK'
  <2>1. query[q] \in Calls'
    BY <1>0 DEF QueriesOK
  <2>2. query[q].previous \in 0..Len(results')
    BY <1>5 DEF SharedOK, QueriesOK, Calls, AnswerUnchanged
  <2>3. [query[q] EXCEPT !.pc = "answered", !.full = FALSE,
                           !.id = query[q].previous] \in Calls'
    BY <2>1, <2>2, <1>0 DEF Calls
  <2>4. query' = [query EXCEPT ![q] = query'[q]]
        /\ query'[q] = [query[q] EXCEPT !.pc = "answered", !.full = FALSE,
                           !.id = query[q].previous]
    BY <1>5 DEF QueriesOK, AnswerUnchanged
  <2> QED
    BY <1>0, <2>3, <2>4, OneCall
<1>6. ASSUME NEW q \in Queries, Begin(q) PROVE QueriesOK'
  <2>1. query[q] \in Calls'
    BY <1>0 DEF QueriesOK
  <2>2. registered \in BOOLEAN
    BY <1>6 DEF SharedOK
  <2>3. [query[q] EXCEPT !.pc = "synchronizing",
                           !.pulls = registered] \in Calls'
    BY <2>1, <2>2, <1>0 DEF Calls
  <2>4. query' = [query EXCEPT ![q] = query'[q]]
        /\ query'[q] = [query[q] EXCEPT !.pc = "synchronizing",
                           !.pulls = registered]
    BY <1>6 DEF QueriesOK, Begin
  <2> QED
    BY <1>0, <2>3, <2>4, OneCall
<1>7. ASSUME NEW q \in Queries, Synchronize(q) PROVE QueriesOK'
  <2>1. query[q] \in Calls'
    BY <1>0 DEF QueriesOK
  <2>2. PICK v \in NextVersions, p \in {"choosing", "looking"} :
          /\ version' = v
          /\ query' = [query EXCEPT ![q].version = v, ![q].pc = p]
    BY <1>7 DEF Synchronize
  <2>3. version' \in 0..version'
    BY <1>0 DEF SharedOK
  <2>4. [query[q] EXCEPT !.version = v, !.pc = p] \in Calls'
    BY <2>1, <2>2, <2>3, <1>0 DEF Calls
  <2> QED
    BY <1>0, <2>2, <2>4 DEF QueriesOK
<1>8. ASSUME NEW q \in Queries, Choose(q) PROVE QueriesOK'
  <2>1. query[q] \in Calls'
    BY <1>0 DEF QueriesOK
  <2>2. pull.id \in 0..Len(results')
    BY <1>8 DEF SharedOK, Choose
  <2>3. [query[q] EXCEPT !.pc = "sending", !.previous = pull.id] \in Calls'
    BY <2>1, <2>2, <1>0 DEF Calls
  <2>4. query' = [query EXCEPT ![q] = query'[q]]
        /\ query'[q] = [query[q] EXCEPT !.pc = "sending", !.previous = pull.id]
    BY <1>8 DEF QueriesOK, Choose
  <2> QED
    BY <1>0, <2>3, <2>4, OneCall
<1>9. ASSUME NEW q \in Queries, Send(q) PROVE QueriesOK'
  <2>1. query[q] \in Calls'
    BY <1>0 DEF QueriesOK
  <2>2. told \in 0..version'
    BY <1>9 DEF SharedOK, Announced, Send
  <2>3. [query[q] EXCEPT !.pc = "waiting", !.least = told] \in Calls'
    BY <2>1, <2>2, <1>0 DEF Calls
  <2>4. query' = [query EXCEPT ![q] = query'[q]]
        /\ query'[q] = [query[q] EXCEPT !.pc = "waiting", !.least = told]
    BY <1>9 DEF QueriesOK, Send
  <2> QED
    BY <1>0, <2>3, <2>4, OneCall
<1>10. ASSUME NEW q \in Queries, Decode(q) PROVE QueriesOK'
  <2>1. query[q] \in Calls'
    BY <1>0 DEF QueriesOK
  <2>2. PICK items \in Items \cup {NoItems} :
          query' = [query EXCEPT ![q].pc = "storing", ![q].items = items]
    BY <1>10 DEF SharedOK, QueriesOK, Calls, Decode
  <2>3. [query[q] EXCEPT !.pc = "storing", !.items = items] \in Calls'
    BY <2>1, <1>0 DEF Calls
  <2> QED
    BY <1>0, <2>2, <2>3 DEF QueriesOK
<1>11. ASSUME NEW q \in Queries, Store(q) PROVE QueriesOK'
  <2>1. query[q] \in Calls'
    BY <1>0 DEF QueriesOK
  <2>2. "current" \in Availabilities
    BY <1>11 DEF Availabilities
  <2>3. [query[q] EXCEPT !.pc = "done", !.availability = "current"] \in Calls'
    BY <2>1, <2>2, <1>0 DEF Calls
  <2>4. query' = [query EXCEPT ![q] = query'[q]]
        /\ query'[q] = [query[q] EXCEPT !.pc = "done",
                                     !.availability = "current"]
    BY <1>11 DEF QueriesOK, Store
  <2> QED
    BY <1>0, <2>3, <2>4, OneCall
<1>12. ASSUME NEW q \in Queries, Look(q) PROVE QueriesOK'
  <2>1. query[q] \in Calls'
    BY <1>0 DEF QueriesOK
  <2>2. push.items \in Items \cup {NoItems}
        /\ Availability(query[q].version) \in Availabilities
    BY DEF SharedOK, Availability
  <2>3. [query[q] EXCEPT
           !.pc = "done", !.items = push.items,
           !.availability = Availability(query[q].version)] \in Calls'
    BY <2>1, <2>2, <1>0 DEF Calls
  <2> QED
    BY <1>12, <1>0, <2>3 DEF QueriesOK, Look
<1>13. ASSUME NEW q \in Queries, Fail(q) PROVE QueriesOK'
  <2>1. Fresh \in Calls'
    BY <1>0 DEF SharedOK, Calls
  <2> QED
    BY <1>13, <1>0, <2>1 DEF QueriesOK, Fail
<1>14. ASSUME NEW q \in Queries, End(q) PROVE QueriesOK'
  <2>1. Fresh \in Calls'
    BY <1>0 DEF SharedOK, Calls
  <2> QED
    BY <1>14, <1>0, <2>1 DEF QueriesOK, End
<1>15. CASE UNCHANGED vars
  BY <1>15 DEF QueriesOK, Calls, vars
<1>16. ASSUME NEW q \in Queries, SynchronizeRefused(q) PROVE QueriesOK'
  <2>1. Fresh \in Calls'
    BY <1>0 DEF SharedOK, Calls
  <2> QED
    BY <1>16, <1>0, <2>1 DEF QueriesOK, SynchronizeRefused
<1> QED
  BY <1>1, <1>2, <1>3, <1>4, <1>5, <1>6, <1>7, <1>8, <1>9, <1>10, <1>11, <1>12,
     <1>13, <1>14, <1>15, <1>16
     DEF Next, Server, Call, Pull

\* A call that does not move stays on its path.
LEMMA PathFrame ==
  ASSUME SharedOK, QueriesOK, Grows, NEW q \in Queries, PathOK(q),
         query'[q] = query[q]
  PROVE  PathOK(q)'
<1>1. query[q].version \in 0..version /\ version \in Nat /\ version' \in Nat
  BY DEF SharedOK, QueriesOK, Calls, Grows
<1>2. ASSUME NEW n \in Announced', n <= query[q].version PROVE n \in Announced
  <2>1. n \in 0..version
    BY <1>1, <1>2 DEF Announced
  <2> QED
    BY <1>2, <2>1 DEF Announced, Grows
<1> QED
  BY <1>2 DEF PathOK

LEMMA PathOne ==
  ASSUME SharedOK, QueriesOK, PathInv, Grows,
         NEW q \in Queries, query' = [query EXCEPT ![q] = query'[q]],
         PathOK(q)'
  PROVE  PathInv'
  BY PathFrame DEF QueriesOK, PathInv

LEMMA PathStep ==
  SharedOK /\ QueriesOK /\ PathInv /\ [Next]_vars => PathInv'
<1> USE DiagnosticsAssumption DEF documents, server, cache, history, Goto, At
<1> USE DEF PullPCs, Fresh
<1> SUFFICES ASSUME SharedOK, QueriesOK, PathInv, [Next]_vars PROVE PathInv'
  OBVIOUS
<1>0. Grows
  BY Growth
<1>1. CASE ServerReads
  BY <1>1, <1>0, PathFrame DEF PathInv, ServerReads
<1>2. CASE Registration
  BY <1>2, <1>0, PathFrame DEF PathInv, Registration
<1>3. ASSUME NEW v \in 0..MaxVersions, NEW items \in Items,
             Publish(v, items)
      PROVE  PathInv'
  BY <1>3, <1>0, PathFrame DEF PathInv, Publish
<1>4. ASSUME NEW q \in Queries, AnswerFull(q) PROVE PathInv'
  <2>1. query' = [query EXCEPT ![q] = query'[q]]
    BY <1>4 DEF QueriesOK, AnswerFull
  <2>2. PathOK(q)'
    BY <1>4 DEF QueriesOK, Calls, PathInv, PathOK, AnswerFull
  <2> QED
    BY <1>0, <2>1, <2>2, PathOne
<1>5. ASSUME NEW q \in Queries, AnswerUnchanged(q) PROVE PathInv'
  <2>1. query' = [query EXCEPT ![q] = query'[q]]
    BY <1>5 DEF QueriesOK, AnswerUnchanged
  <2>2. PathOK(q)'
    BY <1>5 DEF QueriesOK, Calls, PathInv, PathOK, AnswerUnchanged
  <2> QED
    BY <1>0, <2>1, <2>2, PathOne
<1>6. ASSUME NEW q \in Queries, Begin(q) PROVE PathInv'
  <2>1. query' = [query EXCEPT ![q] = query'[q]]
    BY <1>6 DEF QueriesOK, Begin
  <2>2. PathOK(q)'
    BY <1>6 DEF QueriesOK, Calls, PathInv, PathOK, Begin
  <2> QED
    BY <1>0, <2>1, <2>2, PathOne
<1>7. ASSUME NEW q \in Queries, Synchronize(q) PROVE PathInv'
  <2>1. query' = [query EXCEPT ![q] = query'[q]]
    BY <1>7 DEF QueriesOK, Synchronize
  <2>2. PathOK(q)'
    BY <1>7 DEF QueriesOK, Calls, PathInv, PathOK, Synchronize
  <2> QED
    BY <1>0, <2>1, <2>2, PathOne
<1>8. ASSUME NEW q \in Queries, Choose(q) PROVE PathInv'
  <2>1. query' = [query EXCEPT ![q] = query'[q]]
    BY <1>8 DEF QueriesOK, Choose
  <2>2. PathOK(q)'
    BY <1>8 DEF QueriesOK, Calls, PathInv, PathOK, Choose
  <2> QED
    BY <1>0, <2>1, <2>2, PathOne
<1>9. ASSUME NEW q \in Queries, Send(q) PROVE PathInv'
  <2>1. query' = [query EXCEPT ![q] = query'[q]]
    BY <1>9 DEF QueriesOK, Send
  <2>2. PathOK(q)'
    BY <1>9 DEF QueriesOK, Calls, PathInv, PathOK, Send, SharedOK, Announced
  <2> QED
    BY <1>0, <2>1, <2>2, PathOne
<1>10. ASSUME NEW q \in Queries, Decode(q) PROVE PathInv'
  <2>1. query' = [query EXCEPT ![q] = query'[q]]
    BY <1>10 DEF QueriesOK, Decode
  <2>2. PathOK(q)'
    BY <1>10 DEF QueriesOK, Calls, PathInv, PathOK, Decode
  <2> QED
    BY <1>0, <2>1, <2>2, PathOne
<1>11. ASSUME NEW q \in Queries, Store(q) PROVE PathInv'
  <2>1. query' = [query EXCEPT ![q] = query'[q]]
    BY <1>11 DEF QueriesOK, Store
  <2>2. PathOK(q)'
    BY <1>11 DEF QueriesOK, Calls, PathInv, PathOK, Store
  <2> QED
    BY <1>0, <2>1, <2>2, PathOne
<1>12. ASSUME NEW q \in Queries, Look(q) PROVE PathInv'
  <2>1. query' = [query EXCEPT ![q] = query'[q]]
    BY <1>12 DEF QueriesOK, Look
  <2>2. PathOK(q)'
    BY <1>12 DEF QueriesOK, Calls, PathInv, PathOK, Look
  <2> QED
    BY <1>0, <2>1, <2>2, PathOne
<1>13. ASSUME NEW q \in Queries, Fail(q) PROVE PathInv'
  <2>1. query' = [query EXCEPT ![q] = query'[q]]
    BY <1>13 DEF QueriesOK, Fail
  <2>2. PathOK(q)'
    BY <1>13 DEF QueriesOK, Calls, PathInv, PathOK, Fail
  <2> QED
    BY <1>0, <2>1, <2>2, PathOne
<1>14. ASSUME NEW q \in Queries, End(q) PROVE PathInv'
  <2>1. query' = [query EXCEPT ![q] = query'[q]]
    BY <1>14 DEF QueriesOK, End
  <2>2. PathOK(q)'
    BY <1>14 DEF QueriesOK, Calls, PathInv, PathOK, End
  <2> QED
    BY <1>0, <2>1, <2>2, PathOne
<1>15. CASE UNCHANGED vars
  BY <1>15, <1>0, PathFrame DEF PathInv, vars
<1>16. ASSUME NEW q \in Queries, SynchronizeRefused(q) PROVE PathInv'
  <2>1. query' = [query EXCEPT ![q] = query'[q]]
    BY <1>16 DEF QueriesOK, SynchronizeRefused
  <2>2. PathOK(q)'
    BY <1>16 DEF QueriesOK, Calls, PathInv, PathOK, SynchronizeRefused
  <2> QED
    BY <1>0, <2>1, <2>2, PathOne
<1> QED
  BY <1>1, <1>2, <1>3, <1>4, <1>5, <1>6, <1>7, <1>8, <1>9, <1>10, <1>11, <1>12,
     <1>13, <1>14, <1>15, <1>16
     DEF Next, Server, Call, Pull

-----------------------------------------------------------------------------
(* Pulled reports                                                          *)

\* What was timely for a version stays timely for it.
LEMMA TimelyGrows ==
  ASSUME SharedOK, Grows, NEW n \in 0..version, NEW items,
         TimelyFor(n, items)
  PROVE  TimelyFor(n, items)'
<1>1. PICK v \in Announced : /\ \A m \in Announced : m <= n => m <= v
                             /\ items \in Findings(v)
  BY DEF TimelyFor
<1>2. version \in Nat /\ version' \in Nat /\ version <= version'
  BY DEF SharedOK, Grows
<1>3. v \in 0..version /\ v \in Announced'
  BY <1>1, <1>2 DEF Announced, Grows
<1>4. ASSUME NEW m \in Announced', m <= n PROVE m <= v
  <2>1. m \in 0..version
    BY <1>2, <1>4 DEF Announced
  <2>2. m \in Announced
    BY <1>4, <2>1 DEF Announced, Grows
  <2> QED
    BY <1>1, <1>4, <2>2
<1>5. items \in Findings(v)'
  BY <1>1, <1>3 DEF Findings, Grows
<1> QED
  BY <1>3, <1>4, <1>5 DEF TimelyFor

\* What is so of a call stays so while it waits for its turn.
LEMMA Frame ==
  ASSUME SharedOK, QueriesOK, Grows, NEW q \in Queries, query'[q] = query[q]
  PROVE  /\ AnswerOK(q) => AnswerOK(q)'
         /\ ReportOK(q) => ReportOK(q)'
         /\ Timely(q) => Timely(q)'
<1>1. query[q].version \in 0..version /\ query[q].previous \in 0..Len(results)
      /\ query[q].id \in 0..Len(results)
  BY DEF SharedOK, QueriesOK, Calls
<1>2. version \in Nat /\ version' >= version /\ analysis' = analysis
  BY DEF SharedOK, Grows
<1>3. Timely(q) => Timely(q)'
  BY <1>1, TimelyGrows DEF Timely, TimelyFor
<1>4. Known(query[q].id, query[q].items)
        => Known(query[q].id, query[q].items)'
  BY <1>1 DEF Known, Grows
<1>5. ReportOK(q) => ReportOK(q)'
  BY <1>3, <1>4 DEF ReportOK
<1>6. query[q].previous # 0
        => results'[query[q].previous] = results[query[q].previous]
  BY <1>1 DEF Grows
<1>7. query[q].previous # 0
        /\ TimelyFor(query[q].version, results[query[q].previous])
          => TimelyFor(query[q].version, results[query[q].previous])'
  BY <1>1, <1>6, TimelyGrows DEF TimelyFor
<1>8. AnswerOK(q) => AnswerOK(q)'
  BY <1>2, <1>3, <1>4, <1>6, <1>7 DEF AnswerOK
<1> QED
  BY <1>3, <1>5, <1>8

\* A step that leaves the other calls alone.
LEMMA AnswerOne ==
  ASSUME SharedOK, QueriesOK, AnswerInv, Grows,
         NEW q \in Queries, query' = [query EXCEPT ![q] = query'[q]],
         AnswerOK(q)'
  PROVE  AnswerInv'
  BY Frame DEF QueriesOK, AnswerInv

\* The server that answers has read what the call has to know.
LEMMA ViewIsTimely ==
  ASSUME SharedOK, QueriesOK, PathInv, NEW q \in Queries,
         query[q].pc = "waiting", view >= query[q].least,
         NEW items \in Findings(view)
  PROVE  TimelyFor(query[q].version, items)
<1>1. view \in Announced /\ view \in Nat /\ query[q].least \in Nat
      /\ \A n \in Announced : n \in Nat
  BY DEF SharedOK, QueriesOK, Calls, Announced
<1>2. \A n \in Announced : n <= query[q].version => n <= query[q].least
  BY DEF PathInv, PathOK
<1>3. \A n \in Announced : n <= query[q].version => n <= view
  BY <1>1, <1>2
<1> QED
  BY <1>1, <1>3 DEF TimelyFor

LEMMA AnswerStep ==
  SharedOK /\ QueriesOK /\ PathInv /\ AnswerInv /\ [Next]_vars => AnswerInv'
<1> USE DiagnosticsAssumption DEF documents, server, cache, history, Goto, At
<1> SUFFICES ASSUME SharedOK, QueriesOK, PathInv, AnswerInv, [Next]_vars
             PROVE  AnswerInv'
  OBVIOUS
<1>0. Grows
  BY Growth
<1>1. CASE ServerReads
  BY <1>1, <1>0, Frame DEF AnswerInv, ServerReads
<1>2. CASE Registration
  BY <1>2, <1>0, Frame DEF AnswerInv, Registration
<1>3. ASSUME NEW v \in 0..MaxVersions, NEW items \in Items,
             Publish(v, items)
      PROVE  AnswerInv'
  BY <1>3, <1>0, Frame DEF AnswerInv, Publish
<1>4. ASSUME NEW q \in Queries, AnswerFull(q) PROVE AnswerInv'
  <2>1. query' = [query EXCEPT ![q] = query'[q]]
    BY <1>4 DEF QueriesOK, AnswerFull
  <2>2. PICK items \in Findings(view) :
          /\ query'[q].items = items
          /\ query'[q].id # 0 => results'[query'[q].id] = items
    <3>1. PICK id \in {0, Len(results) + 1}, items \in Findings(view) :
            /\ results' = IF id = 0 THEN results ELSE Append(results, items)
            /\ query' = [query EXCEPT ![q].pc = "answered", ![q].full = TRUE,
                                      ![q].items = items, ![q].id = id]
      BY <1>4 DEF AnswerFull
    <3>2. items \in Items
      BY FindingsAreItems DEF SharedOK
    <3>3. query'[q].items = items /\ query'[q].id = id
      BY <3>1 DEF QueriesOK, Calls
    <3>4. id # 0 => results'[id] = items
      BY <3>1, <3>2 DEF SharedOK
    <3> QED
      BY <3>3, <3>4
  <2>3. /\ query'[q].pc = "answered" /\ query'[q].full = TRUE
        /\ query'[q].version = query[q].version
        /\ UNCHANGED documents /\ UNCHANGED analysis
    BY <1>4 DEF QueriesOK, Calls, AnswerFull
  <2>4. TimelyFor(query[q].version, items)
    BY <1>4, <2>2, ViewIsTimely DEF AnswerFull
  <2>5. Timely(q)'
    BY <2>2, <2>3, <2>4 DEF Timely, TimelyFor, Announced, Findings
  <2>6. AnswerOK(q)'
    BY <2>2, <2>3, <2>5 DEF AnswerOK, Known
  <2> QED
    BY <1>0, <2>1, <2>6, AnswerOne
<1>5. ASSUME NEW q \in Queries, AnswerUnchanged(q) PROVE AnswerInv'
  <2>1. query' = [query EXCEPT ![q] = query'[q]]
    BY <1>5 DEF QueriesOK, AnswerUnchanged
  <2>2. /\ query'[q].pc = "answered" /\ ~query'[q].full
        /\ query'[q].version = query[q].version
        /\ query'[q].id = query[q].previous
        /\ query'[q].previous = query[q].previous
        /\ query[q].previous # 0
        /\ results[query[q].previous] \in Findings(view)
        /\ UNCHANGED documents /\ UNCHANGED analysis /\ UNCHANGED results
    BY <1>5 DEF QueriesOK, Calls, AnswerUnchanged
  <2>3. TimelyFor(query[q].version, results[query[q].previous])
    BY <1>5, <2>2, ViewIsTimely DEF AnswerUnchanged
  <2>5. TimelyFor(query[q].version, results[query[q].previous])'
    BY <2>2, <2>3 DEF TimelyFor, Announced, Findings
  <2>4. AnswerOK(q)'
    BY <2>2, <2>5 DEF AnswerOK
  <2> QED
    BY <1>0, <2>1, <2>4, AnswerOne
<1>6. ASSUME NEW q \in Queries, Begin(q) PROVE AnswerInv'
  <2>1. query' = [query EXCEPT ![q] = query'[q]]
    BY <1>6 DEF QueriesOK, Begin
  <2>2. query'[q].pc \notin {"answered", "storing", "done"}
    BY <1>6 DEF QueriesOK, Calls, Begin
  <2>3. AnswerOK(q)'
    BY <2>2 DEF AnswerOK
  <2> QED
    BY <1>0, <2>1, <2>3, AnswerOne
<1>7. ASSUME NEW q \in Queries, Synchronize(q) PROVE AnswerInv'
  <2>1. query' = [query EXCEPT ![q] = query'[q]]
    BY <1>7 DEF QueriesOK, Synchronize
  <2>2. query'[q].pc \notin {"answered", "storing", "done"}
    BY <1>7 DEF QueriesOK, Calls, Synchronize
  <2>3. AnswerOK(q)'
    BY <2>2 DEF AnswerOK
  <2> QED
    BY <1>0, <2>1, <2>3, AnswerOne
<1>8. ASSUME NEW q \in Queries, Choose(q) PROVE AnswerInv'
  <2>1. query' = [query EXCEPT ![q] = query'[q]]
    BY <1>8 DEF QueriesOK, Choose
  <2>2. query'[q].pc \notin {"answered", "storing", "done"}
    BY <1>8 DEF QueriesOK, Calls, Choose
  <2>3. AnswerOK(q)'
    BY <2>2 DEF AnswerOK
  <2> QED
    BY <1>0, <2>1, <2>3, AnswerOne
<1>9. ASSUME NEW q \in Queries, Send(q) PROVE AnswerInv'
  <2>1. query' = [query EXCEPT ![q] = query'[q]]
    BY <1>9 DEF QueriesOK, Send
  <2>2. query'[q].pc \notin {"answered", "storing", "done"}
    BY <1>9 DEF QueriesOK, Calls, Send
  <2>3. AnswerOK(q)'
    BY <2>2 DEF AnswerOK
  <2> QED
    BY <1>0, <2>1, <2>3, AnswerOne
<1>10. ASSUME NEW q \in Queries, Decode(q) PROVE AnswerInv'
  <2>1. query' = [query EXCEPT ![q] = query'[q]]
    BY <1>10 DEF QueriesOK, Decode
  <2>2. /\ query'[q].pc = "storing" /\ query'[q].pulls = query[q].pulls
        /\ query'[q].full = query[q].full
        /\ query'[q].version = query[q].version
        /\ query'[q].id = query[q].id
        /\ query[q].full => query'[q].items = query[q].items
        /\ UNCHANGED documents /\ UNCHANGED analysis /\ UNCHANGED results
    BY <1>10 DEF QueriesOK, Calls, Decode
  <2>3. query[q].full => /\ query[q].pulls => Timely(q)
                         /\ Known(query[q].id, query[q].items)
    BY <1>10 DEF AnswerInv, AnswerOK, Decode
  <2>4. AnswerOK(q)'
    BY <2>2, <2>3 DEF AnswerOK, Timely, TimelyFor, Announced,
         Findings, Known
  <2> QED
    BY <1>0, <2>1, <2>4, AnswerOne
<1>11. ASSUME NEW q \in Queries, Store(q) PROVE AnswerInv'
  <2>1. query' = [query EXCEPT ![q] = query'[q]]
    BY <1>11 DEF QueriesOK, Store
  <2>2. query'[q] = [query[q] EXCEPT !.pc = "done", !.availability = "current"]
    BY <1>11 DEF QueriesOK, Store
  <2>3. query[q].pulls /\ query[q].full => Timely(q)
    BY <1>11 DEF AnswerInv, AnswerOK, Store
  <2>4. /\ query'[q].pc = "done" /\ query'[q].pulls = query[q].pulls
        /\ query'[q].full = query[q].full
        /\ query'[q].version = query[q].version
        /\ query'[q].items = query[q].items
        /\ UNCHANGED documents /\ UNCHANGED analysis
    BY <1>11, <2>2 DEF QueriesOK, Calls, Store
  <2>5. AnswerOK(q)'
    BY <2>3, <2>4 DEF AnswerOK, Timely, TimelyFor, Announced,
         Findings
  <2> QED
    BY <1>0, <2>1, <2>5, AnswerOne
<1>12. ASSUME NEW q \in Queries, Look(q) PROVE AnswerInv'
  <2>1. query' = [query EXCEPT ![q] = query'[q]]
    BY <1>12 DEF QueriesOK, Look
  <2>2. query'[q].pc = "done" /\ ~query'[q].pulls
    BY <1>12 DEF QueriesOK, Calls, PathInv, PathOK, Look
  <2>3. AnswerOK(q)'
    BY <2>2 DEF AnswerOK
  <2> QED
    BY <1>0, <2>1, <2>3, AnswerOne
<1>13. ASSUME NEW q \in Queries, Fail(q) PROVE AnswerInv'
  <2>1. query' = [query EXCEPT ![q] = query'[q]]
    BY <1>13 DEF QueriesOK, Fail
  <2>2. query'[q].pc \notin {"answered", "storing", "done"}
    BY <1>13 DEF QueriesOK, Calls, Fail, Fresh
  <2>3. AnswerOK(q)'
    BY <2>2 DEF AnswerOK
  <2> QED
    BY <1>0, <2>1, <2>3, AnswerOne
<1>14. ASSUME NEW q \in Queries, End(q) PROVE AnswerInv'
  <2>1. query' = [query EXCEPT ![q] = query'[q]]
    BY <1>14 DEF QueriesOK, End
  <2>2. query'[q].pc \notin {"answered", "storing", "done"}
    BY <1>14 DEF QueriesOK, Calls, End, Fresh
  <2>3. AnswerOK(q)'
    BY <2>2 DEF AnswerOK
  <2> QED
    BY <1>0, <2>1, <2>3, AnswerOne
<1>15. CASE UNCHANGED vars
  BY <1>15 DEF AnswerInv, AnswerOK, Timely, TimelyFor, Announced,
         Findings, Known, vars
<1>16. ASSUME NEW q \in Queries, SynchronizeRefused(q) PROVE AnswerInv'
  <2>1. query' = [query EXCEPT ![q] = query'[q]]
    BY <1>16 DEF QueriesOK, SynchronizeRefused
  <2>2. query'[q].pc \notin {"answered", "storing", "done"}
    BY <1>16 DEF QueriesOK, Calls, SynchronizeRefused, Fresh
  <2>3. AnswerOK(q)'
    BY <2>2 DEF AnswerOK
  <2> QED
    BY <1>0, <2>1, <2>3, AnswerOne
<1> QED
  BY <1>1, <1>2, <1>3, <1>4, <1>5, <1>6, <1>7, <1>8, <1>9, <1>10, <1>11, <1>12,
     <1>13, <1>14, <1>15, <1>16
     DEF Next, Server, Call, Pull

\* A step that crosses nothing and leaves the cache and other calls alone.
LEMMA ReportOne ==
  ASSUME SharedOK, QueriesOK, CoherenceInv, Grows, pull' = pull,
         ~crossed' => ~crossed,
         NEW q \in Queries, query' = [query EXCEPT ![q] = query'[q]],
         ~crossed' => ReportOK(q)'
  PROVE  CoherenceInv'
<1> SUFFICES ASSUME ~crossed' PROVE CoherenceInv'
  BY DEF CoherenceInv
<1>1. Known(pull.id, pull.items)'
  BY DEF SharedOK, CoherenceInv, Known, Grows
<1>2. ASSUME NEW r \in Queries PROVE ReportOK(r)'
  <2>1. CASE r = q
    BY <2>1
  <2>2. CASE r # q
    BY <2>2, Frame DEF QueriesOK, CoherenceInv
  <2> QED
    BY <2>1, <2>2
<1> QED
  BY <1>1, <1>2 DEF CoherenceInv

LEMMA CoherenceStep ==
  SharedOK /\ SharedOK' /\ QueriesOK /\ PathInv /\ AnswerInv /\ CoherenceInv
    /\ [Next]_vars => CoherenceInv'
<1> USE DiagnosticsAssumption DEF documents, server, cache, history, Goto, At
<1> SUFFICES ASSUME SharedOK, SharedOK', QueriesOK, PathInv, AnswerInv,
                    CoherenceInv, [Next]_vars
             PROVE  CoherenceInv'
  OBVIOUS
<1>0. Grows
  BY Growth
<1>1. CASE ServerReads
  BY <1>1, <1>0, Frame DEF CoherenceInv, Known, ServerReads
<1>2. CASE Registration
  BY <1>2, <1>0, Frame DEF CoherenceInv, Known, Registration
<1>3. ASSUME NEW v \in 0..MaxVersions, NEW items \in Items,
             Publish(v, items)
      PROVE  CoherenceInv'
  BY <1>3, <1>0, Frame DEF CoherenceInv, Known, Publish
<1>4. ASSUME NEW q \in Queries, AnswerFull(q) PROVE CoherenceInv'
  <2>1. query' = [query EXCEPT ![q] = query'[q]]
        /\ pull' = pull /\ crossed' = crossed
    BY <1>4 DEF QueriesOK, AnswerFull
  <2>2. query'[q].pc \notin {"storing", "done"}
    BY <1>4 DEF QueriesOK, Calls, AnswerFull
  <2>3. ReportOK(q)'
    BY <2>2 DEF ReportOK
  <2> QED
    BY <1>0, <2>1, <2>3, ReportOne
<1>5. ASSUME NEW q \in Queries, AnswerUnchanged(q) PROVE CoherenceInv'
  <2>1. query' = [query EXCEPT ![q] = query'[q]]
        /\ pull' = pull /\ crossed' = crossed
    BY <1>5 DEF QueriesOK, AnswerUnchanged
  <2>2. query'[q].pc \notin {"storing", "done"}
    BY <1>5 DEF QueriesOK, Calls, AnswerUnchanged
  <2>3. ReportOK(q)'
    BY <2>2 DEF ReportOK
  <2> QED
    BY <1>0, <2>1, <2>3, ReportOne
<1>6. ASSUME NEW q \in Queries, Begin(q) PROVE CoherenceInv'
  <2>1. query' = [query EXCEPT ![q] = query'[q]]
        /\ pull' = pull /\ crossed' = crossed
    BY <1>6 DEF QueriesOK, Begin
  <2>2. query'[q].pc \notin {"storing", "done"}
    BY <1>6 DEF QueriesOK, Calls, Begin
  <2>3. ReportOK(q)'
    BY <2>2 DEF ReportOK
  <2> QED
    BY <1>0, <2>1, <2>3, ReportOne
<1>7. ASSUME NEW q \in Queries, Synchronize(q) PROVE CoherenceInv'
  <2>1. query' = [query EXCEPT ![q] = query'[q]]
        /\ pull' = pull /\ crossed' = crossed
    BY <1>7 DEF QueriesOK, Synchronize
  <2>2. query'[q].pc \notin {"storing", "done"}
    BY <1>7 DEF QueriesOK, Calls, Synchronize
  <2>3. ReportOK(q)'
    BY <2>2 DEF ReportOK
  <2> QED
    BY <1>0, <2>1, <2>3, ReportOne
<1>8. ASSUME NEW q \in Queries, Choose(q) PROVE CoherenceInv'
  <2>1. query' = [query EXCEPT ![q] = query'[q]]
        /\ pull' = pull /\ crossed' = crossed
    BY <1>8 DEF QueriesOK, Choose
  <2>2. query'[q].pc \notin {"storing", "done"}
    BY <1>8 DEF QueriesOK, Calls, Choose
  <2>3. ReportOK(q)'
    BY <2>2 DEF ReportOK
  <2> QED
    BY <1>0, <2>1, <2>3, ReportOne
<1>9. ASSUME NEW q \in Queries, Send(q) PROVE CoherenceInv'
  <2>1. query' = [query EXCEPT ![q] = query'[q]]
        /\ pull' = pull /\ crossed' = crossed
    BY <1>9 DEF QueriesOK, Send
  <2>2. query'[q].pc \notin {"storing", "done"}
    BY <1>9 DEF QueriesOK, Calls, Send
  <2>3. ReportOK(q)'
    BY <2>2 DEF ReportOK
  <2> QED
    BY <1>0, <2>1, <2>3, ReportOne
<1>10. ASSUME NEW q \in Queries, Decode(q) PROVE CoherenceInv'
  <2>1. query' = [query EXCEPT ![q] = query'[q]]
        /\ pull' = pull /\ (~crossed' => ~crossed)
    BY <1>10 DEF SharedOK, QueriesOK, Decode
  <2>2. /\ query'[q].pc = "storing"
        /\ query'[q].version = query[q].version
        /\ query'[q].id = query[q].id
        /\ query[q].full => query'[q].items = query[q].items
        /\ ~query[q].full => query'[q].items = pull.items
        /\ UNCHANGED documents /\ UNCHANGED analysis /\ UNCHANGED results
    BY <1>10 DEF QueriesOK, Calls, Decode
  <2>3. query[q].pc = "answered" /\ query[q].pulls
    BY <1>10 DEF PathInv, PathOK, PullPCs, Decode
  <2>4. CASE query[q].full
    <3>1. Timely(q) /\ Known(query[q].id, query[q].items)
      BY <2>3, <2>4 DEF AnswerInv, AnswerOK
    <3>2. ReportOK(q)'
      BY <2>2, <2>4, <3>1 DEF ReportOK, Timely, TimelyFor,
         Announced, Findings, Known
    <3> QED
      BY <1>0, <2>1, <3>2, ReportOne
  <2>5. CASE ~query[q].full
    <3>1. /\ query[q].id = query[q].previous /\ query[q].previous # 0
          /\ TimelyFor(query[q].version, results[query[q].previous])
      BY <2>3, <2>5 DEF AnswerInv, AnswerOK
    <3>2. ASSUME ~crossed' PROVE ReportOK(q)'
      <4>1. pull.id = query[q].previous /\ ~crossed
        BY <1>10, <2>5, <3>2 DEF SharedOK, Decode
      <4>2. results[pull.id] = pull.items
        BY <3>1, <4>1 DEF CoherenceInv, Known
      <4> QED
        BY <2>2, <2>5, <3>1, <4>1, <4>2 DEF ReportOK, Timely, TimelyFor,
         Announced, Findings, Known
    <3> QED
      BY <1>0, <2>1, <3>2, ReportOne
  <2> QED
    BY <2>4, <2>5
<1>11. ASSUME NEW q \in Queries, Store(q) PROVE CoherenceInv'
  <2> SUFFICES ASSUME ~crossed' PROVE CoherenceInv'
    BY DEF CoherenceInv
  <2>1. ~crossed /\ query[q].pc = "storing"
    BY <1>11 DEF Store
  <2>2. ReportOK(q)
    BY <2>1 DEF CoherenceInv
  <2>3. query' = [query EXCEPT ![q] = query'[q]]
        /\ pull' = [id |-> query[q].id, items |-> query[q].items]
    BY <1>11 DEF QueriesOK, Store
  <2>4. /\ query'[q].pc = "done" /\ query'[q].pulls = query[q].pulls
        /\ query'[q].version = query[q].version
        /\ query'[q].items = query[q].items
        /\ UNCHANGED documents /\ UNCHANGED analysis /\ UNCHANGED results
    BY <1>11 DEF QueriesOK, Calls, Store
  <2>5. Known(pull.id, pull.items)'
    BY <2>1, <2>2, <2>3, <2>4 DEF ReportOK, Known
  <2>6. ReportOK(q)'
    BY <2>1, <2>2, <2>4 DEF ReportOK, Timely, TimelyFor, Announced,
         Findings
  <2>7. ASSUME NEW r \in Queries, r # q PROVE ReportOK(r)'
    BY <1>0, <2>1, <2>3, <2>7, Frame DEF QueriesOK, CoherenceInv
  <2> QED
    BY <2>5, <2>6, <2>7 DEF CoherenceInv
<1>12. ASSUME NEW q \in Queries, Look(q) PROVE CoherenceInv'
  <2>1. query' = [query EXCEPT ![q] = query'[q]]
        /\ pull' = pull /\ crossed' = crossed
    BY <1>12 DEF QueriesOK, Look
  <2>2. query'[q].pc = "done" /\ ~query'[q].pulls
    BY <1>12 DEF QueriesOK, Calls, PathInv, PathOK, Look
  <2>3. ReportOK(q)'
    BY <2>2 DEF ReportOK
  <2> QED
    BY <1>0, <2>1, <2>3, ReportOne
<1>13. ASSUME NEW q \in Queries, Fail(q) PROVE CoherenceInv'
  <2>1. query' = [query EXCEPT ![q] = query'[q]]
        /\ pull' = pull /\ crossed' = crossed
    BY <1>13 DEF QueriesOK, Fail
  <2>2. query'[q].pc \notin {"storing", "done"}
    BY <1>13 DEF QueriesOK, Calls, Fail, Fresh
  <2>3. ReportOK(q)'
    BY <2>2 DEF ReportOK
  <2> QED
    BY <1>0, <2>1, <2>3, ReportOne
<1>14. ASSUME NEW q \in Queries, End(q) PROVE CoherenceInv'
  <2>1. query' = [query EXCEPT ![q] = query'[q]]
        /\ pull' = pull /\ crossed' = crossed
    BY <1>14 DEF QueriesOK, End
  <2>2. query'[q].pc \notin {"storing", "done"}
    BY <1>14 DEF QueriesOK, Calls, End, Fresh
  <2>3. ReportOK(q)'
    BY <2>2 DEF ReportOK
  <2> QED
    BY <1>0, <2>1, <2>3, ReportOne
<1>15. CASE UNCHANGED vars
  BY <1>15 DEF CoherenceInv, ReportOK, Timely, TimelyFor, Announced,
         Findings, Known, vars
<1>16. ASSUME NEW q \in Queries, SynchronizeRefused(q) PROVE CoherenceInv'
  <2>1. query' = [query EXCEPT ![q] = query'[q]]
        /\ pull' = pull /\ crossed' = crossed
    BY <1>16 DEF QueriesOK, SynchronizeRefused
  <2>2. query'[q].pc \notin {"storing", "done"}
    BY <1>16 DEF QueriesOK, Calls, SynchronizeRefused, Fresh
  <2>3. ReportOK(q)'
    BY <2>2 DEF ReportOK
  <2> QED
    BY <1>0, <2>1, <2>3, ReportOne
<1> QED
  BY <1>1, <1>2, <1>3, <1>4, <1>5, <1>6, <1>7, <1>8, <1>9, <1>10, <1>11, <1>12,
     <1>13, <1>14, <1>15, <1>16
     DEF Next, Server, Call, Pull

-----------------------------------------------------------------------------
(* Pushed reports                                                          *)

LEMMA SequenceElement ==
  ASSUME NEW S, NEW s \in Seq(S), NEW k \in 1..Len(s)
  PROVE  s[k] \in S
  OBVIOUS

LEMMA PushStep ==
  SharedOK /\ PushInv /\ [Next]_vars => PushInv'
<1> USE DiagnosticsAssumption DEF documents, server, cache, history, Goto, At
<1> SUFFICES ASSUME SharedOK, PushInv, [Next]_vars PROVE PushInv'
  OBVIOUS
<1>1. CASE ServerReads
  BY <1>1 DEF PushInv, ServerReads
<1>2. CASE Registration
  BY <1>2 DEF PushInv, Registration
<1>3. ASSUME NEW v \in 0..MaxVersions, NEW items \in Items,
             Publish(v, items)
      PROVE  PushInv'
  <2> DEFINE report == [version |-> v, items |-> items]
  <2>1. published' = Append(published, report)
        /\ push' = IF report.version >= push.version THEN report ELSE push
    BY <1>3 DEF Publish, Replaces
  <2>2. published \in Seq(Reports)
        /\ push.version \in Nat /\ report \in Reports
    BY DEF PushInv, SharedOK, Reports
  <2>3. published' \in Seq(Reports)
        /\ Len(published') = Len(published) + 1
        /\ published'[Len(published) + 1] = report
        /\ \A j \in 1..Len(published) : published'[j] = published[j]
        /\ published' # <<>>
    BY <2>1, <2>2
  <2>4. CASE report.version >= push.version
    <3>1. push' = report
      BY <2>1, <2>4
    <3>2. ASSUME NEW j \in 1..Len(published)
          PROVE  published[j].version <= push.version
      <4>1. published # <<>>
        BY <2>2
      <4> QED
        BY <4>1 DEF PushInv
    <3>3. ASSUME NEW j \in 1..Len(published')
          PROVE  published'[j].version <= push'.version
      <4>1. CASE j = Len(published) + 1
        BY <2>2, <2>3, <3>1, <4>1
      <4>2. CASE j # Len(published) + 1
        <5>1. j \in 1..Len(published)
          BY <2>2, <2>3, <4>2
        <5>2. published[j] \in Reports
          BY <2>2, <5>1, SequenceElement
        <5>3. published[j].version <= push.version
          BY <3>2, <5>1
        <5>4. published[j].version \in Nat /\ report.version \in Nat
          BY <2>2, <5>2 DEF Reports
        <5>5. published'[j] = published[j]
          BY <2>3, <5>1
        <5> QED
          BY <2>2, <2>4, <3>1, <5>3, <5>4, <5>5
      <4> QED
        BY <4>1, <4>2
    <3> QED
      BY <2>2, <2>3, <3>1, <3>3 DEF PushInv
  <2>5. CASE ~(report.version >= push.version)
    <3>1. push' = push /\ published # <<>>
      BY <2>1, <2>2, <2>5 DEF PushInv, NoPush
    <3>2. PICK k \in 1..Len(published) :
            /\ published[k] = push
            /\ \A j \in 1..Len(published) :
                 /\ published[j].version <= push.version
                 /\ published[j].version = push.version => j <= k
      BY <3>1 DEF PushInv
    <3>3. report.version < push.version
      BY <2>2, <2>5
    <3>4. k \in 1..Len(published') /\ published'[k] = push'
      BY <2>2, <2>3, <3>1, <3>2
    <3>5. ASSUME NEW j \in 1..Len(published')
          PROVE  /\ published'[j].version <= push'.version
                 /\ published'[j].version = push'.version => j <= k
      <4>1. CASE j = Len(published) + 1
        BY <2>2, <2>3, <3>1, <3>3, <4>1
      <4>2. CASE j # Len(published) + 1
        <5>1. j \in 1..Len(published)
          BY <2>2, <2>3, <4>2
        <5> QED
          BY <2>3, <3>1, <3>2, <5>1
      <4> QED
        BY <4>1, <4>2
    <3> QED
      BY <2>3, <3>4, <3>5 DEF PushInv
  <2> QED
    BY <2>4, <2>5
<1>4. ASSUME NEW q \in Queries, AnswerFull(q) PROVE PushInv'
  BY <1>4 DEF PushInv, AnswerFull
<1>5. ASSUME NEW q \in Queries, AnswerUnchanged(q) PROVE PushInv'
  BY <1>5 DEF PushInv, AnswerUnchanged
<1>6. ASSUME NEW q \in Queries, Begin(q) PROVE PushInv'
  BY <1>6 DEF PushInv, Begin
<1>7. ASSUME NEW q \in Queries, Synchronize(q) PROVE PushInv'
  BY <1>7 DEF PushInv, Synchronize
<1>8. ASSUME NEW q \in Queries, Choose(q) PROVE PushInv'
  BY <1>8 DEF PushInv, Choose
<1>9. ASSUME NEW q \in Queries, Send(q) PROVE PushInv'
  BY <1>9 DEF PushInv, Send
<1>10. ASSUME NEW q \in Queries, Decode(q) PROVE PushInv'
  BY <1>10 DEF PushInv, Decode
<1>11. ASSUME NEW q \in Queries, Store(q) PROVE PushInv'
  BY <1>11 DEF PushInv, Store
<1>12. ASSUME NEW q \in Queries, Look(q) PROVE PushInv'
  BY <1>12 DEF PushInv, Look
<1>13. ASSUME NEW q \in Queries, Fail(q) PROVE PushInv'
  BY <1>13 DEF PushInv, Fail
<1>14. ASSUME NEW q \in Queries, End(q) PROVE PushInv'
  BY <1>14 DEF PushInv, End
<1>15. CASE UNCHANGED vars
  BY <1>15 DEF PushInv, vars
<1>16. ASSUME NEW q \in Queries, SynchronizeRefused(q) PROVE PushInv'
  BY <1>16 DEF PushInv, SynchronizeRefused
<1> QED
  BY <1>1, <1>2, <1>3, <1>4, <1>5, <1>6, <1>7, <1>8, <1>9, <1>10, <1>11, <1>12,
     <1>13, <1>14, <1>15, <1>16
     DEF Next, Server, Call, Pull

\* Only looking ends a call that looks.
LEMMA LookStep ==
  ASSUME QueriesOK, [Next]_vars, NEW q \in Queries,
         At(q, "looking"), query'[q].pc = "done"
  PROVE  Look(q)
<1> USE DiagnosticsAssumption DEF documents, server, cache, history, Goto, At,
    Fresh
<1>1. CASE ServerReads
  BY <1>1 DEF ServerReads
<1>2. CASE Registration
  BY <1>2 DEF Registration
<1>3. ASSUME NEW v \in 0..MaxVersions, NEW items \in Items,
             Publish(v, items)
      PROVE  Look(q)
  BY <1>3 DEF Publish
<1>4. ASSUME NEW r \in Queries, AnswerFull(r) PROVE Look(q)
  BY <1>4 DEF QueriesOK, Calls, AnswerFull
<1>5. ASSUME NEW r \in Queries, AnswerUnchanged(r) PROVE Look(q)
  BY <1>5 DEF QueriesOK, Calls, AnswerUnchanged
<1>6. ASSUME NEW r \in Queries, Begin(r) PROVE Look(q)
  BY <1>6 DEF QueriesOK, Calls, Begin
<1>7. ASSUME NEW r \in Queries, Synchronize(r) PROVE Look(q)
  BY <1>7 DEF QueriesOK, Calls, Synchronize
<1>8. ASSUME NEW r \in Queries, Choose(r) PROVE Look(q)
  BY <1>8 DEF QueriesOK, Calls, Choose
<1>9. ASSUME NEW r \in Queries, Send(r) PROVE Look(q)
  BY <1>9 DEF QueriesOK, Calls, Send
<1>10. ASSUME NEW r \in Queries, Decode(r) PROVE Look(q)
  BY <1>10 DEF QueriesOK, Calls, Decode
<1>11. ASSUME NEW r \in Queries, Store(r) PROVE Look(q)
  BY <1>11 DEF QueriesOK, Calls, Store
<1>12. ASSUME NEW r \in Queries, Look(r) PROVE Look(q)
  BY <1>12 DEF QueriesOK, Calls, Look
<1>13. ASSUME NEW r \in Queries, Fail(r) PROVE Look(q)
  BY <1>13 DEF QueriesOK, Calls, Fail
<1>14. ASSUME NEW r \in Queries, End(r) PROVE Look(q)
  BY <1>14 DEF QueriesOK, Calls, End
<1>15. CASE UNCHANGED vars
  BY <1>15 DEF QueriesOK, vars
<1>16. ASSUME NEW r \in Queries, SynchronizeRefused(r) PROVE Look(q)
  BY <1>16 DEF QueriesOK, Calls, SynchronizeRefused
<1> QED
  BY <1>1, <1>2, <1>3, <1>4, <1>5, <1>6, <1>7, <1>8, <1>9, <1>10, <1>11, <1>12,
     <1>13, <1>14, <1>15, <1>16
     DEF Next, Server, Call, Pull

\* What a caller that looks is given.
LEMMA LookIsNewest ==
  ASSUME SharedOK, QueriesOK, PushInv, NEW q \in Queries, Look(q)
  PROVE  LET report == [version |-> query[q].version,
                        items |-> query'[q].items]
             mine == {k \in 1..Len(published) :
                        published[k].version = query[q].version}
         IN CASE query'[q].availability = "current" ->
                   \E k \in mine :
                     published[k] = report /\ \A j \in mine : j <= k
              [] query'[q].availability = "stale" ->
                   \/ mine = {}
                   \/ \E k \in 1..Len(published) :
                        published[k].version > query[q].version
              [] OTHER -> published = <<>>
<1> DEFINE report == [version |-> query[q].version, items |-> query'[q].items]
           mine == {k \in 1..Len(published) :
                      published[k].version = query[q].version}
<1>1. /\ query'[q].items = push.items
      /\ query'[q].availability = Availability(query[q].version)
  BY DEF QueriesOK, Calls, Look
<1>2. push \in [version : Nat, items : Items \cup {NoItems}]
      /\ query[q].version \in Nat
      /\ published \in Seq(Reports)
  BY DEF SharedOK, QueriesOK, Calls, PushInv
<1>3. CASE push = NoPush
  <2>1. published = <<>>
    <3> SUFFICES ASSUME published # <<>> PROVE FALSE
      OBVIOUS
    <3>1. PICK k \in 1..Len(published) : published[k] = push
      BY DEF PushInv
    <3>2. push.items \in Items
      BY <1>2, <3>1, SequenceElement DEF Reports
    <3> QED
      BY <1>3, <3>2, DiagnosticsAssumption DEF NoPush
  <2>2. query'[q].availability = "unavailable"
    BY <1>1, <1>3 DEF Availability
  <2> QED
    BY <2>1, <2>2
<1>4. CASE push # NoPush
  <2>1. PICK k \in 1..Len(published) :
          /\ published[k] = push
          /\ \A j \in 1..Len(published) :
               /\ published[j].version <= push.version
               /\ published[j].version = push.version => j <= k
    BY <1>4 DEF PushInv
  <2>2. CASE push.version = query[q].version
    <3>1. query'[q].availability = "current"
      BY <1>1, <1>4, <2>2 DEF Availability
    <3>2. report = push
      BY <1>1, <1>2, <2>2
    <3>3. k \in mine /\ published[k] = report /\ \A j \in mine : j <= k
      BY <2>1, <2>2, <3>2
    <3> QED
      BY <3>1, <3>3
  <2>3. CASE push.version # query[q].version
    <3>1. query'[q].availability = "stale"
      BY <1>1, <1>4, <2>3 DEF Availability
    <3>2. CASE push.version > query[q].version
      BY <2>1, <3>1, <3>2
    <3>3. CASE push.version < query[q].version
      <4>1. ASSUME NEW j \in 1..Len(published)
            PROVE  published[j].version # query[q].version
        <5>1. published[j] \in Reports
          BY <1>2, SequenceElement
        <5>2. published[j].version <= push.version
          BY <2>1
        <5> QED
          BY <1>2, <3>3, <5>1, <5>2 DEF Reports
      <4>2. mine = {}
        BY <4>1
      <4> QED
        BY <3>1, <4>2
    <3> QED
      BY <1>2, <2>3, <3>2, <3>3
  <2> QED
    BY <2>2, <2>3
<1> QED
  BY <1>3, <1>4

-----------------------------------------------------------------------------
(* The theorems                                                            *)

DInv ==
  /\ SharedOK /\ QueriesOK /\ PathInv
  /\ AnswerInv /\ CoherenceInv /\ PushInv

LEMMA DInvInit == Init => DInv
<1> SUFFICES ASSUME Init PROVE DInv
  OBVIOUS
<1> USE DiagnosticsAssumption DEF Init, Fresh
<1>1. SharedOK
  <2>1. results \in Seq(Items) /\ Len(results) = 0
    OBVIOUS
  <2>2. pull \in [id : 0..Len(results), items : Items \cup {NoItems}]
    BY <2>1 DEF NoPull
  <2>3. push \in [version : 0..view, items : Items \cup {NoItems}]
    BY DEF NoPush
  <2>4. /\ version \in 0..MaxVersions /\ Announced = {0}
        /\ refused \subseteq 1..version /\ torn \subseteq 1..version
        /\ told = 0 /\ view = 0 /\ 0 <= 0
    BY DEF Announced
  <2>6. analysis \in [Versions -> Items] /\ crossed \in BOOLEAN
    OBVIOUS
  <2>5. registered \in BOOLEAN
    <3>1. CASE registered = FALSE
      BY <3>1
    <3>2. CASE registered = Pulls
      BY <3>2
    <3> QED
      BY <3>1, <3>2
  <2> QED
    BY <2>1, <2>2, <2>3, <2>4, <2>5, <2>6 DEF SharedOK
<1>2. QueriesOK
  <2>1. Fresh \in Calls
    BY DEF Calls, PCs, Availabilities
  <2> QED
    BY <2>1 DEF QueriesOK
<1>3. PathInv
  BY DEF PathInv, PathOK, PullPCs
<1>4. AnswerInv
  BY DEF AnswerInv, AnswerOK
<1>5. CoherenceInv
  BY DEF CoherenceInv, ReportOK, Known, NoPull
<1>6. PushInv
  BY DEF PushInv
<1> QED
  BY <1>1, <1>2, <1>3, <1>4, <1>5, <1>6 DEF DInv

LEMMA DInvStep == DInv /\ [Next]_vars => DInv'
  BY SharedStep, QueriesStep, PathStep, AnswerStep, CoherenceStep, PushStep
     DEF DInv

LEMMA DInvHolds == Spec => []DInv
  BY DInvInit, DInvStep, PTL DEF Spec

\* The state keeps its shape: the server has been told of every version, and a
\* result id in the cache or in a request is one that it issued.
THEOREM TypeCorrect == Spec => []TypeOK
<1>1. DInv => TypeOK
  BY DEF DInv, SharedOK, QueriesOK, Calls, TypeOK
<1> QED
  BY <1>1, DInvHolds, PTL

\* A full report that pull_diagnostics presents as current is of the version
\* it names or of a later one, whatever other calls do meanwhile.
THEOREM FullReportsHold == Spec => []FullReportsAreTimely
<1>1. DInv => FullReportsAreTimely
  BY DEF DInv, AnswerInv, AnswerOK, FullReportsAreTimely, PulledReport, At
<1> QED
  BY <1>1, DInvHolds, PTL

\* The only way to a stale report presented as current is an unchanged report
\* decoded against the items another call has cached since.
THEOREM TimelyHolds == Spec => []TimelyUnlessCrossed
<1>1. DInv => TimelyUnlessCrossed
  BY DEF DInv, CoherenceInv, ReportOK, Known, TimelyUnlessCrossed,
         PulledReport, At
<1> QED
  BY <1>1, DInvHolds, PTL

\* push_diagnostics presents as current the last report that arrived for the
\* version it names, in whatever order DiagnosticCache::record_push sees them.
THEOREM PushedReportsHold == Spec => PushedReportsAreNewest
<1>1. DInv /\ [Next]_vars =>
        [\A q \in Queries : At(q, "looking") /\ query'[q].pc = "done" =>
           LET report == [version |-> query[q].version,
                          items |-> query'[q].items]
               mine == {k \in 1..Len(published) :
                          published[k].version = query[q].version}
           IN CASE query'[q].availability = "current" ->
                     \E k \in mine :
                       published[k] = report /\ \A j \in mine : j <= k
                [] query'[q].availability = "stale" ->
                     \/ mine = {}
                     \/ \E k \in 1..Len(published) :
                          published[k].version > query[q].version
                [] OTHER -> published = <<>>]_vars
  BY LookStep, LookIsNewest DEF DInv
<1> QED
  BY <1>1, DInvHolds, PTL DEF Spec, PushedReportsAreNewest
=============================================================================
