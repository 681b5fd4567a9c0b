-------------------------- MODULE ConversionsProofs -------------------------
(***************************************************************************)
(* Proofs about Conversions, for texts, edits, answers and configurations  *)
(* of every length: what the algorithms of Pages, Routes, Positions and    *)
(* Edits compute, that the output is always computed from the input it     *)
(* stands with (Computed), and from both that the two agree.               *)
(*                                                                         *)
(* The algorithms recurse over numbers.  A function that is defined so     *)
(* exists (RunExists), and what it holds at a number follows from what it  *)
(* holds at the one before (Induction).                                    *)
(***************************************************************************)
EXTENDS Conversions, TLAPS, WellFoundedInduction, SequenceTheorems,
        FiniteSetTheorems

-----------------------------------------------------------------------------
(* Numbers, and functions defined by recursion on them                     *)

\* A set of numbers has a least one.
LEMMA LeastExists ==
  ASSUME NEW S \in SUBSET Nat, S # {}
  PROVE  \E n \in S : \A m \in S : n <= m
<1>1. IsWellFoundedOn(OpToRel(<, Nat), Nat)
  BY NatLessThanWellFounded
<1>2. PICK n \in S : \A m \in S : ~(<<m, n>> \in OpToRel(<, Nat))
  BY <1>1, WFMin
<1>3. \A m \in S : ~(m < n)
  BY <1>2 DEF OpToRel
<1> QED
  BY <1>3

\* A recursion from x on, one step for each number up to m.
IsRun(f, x, step, m) ==
  f = [n \in 0..m |-> IF n = 0 THEN x ELSE step[<<n, f[n - 1]>>]]

\* There is a function that a recursive definition defines, as long as each
\* step stays in some set.
LEMMA RunExists ==
  ASSUME NEW X, NEW x \in X, NEW m \in Nat,
         NEW step \in [(1..m) \X X -> X]
  PROVE  \E f \in [0..m -> X] : IsRun(f, x, step, m)
<1> DEFINE Missing == {k \in 0..m : ~\E f \in [0..k -> X] :
                                      IsRun(f, x, step, k)}
<1> SUFFICES ASSUME Missing # {} PROVE FALSE
  OBVIOUS
<1>0. Missing \in SUBSET Nat
  OBVIOUS
<1>1. PICK k \in Missing : \A j \in Missing : k <= j
  BY <1>0, LeastExists
<1>2. CASE k = 0
  <2> DEFINE f == [n \in 0..0 |-> x]
  <2>1. f \in [0..0 -> X] /\ IsRun(f, x, step, 0)
    BY DEF IsRun
  <2> QED
    BY <1>1, <1>2, <2>1
<1>3. CASE k # 0
  <2>1. k \in 1..m /\ k - 1 \in 0..m /\ k - 1 \notin Missing
    BY <1>1, <1>3
  <2>2. PICK f \in [0..(k - 1) -> X] : IsRun(f, x, step, k - 1)
    BY <2>1
  <2> DEFINE next == step[<<k, f[k - 1]>>]
             g == [n \in 0..k |-> IF n = k THEN next ELSE f[n]]
             h == [n \in 0..k |-> IF n = 0 THEN x ELSE step[<<n, g[n - 1]>>]]
  <2>3. next \in X
    BY <2>1
  <2>4. g \in [0..k -> X]
    BY <2>1, <2>3
  <2>5. ASSUME NEW n \in 0..k PROVE g[n] = h[n]
    <3>1. CASE n = k
      <4>1. k # 0 /\ k - 1 \in 0..k /\ k - 1 # k
        BY <2>1
      <4>2. g[k - 1] = f[k - 1]
        BY <4>1
      <4>3. h[k] = step[<<k, g[k - 1]>>]
        BY <2>1, <4>1
      <4>4. g[k] = next
        BY <2>1
      <4> QED
        BY <3>1, <4>2, <4>3, <4>4
    <3>2. CASE n # k
      <4>1. n \in 0..(k - 1) /\ (n # 0 => n - 1 \in 0..k /\ n - 1 # k)
        BY <2>1, <3>2
      <4>2. f[n] = IF n = 0 THEN x ELSE step[<<n, f[n - 1]>>]
        BY <2>2, <4>1 DEF IsRun
      <4> QED
        BY <3>2, <4>1, <4>2
    <3> QED
      BY <3>1, <3>2
  <2>6. g = h
    <3> HIDE DEF next
    <3> QED
      BY <2>5
  <2>7. IsRun(g, x, step, k)
    BY <2>6 DEF IsRun
  <2> QED
    BY <1>1, <2>4, <2>7
<1> QED
  BY <1>2, <1>3

-----------------------------------------------------------------------------
(* The symbols of several servers                                          *)

Symbols == [server : Nat, rank : Nat, size : Nat \ {0}]

\* The recursion of Merge.
Joins(f, outcomes) ==
  f = [n \in 0..Len(outcomes) |->
         IF n = 0 THEN <<>>
         ELSE IF outcomes[n].kind = "Ok"
           THEN f[n - 1] \o outcomes[n].items
         ELSE f[n - 1]]

\* What one server can have answered.
LEMMA OutcomeIs ==
  ASSUME NEW s \in Nat, NEW o \in Outcomes(s)
  PROVE  \/ o = Unsupported \/ o = Failed
         \/ /\ o.kind = "Ok" /\ o.items \in Seq(Symbols)
            /\ \A i \in DOMAIN o.items :
                 o.items[i].server = s /\ o.items[i].rank = i
<1> SUFFICES ASSUME o # Unsupported, o # Failed
             PROVE  /\ o.kind = "Ok" /\ o.items \in Seq(Symbols)
                    /\ \A i \in DOMAIN o.items :
                         o.items[i].server = s /\ o.items[i].rank = i
  OBVIOUS
<1>1. PICK n \in 0..MaxItems : \E z \in [1..n -> Sizes] :
        o = Found([i \in DOMAIN z |-> [server |-> s, rank |-> i,
                                       size |-> z[i]]])
  BY DEF Outcomes
<1>2. PICK z \in [1..n -> Sizes] :
        o = Found([i \in DOMAIN z |-> [server |-> s, rank |-> i,
                                       size |-> z[i]]])
  BY <1>1
<1> DEFINE items == [i \in 1..n |-> [server |-> s, rank |-> i,
                                     size |-> z[i]]]
<1>3. o.kind = "Ok" /\ o.items = items
  BY <1>2 DEF Found
<1>4. \A i \in 1..n : z[i] \in Nat \ {0}
  BY ConversionsAssumption
<1>5. n \in Nat
  BY ConversionsAssumption
<1>6. items \in [1..n -> Symbols]
  BY <1>4, <1>5 DEF Symbols
<1>7. items \in Seq(Symbols)
  BY <1>5, <1>6
<1> QED
  BY <1>3, <1>7

Outcome(outcomes, n) ==
  /\ n \in Nat /\ DOMAIN outcomes = 1..n /\ Len(outcomes) = n
  /\ \A s \in 1..n : outcomes[s] \in Outcomes(s)

\* The recursion of Merge has a solution.
LEMMA JoinsExists ==
  ASSUME NEW n \in Nat, NEW outcomes, Outcome(outcomes, n)
  PROVE  \E f \in [0..n -> Seq(Symbols)] :
           /\ Joins(f, outcomes)
           /\ f[0] = <<>>
           /\ \A k \in 1..n : f[k] = IF outcomes[k].kind = "Ok"
                                       THEN f[k - 1] \o outcomes[k].items
                                     ELSE f[k - 1]
<1> DEFINE X == Seq(Symbols)
           step == [p \in (1..n) \X X |->
                      IF outcomes[p[1]].kind = "Ok"
                        THEN p[2] \o outcomes[p[1]].items
                      ELSE p[2]]
<1>1. \A k \in 1..n : outcomes[k].kind = "Ok" => outcomes[k].items \in X
  BY OutcomeIs DEF Outcome, Unsupported, Failed
<1>2. step \in [(1..n) \X X -> X]
  <2> SUFFICES ASSUME NEW k \in 1..n, NEW q \in X PROVE
        IF outcomes[k].kind = "Ok" THEN q \o outcomes[k].items \in X
        ELSE q \in X
    OBVIOUS
  <2> QED
    BY <1>1, ConcatProperties
<1>3. <<>> \in X
  OBVIOUS
<1>4. PICK f \in [0..n -> X] : IsRun(f, <<>>, step, n)
  <2> HIDE DEF X, step
  <2> QED
    BY <1>2, <1>3, RunExists
<1>5. \A k \in 0..n : f[k] = IF k = 0 THEN <<>> ELSE step[<<k, f[k - 1]>>]
  BY <1>4 DEF IsRun
<1>6. \A k \in 1..n : f[k] = IF outcomes[k].kind = "Ok"
                               THEN f[k - 1] \o outcomes[k].items
                             ELSE f[k - 1]
  <2> SUFFICES ASSUME NEW k \in 1..n
               PROVE  f[k] = IF outcomes[k].kind = "Ok"
                               THEN f[k - 1] \o outcomes[k].items
                             ELSE f[k - 1]
    OBVIOUS
  <2>1. k \in 0..n /\ k # 0
    OBVIOUS
  <2>2. f[k] = step[<<k, f[k - 1]>>]
    <3> HIDE DEF step
    <3> QED
      BY <1>5, <2>1
  <2>3. f[k - 1] \in X
    BY DEF X
  <2> QED
    BY <2>2, <2>3
<1>7. f[0] = <<>>
  <2> HIDE DEF step
  <2>1. 0 \in 0..n
    OBVIOUS
  <2> QED
    BY <1>5, <2>1
<1>8. Joins(f, outcomes)
  <2> DEFINE g == [k \in 0..n |-> IF k = 0 THEN <<>>
                     ELSE IF outcomes[k].kind = "Ok"
                       THEN f[k - 1] \o outcomes[k].items
                     ELSE f[k - 1]]
  <2>1. \A k \in 0..n : f[k] = g[k]
    <3> SUFFICES ASSUME NEW k \in 0..n PROVE f[k] = g[k]
      OBVIOUS
    <3>1. CASE k = 0
      BY <1>7, <3>1
    <3>2. CASE k # 0
      <4>1. k \in 1..n
        BY <3>2
      <4> QED
        BY <1>6, <3>2, <4>1
    <3> QED
      BY <3>1, <3>2
  <2>2. f = g
    BY <2>1
  <2> QED
    BY <2>2 DEF Joins, Outcome
<1> QED
  BY <1>6, <1>7, <1>8

\* What holds of 0, and of a number if of the one before, holds of all.
LEMMA Induction ==
  ASSUME NEW m \in Nat, NEW S, 0 \in S, \A n \in 1..m : n - 1 \in S => n \in S
  PROVE  \A n \in 0..m : n \in S
<1> DEFINE Missing == {n \in 0..m : n \notin S}
<1> SUFFICES ASSUME Missing # {} PROVE FALSE
  OBVIOUS
<1>1. Missing \in SUBSET Nat
  OBVIOUS
<1>2. PICK k \in Missing : \A j \in Missing : k <= j
  BY <1>1, LeastExists
<1>3. k \in 1..m /\ k - 1 \in 0..m /\ k - 1 \notin Missing
  BY <1>2
<1> QED
  BY <1>2, <1>3

\* What the first k servers said, and a list that joins it.
Said(outcomes, k) ==
  UNION {{outcomes[s].items[r] : r \in DOMAIN outcomes[s].items}
         : s \in {s \in 1..k : outcomes[s].kind = "Ok"}}
JoinOf(all, outcomes, k) ==
  /\ all \in Seq(Symbols)
  /\ {all[i] : i \in DOMAIN all} = Said(outcomes, k)
  /\ \A i \in DOMAIN all : all[i].server \in 1..k
  /\ \A i, j \in DOMAIN all :
       i < j /\ all[i].server = all[j].server => all[i].rank < all[j].rank

\* The joined symbols are all of them, in the order of servers and ranks.
LEMMA JoinsAll ==
  ASSUME NEW n \in Nat, NEW outcomes, Outcome(outcomes, n),
         NEW f, Joins(f, outcomes)
  PROVE  \A k \in 0..n : JoinOf(f[k], outcomes, k)
<1> DEFINE Good == {k \in 0..n : JoinOf(f[k], outcomes, k)}
<1>1. f[0] = <<>>
  BY DEF Joins, Outcome
<1>2. \A k \in 1..n : f[k] = IF outcomes[k].kind = "Ok"
                               THEN f[k - 1] \o outcomes[k].items
                             ELSE f[k - 1]
  BY DEF Joins, Outcome
<1>3. 0 \in Good
  <2>1. Said(outcomes, 0) = {}
    BY DEF Said
  <2>2. <<>> \in Seq(Symbols) /\ DOMAIN <<>> = {}
    OBVIOUS
  <2>3. JoinOf(<<>>, outcomes, 0)
    BY <2>1, <2>2 DEF JoinOf
  <2> QED
    BY <1>1, <2>3
<1>4. ASSUME NEW k \in 1..n, k - 1 \in Good
      PROVE  k \in Good
  <2> DEFINE old == f[k - 1]
             new == outcomes[k].items
  <2>1. JoinOf(old, outcomes, k - 1)
    BY <1>4
  <2>2. CASE outcomes[k].kind # "Ok"
    <3>1. f[k] = f[k - 1]
      BY <1>2, <2>2
    <3>2. {s \in 1..k : outcomes[s].kind = "Ok"}
            = {s \in 1..(k - 1) : outcomes[s].kind = "Ok"}
      BY <2>2
    <3>3. Said(outcomes, k) = Said(outcomes, k - 1)
      BY <3>2 DEF Said
    <3>4. \A m \in 1..(k - 1) : m \in 1..k
      OBVIOUS
    <3>5. JoinOf(old, outcomes, k)
      <4> HIDE DEF old
      <4> QED
        BY <2>1, <3>3, <3>4 DEF JoinOf
    <3> QED
      BY <3>1, <3>5
  <2>3. CASE outcomes[k].kind = "Ok"
    <3>1. f[k] = old \o new
      BY <1>2, <2>3
    <3>2. /\ new \in Seq(Symbols)
          /\ \A i \in DOMAIN new : new[i].server = k /\ new[i].rank = i
      BY <2>3, OutcomeIs DEF Outcome, Unsupported, Failed
    <3>3. /\ old \in Seq(Symbols)
          /\ {old[i] : i \in DOMAIN old} = Said(outcomes, k - 1)
          /\ \A i \in DOMAIN old : old[i].server \in 1..(k - 1)
          /\ \A i, j \in DOMAIN old :
               i < j /\ old[i].server = old[j].server =>
                 old[i].rank < old[j].rank
      BY <2>1 DEF JoinOf
    <3> DEFINE all == old \o new
    <3> HIDE DEF old, new
    <3>4. /\ all \in Seq(Symbols)
          /\ Len(all) = Len(old) + Len(new)
          /\ \A i \in 1..(Len(old) + Len(new)) :
               all[i] = IF i <= Len(old) THEN old[i] ELSE new[i - Len(old)]
      BY <3>2, <3>3, ConcatProperties
    <3>5. PICK l \in Nat, m \in Nat : l = Len(old) /\ m = Len(new)
      BY <3>2, <3>3
    <3>6. /\ DOMAIN old = 1..l /\ DOMAIN new = 1..m /\ DOMAIN all = 1..(l + m)
          /\ \A i \in 1..(l + m) :
               all[i] = IF i <= l THEN old[i] ELSE new[i - l]
      BY <3>2, <3>3, <3>4, <3>5
    <3> HIDE DEF all
    <3>7. \A i \in 1..l : i \in 1..(l + m) /\ all[i] = old[i]
      BY <3>6
    <3>8. \A i \in 1..m : l + i \in 1..(l + m) /\ all[l + i] = new[i]
      BY <3>6
    <3>9. {all[i] : i \in 1..(l + m)}
            = {old[i] : i \in 1..l} \cup {new[i] : i \in 1..m}
      <4>1. \A i \in 1..(l + m) : i \in 1..l \/ i - l \in 1..m
        OBVIOUS
      <4> QED
        BY <3>6, <3>7, <3>8, <4>1
    <3>10. Said(outcomes, k)
             = Said(outcomes, k - 1) \cup {new[r] : r \in DOMAIN new}
      <4>1. {s \in 1..k : outcomes[s].kind = "Ok"}
              = {s \in 1..(k - 1) : outcomes[s].kind = "Ok"} \cup {k}
        BY <2>3
      <4> QED
        BY <4>1 DEF new, Said
    <3>11. {all[i] : i \in DOMAIN all} = Said(outcomes, k)
      BY <3>3, <3>6, <3>9, <3>10
    <3>12. \A i \in DOMAIN all : all[i].server \in 1..k
      <4>1. \A i \in 1..(l + m) : i \in 1..l \/ i - l \in 1..m
        OBVIOUS
      <4>2. \A i \in 1..l : all[i].server \in 1..(k - 1)
        BY <3>3, <3>6, <3>7
      <4>3. \A i \in 1..(l + m) : i - l \in 1..m => all[i].server = k
        BY <3>2, <3>6
      <4> QED
        BY <3>6, <4>1, <4>2, <4>3
    <3>13. ASSUME NEW i \in DOMAIN all, NEW j \in DOMAIN all, i < j,
                  all[i].server = all[j].server
           PROVE  all[i].rank < all[j].rank
      <4>1. i \in 1..(l + m) /\ j \in 1..(l + m)
        BY <3>6
      <4>2. CASE j <= l
        BY <3>3, <3>6, <3>13, <4>1, <4>2
      <4>3. CASE i > l
        <5>1. i - l \in 1..m /\ j - l \in 1..m
          BY <3>13, <4>1, <4>3
        <5>2. all[i] = new[i - l] /\ all[j] = new[j - l]
          BY <3>6, <3>13, <4>1, <4>3
        <5>3. all[i].rank = i - l /\ all[j].rank = j - l
          BY <3>2, <3>6, <5>1, <5>2
        <5> QED
          BY <3>13, <4>1, <5>3
      <4>4. CASE i <= l /\ j > l
        <5>1. i \in 1..l /\ j - l \in 1..m
          BY <4>1, <4>4
        <5>2. all[i] = old[i] /\ all[j] = new[j - l]
          BY <3>6, <4>1, <4>4
        <5>3. all[i].server \in 1..(k - 1) /\ all[j].server = k
          BY <3>2, <3>3, <3>6, <5>1, <5>2
        <5> QED
          BY <3>13, <5>3
      <4> QED
        BY <4>1, <4>2, <4>3, <4>4
    <3>14. f[k] = all
      BY <3>1 DEF all
    <3>15. all \in Seq(Symbols)
      BY <3>4
    <3>16. JoinOf(all, outcomes, k)
      BY <3>11, <3>12, <3>13, <3>15 DEF JoinOf
    <3> QED
      BY <3>14, <3>16
  <2> QED
    BY <2>2, <2>3
<1> QED
  <2> HIDE DEF Good
  <2>1. \A k \in 0..n : k \in Good
    BY <1>3, <1>4, Induction
  <2> QED
    BY <2>1 DEF Good

\* A merged answer is joined from answers none of which failed.
LEMMA MergeIs ==
  ASSUME NEW n \in Nat, NEW outcomes, Outcome(outcomes, n)
  PROVE  \/ Merge(outcomes) = Failed
         \/ Merge(outcomes) = Unsupported
         \/ /\ \A s \in 1..n : outcomes[s].kind # "Err"
            /\ \E f : /\ Joins(f, outcomes)
                      /\ Merge(outcomes) = Found(f[n])
<1> DEFINE f == CHOOSE f : Joins(f, outcomes)
<1>1. Joins(f, outcomes)
  <2>1. \E g : Joins(g, outcomes)
    BY JoinsExists
  <2> QED
    BY <2>1, Zenon
<1>2. Merge(outcomes) \in {Failed, Unsupported}
        \/ /\ \A s \in 1..n : outcomes[s].kind # "Err"
           /\ Merge(outcomes) = Found(f[Len(outcomes)])
  BY DEF Merge, Joins, Outcome
<1> QED
  <2> HIDE DEF f
  <2> QED
    BY <1>1, <1>2 DEF Outcome

-----------------------------------------------------------------------------
(* Pages                                                                   *)

\* The recursion of Weight.
Weighs(f, items) ==
  f = [n \in 0..Len(items) |->
         IF n = 0 THEN 2
         ELSE f[n - 1] + items[n].size + (IF n > 1 THEN 1 ELSE 0)]

\* The recursion of Weight has a solution.
LEMMA WeighsExists ==
  ASSUME NEW items \in Seq(Symbols)
  PROVE  \E f : Weighs(f, items)
<1>1. PICK m \in Nat : m = Len(items)
  OBVIOUS
<1> DEFINE more(n) == items[n].size + (IF n > 1 THEN 1 ELSE 0)
           step == [p \in (1..m) \X Nat |-> p[2] + more(p[1])]
<1>2. \A n \in 1..m : items[n].size \in Nat
  <2>1. \A n \in 1..m : items[n] \in Symbols
    BY <1>1
  <2> QED
    BY <2>1 DEF Symbols
<1>3. \A n \in 1..m : more(n) \in Nat
  BY <1>2
<1>4. step \in [(1..m) \X Nat -> Nat]
  <2> HIDE DEF more
  <2> QED
    BY <1>3
<1>5. PICK f \in [0..m -> Nat] : IsRun(f, 2, step, m)
  <2> HIDE DEF step
  <2> QED
    BY <1>4, RunExists
<1>6. \A n \in 0..m : f[n] = IF n = 0 THEN 2 ELSE step[<<n, f[n - 1]>>]
  BY <1>5 DEF IsRun
<1> DEFINE g == [n \in 0..m |->
                   IF n = 0 THEN 2
                   ELSE f[n - 1] + items[n].size
                          + (IF n > 1 THEN 1 ELSE 0)]
<1>7. ASSUME NEW n \in 0..m PROVE f[n] = g[n]
  <2>1. CASE n = 0
    BY <1>6, <2>1
  <2>2. CASE n # 0
    <3>1. n \in 1..m /\ n - 1 \in 0..m
      BY <2>2
    <3>2. f[n] = step[<<n, f[n - 1]>>]
      <4> HIDE DEF step
      <4> QED
        BY <1>6, <2>2
    <3>3. f[n - 1] \in Nat
      BY <3>1
    <3>4. f[n] = f[n - 1] + more(n)
      <4> HIDE DEF more
      <4> QED
        BY <3>1, <3>2, <3>3
    <3> QED
      BY <1>2, <2>2, <3>1, <3>3, <3>4
  <2> QED
    BY <2>1, <2>2
<1>8. f = g
  <2> HIDE DEF step
  <2> QED
    BY <1>7
<1> QED
  BY <1>1, <1>8 DEF Weighs

\* Weight is one of them.
LEMMA WeightIs ==
  ASSUME NEW items \in Seq(Symbols)
  PROVE  \E f : Weighs(f, items) /\ Weight(items) = f[Len(items)]
<1> DEFINE f == CHOOSE f : Weighs(f, items)
<1>1. Weighs(f, items)
  BY WeighsExists, Zenon
<1>2. Weight(items) = f[Len(items)]
  BY DEF Weight, Weighs
<1> QED
  BY <1>1, <1>2

\* The weight of no items, and of one more item.
LEMMA WeightEmpty == Weight(<<>>) = 2
<1>1. <<>> \in Seq(Symbols)
  OBVIOUS
<1>2. PICK f : Weighs(f, <<>>) /\ Weight(<<>>) = f[Len(<<>>)]
  BY <1>1, WeightIs
<1> QED
  BY <1>2 DEF Weighs

LEMMA WeightAppend ==
  ASSUME NEW items \in Seq(Symbols), NEW item \in Symbols
  PROVE  Weight(Append(items, item))
           = Weight(items) + item.size + (IF items = <<>> THEN 0 ELSE 1)
<1> DEFINE all == Append(items, item)
<1>1. PICK m \in Nat : m = Len(items)
  OBVIOUS
<1>2. /\ all \in Seq(Symbols) /\ Len(all) = m + 1 /\ all[m + 1] = item
      /\ \A n \in 1..m : all[n] = items[n]
  BY <1>1
<1>3. PICK f : Weighs(f, items) /\ Weight(items) = f[m]
  BY <1>1, WeightIs
<1>4. PICK g : Weighs(g, all) /\ Weight(all) = g[m + 1]
  BY <1>2, WeightIs
<1>5. f[0] = 2 /\ \A n \in 1..m :
        f[n] = f[n - 1] + items[n].size + (IF n > 1 THEN 1 ELSE 0)
  <2>1. \A n \in 0..m : f[n] =
          IF n = 0 THEN 2
          ELSE f[n - 1] + items[n].size + (IF n > 1 THEN 1 ELSE 0)
    BY <1>1, <1>3 DEF Weighs
  <2> QED
    BY <2>1
<1>6. g[0] = 2 /\ \A n \in 1..(m + 1) :
        g[n] = g[n - 1] + all[n].size + (IF n > 1 THEN 1 ELSE 0)
  <2> HIDE DEF all
  <2>1. \A n \in 0..(m + 1) : g[n] =
          IF n = 0 THEN 2
          ELSE g[n - 1] + all[n].size + (IF n > 1 THEN 1 ELSE 0)
    BY <1>2, <1>4 DEF Weighs
  <2> QED
    BY <2>1
<1> DEFINE Same == {n \in 0..m : g[n] = f[n]}
<1>7. 0 \in Same
  BY <1>5, <1>6
<1>8. ASSUME NEW n \in 1..m, n - 1 \in Same PROVE n \in Same
  <2>1. n \in 1..(m + 1) /\ all[n] = items[n] /\ g[n - 1] = f[n - 1]
    BY <1>2, <1>8
  <2> HIDE DEF all
  <2> QED
    BY <1>5, <1>6, <2>1
<1>9. g[m] = f[m]
  <2> HIDE DEF Same
  <2>1. \A n \in 0..m : n \in Same
    BY <1>7, <1>8, Induction
  <2> QED
    BY <2>1 DEF Same
<1>10. g[m + 1] = g[m] + item.size + (IF m + 1 > 1 THEN 1 ELSE 0)
  <2> HIDE DEF all
  <2> QED
    BY <1>2, <1>6
<1>11. m + 1 > 1 <=> items # <<>>
  BY <1>1
<1> QED
  BY <1>3, <1>4, <1>9, <1>10, <1>11

\* No numbers are enumerated by the empty list, and one more at its end.
LEMMA EnumeratesNone ==
  Enumerates(<<>>, {})
BY DEF Enumerates

LEMMA EnumeratesMore ==
  ASSUME NEW numbers \in SUBSET Nat, NEW list \in Seq(Nat),
         Enumerates(list, numbers), NEW n \in Nat, \A k \in numbers : k < n
  PROVE  Enumerates(Append(list, n), numbers \cup {n})
<1> DEFINE more == Append(list, n)
<1>1. PICK m \in Nat : m = Len(list) /\ DOMAIN list = 1..m
  OBVIOUS
<1>2. /\ DOMAIN more = 1..(m + 1) /\ more[m + 1] = n
      /\ \A i \in 1..m : more[i] = list[i]
  BY <1>1
<1> HIDE DEF more
<1>3. \A i \in 1..m : list[i] \in numbers
  BY <1>1 DEF Enumerates
<1>4. \A i \in 1..(m + 1) : i \in 1..m \/ i = m + 1
  OBVIOUS
<1>5. {more[i] : i \in DOMAIN more} = {list[i] : i \in 1..m} \cup {n}
  BY <1>2, <1>4
<1>6. ASSUME NEW i \in 1..(m + 1), NEW j \in 1..(m + 1), i < j
      PROVE  more[i] < more[j]
  <2>1. i \in 1..m
    BY <1>6
  <2>2. CASE j = m + 1
    BY <1>2, <1>3, <2>1, <2>2
  <2>3. CASE j \in 1..m
    BY <1>1, <1>2, <1>6, <2>1, <2>3 DEF Enumerates
  <2> QED
    BY <1>4, <2>2, <2>3
<1> QED
  BY <1>1, <1>2, <1>5, <1>6 DEF Enumerates, more

\* The items of an answer that a page has passed, and those named as too large.
PassedBy(start, next) == {k \in Nat : start <= k /\ k < next}
LargeOf(answer, passed) == {k \in passed : answer[k + 1].size > MaxBytes - 2}

PageType == [next : Nat, bytes : Nat, selected : Seq(Symbols),
             omitted : Seq(Nat)]

\* A page with everything of an answer from a start on to its next.
PageOf(page, answer, start) ==
  /\ page \in PageType
  /\ start <= page.next
  /\ page.bytes = Weight(page.selected)
  /\ page.bytes <= MaxBytes
  /\ Enumerates(page.omitted,
                LargeOf(answer, PassedBy(start, page.next)))
  /\ \E on \in Seq(Nat) :
       /\ Len(on) = Len(page.selected)
       /\ Enumerates(on, PassedBy(start, page.next)
                           \ LargeOf(answer, PassedBy(start, page.next)))
       /\ \A i \in DOMAIN on : page.selected[i] = answer[on[i] + 1]

\* And one that has got n items far, or is full.
PageAt(page, answer, start, n) ==
  /\ PageOf(page, answer, start)
  /\ page.next <= start + n
  /\ page.next < start + n => page.selected # <<>>

\* One more index is passed, as an omitted item or as a shown one.
LEMMA PassOne ==
  ASSUME NEW answer, NEW start \in Nat, NEW next \in Nat, start <= next
  PROVE  LET before == PassedBy(start, next)
             after == PassedBy(start, next + 1)
             large == LargeOf(answer, before)
         IN /\ \A k \in before : k < next
            /\ answer[next + 1].size > MaxBytes - 2 =>
                 /\ LargeOf(answer, after) = large \cup {next}
                 /\ after \ LargeOf(answer, after) = before \ large
            /\ ~(answer[next + 1].size > MaxBytes - 2) =>
                 /\ LargeOf(answer, after) = large
                 /\ after \ LargeOf(answer, after)
                      = (before \ large) \cup {next}
<1> DEFINE before == PassedBy(start, next)
           after == PassedBy(start, next + 1)
<1>1. after = before \cup {next} /\ next \notin before
  BY DEF PassedBy
<1>2. \A k \in before : k < next
  BY DEF PassedBy
<1> HIDE DEF before, after
<1>3. answer[next + 1].size > MaxBytes - 2 =>
        /\ LargeOf(answer, after) = LargeOf(answer, before) \cup {next}
        /\ after \ LargeOf(answer, after) = before \ LargeOf(answer, before)
  <2> HAVE answer[next + 1].size > MaxBytes - 2
  <2>1. LargeOf(answer, after) = LargeOf(answer, before) \cup {next}
    BY <1>1 DEF LargeOf
  <2>2. LargeOf(answer, before) \subseteq before
    BY DEF LargeOf
  <2> QED
    BY <1>1, <2>1, <2>2
<1>4. ~(answer[next + 1].size > MaxBytes - 2) =>
        /\ LargeOf(answer, after) = LargeOf(answer, before)
        /\ after \ LargeOf(answer, after)
             = (before \ LargeOf(answer, before)) \cup {next}
  <2> HAVE ~(answer[next + 1].size > MaxBytes - 2)
  <2>1. LargeOf(answer, after) = LargeOf(answer, before)
    BY <1>1 DEF LargeOf
  <2>2. LargeOf(answer, before) \subseteq before
    BY DEF LargeOf
  <2> QED
    BY <1>1, <2>1, <2>2
<1> QED
  BY <1>2, <1>3, <1>4 DEF before, after

\* The two ways in which a page goes on.
Naming(page, next, omitted) ==
  [page EXCEPT !.next = next, !.omitted = omitted]
Taking(page, next, bytes, selected) ==
  [page EXCEPT !.next = next, !.bytes = bytes, !.selected = selected]

\* What naming an omitted index changes in a page, and what taking an
\* item changes.
LEMMA PageNames ==
  ASSUME NEW page \in PageType, NEW a \in Nat, NEW o \in Seq(Nat)
  PROVE  /\ Naming(page, a, o) \in PageType
         /\ Naming(page, a, o).next = a
         /\ Naming(page, a, o).bytes = page.bytes
         /\ Naming(page, a, o).selected = page.selected
         /\ Naming(page, a, o).omitted = o
<1> DEFINE p == [page EXCEPT !.next = a]
           q == [p EXCEPT !.omitted = o]
<1>1. /\ p \in PageType /\ p.next = a /\ p.bytes = page.bytes
      /\ p.selected = page.selected
  BY DEF PageType
<1>2. /\ q \in PageType /\ q.next = a /\ q.bytes = page.bytes
      /\ q.selected = page.selected /\ q.omitted = o
  <2> HIDE DEF p
  <2> QED
    BY <1>1 DEF PageType
<1>3. q = Naming(page, a, o)
  BY DEF Naming
<1> HIDE DEF q
<1> QED
  BY <1>2, <1>3, Zenon

LEMMA PageTakes ==
  ASSUME NEW page \in PageType, NEW a \in Nat, NEW b \in Nat,
         NEW s \in Seq(Symbols)
  PROVE  /\ Taking(page, a, b, s) \in PageType
         /\ Taking(page, a, b, s).next = a
         /\ Taking(page, a, b, s).bytes = b
         /\ Taking(page, a, b, s).selected = s
         /\ Taking(page, a, b, s).omitted = page.omitted
<1> DEFINE p == [page EXCEPT !.next = a]
           q == [p EXCEPT !.bytes = b]
           r == [q EXCEPT !.selected = s]
<1>1. p \in PageType /\ p.next = a /\ p.omitted = page.omitted
  BY DEF PageType
<1>2. /\ q \in PageType /\ q.next = a /\ q.bytes = b
      /\ q.omitted = page.omitted
  <2> HIDE DEF p
  <2> QED
    BY <1>1 DEF PageType
<1>3. /\ r \in PageType /\ r.next = a /\ r.bytes = b /\ r.selected = s
      /\ r.omitted = page.omitted
  <2> HIDE DEF q
  <2> QED
    BY <1>2 DEF PageType
<1>4. r = Taking(page, a, b, s)
  BY DEF Taking
<1> HIDE DEF r
<1> QED
  BY <1>3, <1>4, Zenon

\* A page that is right about n items is right about one more.
LEMMA ExamineGoesOn ==
  ASSUME NEW answer \in Seq(Symbols), NEW start \in Nat, NEW n \in Nat,
         start + n < Len(answer), NEW page, PageAt(page, answer, start, n)
  PROVE  PageAt(Examine(page, start + n, answer[start + n + 1], MaxBytes),
                answer, start, n + 1)
<1> DEFINE item == answer[start + n + 1]
           size == item.size + (IF page.selected = <<>> THEN 0 ELSE 1)
           next == start + n
           passed == PassedBy(start, next)
           large == LargeOf(answer, passed)
           more == PassedBy(start, next + 1)
<1>1. item \in Symbols /\ item.size \in Nat /\ size \in Nat /\ next \in Nat
  <2>1. start + n + 1 \in 1..Len(answer)
    OBVIOUS
  <2>2. item \in Symbols
    BY <2>1
  <2> QED
    BY <2>2 DEF Symbols
<1>2. page \in PageType
  BY DEF PageAt, PageOf
<1>3. /\ page.next \in Nat /\ page.bytes \in Nat
      /\ page.selected \in Seq(Symbols) /\ page.omitted \in Seq(Nat)
  BY <1>2 DEF PageType
<1>4. CASE page.next < start + n
  <2>1. Examine(page, start + n, item, MaxBytes) = page
    BY <1>4 DEF Examine
  <2>2. page.next <= start + (n + 1) /\ page.selected # <<>>
    BY <1>3, <1>4 DEF PageAt
  <2> QED
    BY <2>1, <2>2 DEF PageAt
<1>5. CASE page.next = start + n
  <2>1. ~(page.next < start + n) /\ page.next = next
    BY <1>2, <1>5
  <2>2. /\ \A k \in passed : k < next
        /\ Oversized(item, MaxBytes) =>
             /\ LargeOf(answer, more) = large \cup {next}
             /\ more \ LargeOf(answer, more) = passed \ large
        /\ ~Oversized(item, MaxBytes) =>
             /\ LargeOf(answer, more) = large
             /\ more \ LargeOf(answer, more) = (passed \ large) \cup {next}
    <3>1. start <= next
      OBVIOUS
    <3> HIDE DEF next
    <3> QED
      BY <1>1, <3>1, PassOne DEF Oversized, next
  <2>3. /\ page.bytes = Weight(page.selected) /\ page.bytes <= MaxBytes
        /\ Enumerates(page.omitted, large)
    BY <2>1 DEF PageAt, PageOf
  <2>4. PICK on \in Seq(Nat) :
          /\ Len(on) = Len(page.selected)
          /\ Enumerates(on, passed \ large)
          /\ \A i \in DOMAIN on : page.selected[i] = answer[on[i] + 1]
    BY <2>1 DEF PageAt, PageOf
  <2>5. passed \in SUBSET Nat /\ large \in SUBSET Nat
    BY DEF PassedBy, LargeOf
  <2> HIDE DEF next, passed, large, more
  <2>6. CASE Oversized(item, MaxBytes)
    <3> DEFINE new == [page EXCEPT !.next = next + 1,
                                   !.omitted = Append(@, next)]
    <3>1. Examine(page, next, item, MaxBytes) = new
      BY <2>1, <2>6 DEF Examine, next
    <3>2. /\ new \in PageType
          /\ new.next = next + 1 /\ new.bytes = page.bytes
          /\ new.selected = page.selected
          /\ new.omitted = Append(page.omitted, next)
      <4> DEFINE named == Append(page.omitted, next)
      <4>1. named \in Seq(Nat) /\ next + 1 \in Nat
        BY <1>1, <1>3
      <4>2. new = Naming(page, next + 1, named)
        BY DEF Naming
      <4> HIDE DEF named, new
      <4>3. /\ new \in PageType /\ new.next = next + 1
            /\ new.bytes = page.bytes /\ new.selected = page.selected
            /\ new.omitted = named
        BY <1>2, <4>1, <4>2, PageNames
      <4> QED
        BY <4>3 DEF named
    <3> HIDE DEF new
    <3>3. Enumerates(new.omitted, LargeOf(answer, more))
      <4>1. \A k \in large : k < next
        BY <2>2 DEF large, LargeOf
      <4> QED
        <5>1. Enumerates(Append(page.omitted, next), large \cup {next})
          BY <1>1, <1>3, <2>3, <2>5, <4>1, EnumeratesMore
        <5> QED
          BY <2>2, <2>6, <3>2, <5>1
    <3>4. PageOf(new, answer, start)
      <4>1. start <= new.next
        BY <3>2 DEF next
      <4>2. PassedBy(start, new.next) = more
        BY <3>2 DEF more
      <4>3. /\ Len(on) = Len(new.selected)
            /\ Enumerates(on, more \ LargeOf(answer, more))
            /\ \A i \in DOMAIN on : new.selected[i] = answer[on[i] + 1]
        BY <2>2, <2>4, <2>6, <3>2
      <4> QED
        BY <2>3, <3>2, <3>3, <4>1, <4>2, <4>3 DEF PageOf
    <3>5. new.next = start + (n + 1)
      BY <3>2 DEF next
    <3> QED
      BY <1>1, <3>1, <3>4, <3>5 DEF PageAt, next
  <2>7. CASE ~Oversized(item, MaxBytes) /\ size > MaxBytes - page.bytes
    <3>1. Examine(page, next, item, MaxBytes) = page
      BY <2>1, <2>7 DEF Examine, next
    <3>2. page.selected # <<>>
      <4> SUFFICES ASSUME page.selected = <<>> PROVE FALSE
        OBVIOUS
      <4>1. page.bytes = 2 /\ size = item.size
        BY <1>1, <2>3, WeightEmpty
      <4> QED
        BY <1>1, <2>7, <4>1, ConversionsAssumption DEF Oversized
    <3>3. page.next <= start + (n + 1)
      BY <1>5
    <3> QED
      BY <3>1, <3>2, <3>3 DEF PageAt, next
  <2>8. CASE ~Oversized(item, MaxBytes) /\ ~(size > MaxBytes - page.bytes)
    <3> DEFINE new == [page EXCEPT !.next = next + 1, !.bytes = @ + size,
                                   !.selected = Append(@, item)]
    <3>1. Examine(page, next, item, MaxBytes) = new
      BY <2>1, <2>8 DEF Examine, next
    <3>2. /\ new \in PageType
          /\ new.next = next + 1 /\ new.bytes = page.bytes + size
          /\ new.selected = Append(page.selected, item)
          /\ new.omitted = page.omitted
      <4> DEFINE chosen == Append(page.selected, item)
                 bytes == page.bytes + size
      <4>1. chosen \in Seq(Symbols) /\ next + 1 \in Nat /\ bytes \in Nat
        <5> HIDE DEF item, size
        <5> QED
          BY <1>1, <1>3
      <4>2. new = Taking(page, next + 1, bytes, chosen)
        BY DEF Taking
      <4> HIDE DEF chosen, bytes, new, item, size
      <4>3. PICK a : a = next + 1
        OBVIOUS
      <4>4. new = Taking(page, a, bytes, chosen) /\ a \in Nat
        BY <4>1, <4>2, <4>3
      <4>5. /\ Taking(page, a, bytes, chosen) \in PageType
            /\ Taking(page, a, bytes, chosen).next = a
            /\ Taking(page, a, bytes, chosen).bytes = bytes
            /\ Taking(page, a, bytes, chosen).selected = chosen
            /\ Taking(page, a, bytes, chosen).omitted = page.omitted
        <5>1. bytes \in Nat /\ chosen \in Seq(Symbols) /\ a \in Nat
          BY <4>1, <4>4
        <5>2. \A b \in Nat, s \in Seq(Symbols) :
                /\ Taking(page, a, b, s) \in PageType
                /\ Taking(page, a, b, s).next = a
                /\ Taking(page, a, b, s).bytes = b
                /\ Taking(page, a, b, s).selected = s
                /\ Taking(page, a, b, s).omitted = page.omitted
          BY <1>2, <5>1, PageTakes
        <5> QED
          BY <5>1, <5>2, Zenon
      <4> QED
        BY <4>3, <4>4, <4>5 DEF chosen, bytes
    <3> HIDE DEF new
    <3>3. new.bytes = Weight(new.selected)
      <4>1. Weight(new.selected) = Weight(page.selected) + item.size
              + (IF page.selected = <<>> THEN 0 ELSE 1)
        BY <1>1, <1>3, <3>2, WeightAppend
      <4>2. new.bytes = Weight(page.selected) + size
        BY <2>3, <3>2
      <4> HIDE DEF item
      <4> QED
        BY <1>1, <1>3, <2>3, <4>1, <4>2
    <3>4. new.bytes <= MaxBytes
      <4>1. new.bytes = page.bytes + size /\ ~(size > MaxBytes - page.bytes)
        BY <2>8, <3>2
      <4>2. size \in Nat /\ MaxBytes \in Nat /\ page.bytes \in Nat
        BY <1>1, <1>3, ConversionsAssumption
      <4> HIDE DEF size
      <4> QED
        BY <4>1, <4>2
    <3> DEFINE all == Append(on, next)
    <3>5. /\ all \in Seq(Nat) /\ Len(all) = Len(new.selected)
          /\ Enumerates(all, more \ LargeOf(answer, more))
          /\ \A i \in DOMAIN all : new.selected[i] = answer[all[i] + 1]
      <4>1. \A k \in passed \ large : k < next
        BY <2>2
      <4>2. Enumerates(all, (passed \ large) \cup {next})
        BY <1>1, <2>4, <2>5, <4>1, EnumeratesMore
      <4>3. PICK l \in Nat : l = Len(on)
        BY <2>4
      <4>4. /\ all \in Seq(Nat) /\ Len(all) = l + 1 /\ all[l + 1] = next
            /\ \A i \in 1..l : all[i] = on[i]
        BY <1>1, <4>3
      <4>5. /\ Len(new.selected) = l + 1 /\ new.selected[l + 1] = item
            /\ \A i \in 1..l : new.selected[i] = page.selected[i]
        BY <1>1, <1>2, <2>4, <3>2, <4>3
      <4>6. item = answer[next + 1]
        BY DEF next
      <4> HIDE DEF all, item
      <4>7. \A i \in 1..(l + 1) : i \in 1..l \/ i = l + 1
        OBVIOUS
      <4>8. \A i \in 1..l : page.selected[i] = answer[on[i] + 1]
        BY <2>4, <4>3
      <4>9. \A i \in 1..(l + 1) : new.selected[i] = answer[all[i] + 1]
        BY <4>4, <4>5, <4>6, <4>7, <4>8
      <4>10. DOMAIN all = 1..(l + 1)
        BY <4>4
      <4> QED
        BY <2>2, <2>8, <4>2, <4>4, <4>5, <4>9, <4>10 DEF item
    <3>6. PageOf(new, answer, start)
      <4>1. start <= new.next
        BY <3>2 DEF next
      <4>2. PassedBy(start, new.next) = more
        BY <3>2 DEF more
      <4>3. Enumerates(new.omitted, LargeOf(answer, more))
        BY <2>2, <2>3, <2>8, <3>2
      <4> HIDE DEF all
      <4> QED
        BY <3>2, <3>3, <3>4, <3>5, <4>1, <4>2, <4>3 DEF PageOf
    <3>7. new.next = start + (n + 1)
      BY <3>2 DEF next
    <3> QED
      BY <1>1, <3>1, <3>6, <3>7 DEF PageAt, next
  <2> QED
    BY <2>6, <2>7, <2>8
<1>6. page.next <= start + n
  BY DEF PageAt
<1>7. page.next < start + n \/ page.next = start + n
  <2> HIDE DEF item, size, next, passed, large, more
  <2>1. \A a, b \in Nat : a <= b => a < b \/ a = b
    OBVIOUS
  <2>2. start + n \in Nat
    OBVIOUS
  <2> QED
    BY <1>3, <1>6, <2>1, <2>2, Zenon
<1> QED
  BY <1>4, <1>5, <1>7

\* The recursion of Fill.
Fills(f, items, start, last) ==
  f = [n \in 0..(last - start) |->
         IF n = 0
           THEN [next |-> start, bytes |-> 2, selected |-> <<>>,
                 omitted |-> <<>>]
           ELSE Examine(f[n - 1], start + n - 1, items[start + n], MaxBytes)]

\* A page stays one.
LEMMA ExamineTyped ==
  ASSUME NEW page \in PageType, NEW index \in Nat, NEW item \in Symbols
  PROVE  Examine(page, index, item, MaxBytes) \in PageType
<1> DEFINE size == item.size + (IF page.selected = <<>> THEN 0 ELSE 1)
           named == Append(page.omitted, index)
           chosen == Append(page.selected, item)
           bytes == page.bytes + size
<1>1. item.size \in Nat
  BY DEF Symbols
<1>2. /\ page.bytes \in Nat /\ page.selected \in Seq(Symbols)
      /\ page.omitted \in Seq(Nat)
  BY DEF PageType
<1>3. named \in Seq(Nat) /\ chosen \in Seq(Symbols)
  BY <1>2
<1>4. bytes \in Nat
  BY <1>1, <1>2
<1>5. index + 1 \in Nat
  OBVIOUS
<1>6. \/ Examine(page, index, item, MaxBytes) = page
      \/ Examine(page, index, item, MaxBytes) = Naming(page, index + 1, named)
      \/ Examine(page, index, item, MaxBytes)
           = Taking(page, index + 1, bytes, chosen)
  BY DEF Examine, Naming, Taking
<1>7. Naming(page, index + 1, named) \in PageType
  <2> HIDE DEF named
  <2> QED
    BY <1>3, <1>5, PageNames
<1>8. Taking(page, index + 1, bytes, chosen) \in PageType
  <2> HIDE DEF chosen, bytes
  <2>1. \A a, b \in Nat, s \in Seq(Symbols) :
          Taking(page, a, b, s) \in PageType
    BY PageTakes
  <2> QED
    BY <1>3, <1>4, <1>5, <2>1, Zenon
<1> QED
  BY <1>6, <1>7, <1>8

\* The recursion of Fill has a solution, and Fill is right about its items.
LEMMA FillsExists ==
  ASSUME NEW items \in Seq(Symbols), NEW start \in Nat, NEW last \in Nat,
         start <= last, last <= Len(items)
  PROVE  \E f : Fills(f, items, start, last)
<1>1. PICK m \in Nat : m = last - start
  OBVIOUS
<1> DEFINE first == [next |-> start, bytes |-> 2, selected |-> <<>>,
                     omitted |-> <<>>]
           step == [p \in (1..m) \X PageType |->
                      Examine(p[2], start + p[1] - 1, items[start + p[1]],
                              MaxBytes)]
<1>2. first \in PageType
  BY DEF PageType
<1>3. \A n \in 1..m : start + n - 1 \in Nat /\ items[start + n] \in Symbols
  <2> SUFFICES ASSUME NEW n \in 1..m
               PROVE  start + n - 1 \in Nat /\ items[start + n] \in Symbols
    OBVIOUS
  <2>1. start + n \in 1..Len(items)
    BY <1>1
  <2> QED
    BY <2>1
<1>4. step \in [(1..m) \X PageType -> PageType]
  BY <1>3, ExamineTyped
<1>5. PICK f \in [0..m -> PageType] : IsRun(f, first, step, m)
  <2> HIDE DEF first, step
  <2> QED
    BY <1>2, <1>4, RunExists
<1>6. \A n \in 0..m : f[n] = IF n = 0 THEN first ELSE step[<<n, f[n - 1]>>]
  BY <1>5 DEF IsRun
<1> DEFINE next(n) == Examine(f[n - 1], start + n - 1, items[start + n],
                              MaxBytes)
           g == [n \in 0..m |-> IF n = 0 THEN first ELSE next(n)]
<1>7. ASSUME NEW n \in 0..m PROVE f[n] = g[n]
  <2>1. CASE n = 0
    <3> HIDE DEF first, step, next
    <3> QED
      BY <1>6, <2>1
  <2>2. CASE n # 0
    <3>1. n \in 1..m /\ n - 1 \in 0..m
      BY <2>2
    <3>2. f[n] = step[<<n, f[n - 1]>>]
      <4> HIDE DEF step, first
      <4> QED
        BY <1>6, <2>2
    <3>3. f[n - 1] \in PageType
      BY <3>1
    <3>4. f[n] = next(n)
      BY <3>1, <3>2, <3>3
    <3> HIDE DEF next, first
    <3> QED
      BY <2>2, <3>4
  <2> QED
    BY <2>1, <2>2
<1>8. f = g
  <2> HIDE DEF step, next, first
  <2> QED
    BY <1>7
<1> QED
  BY <1>1, <1>8 DEF Fills

LEMMA FillIs ==
  ASSUME NEW answer \in Seq(Symbols), NEW start \in Nat, NEW last \in Nat,
         start <= last, last <= Len(answer)
  PROVE  PageAt(Fill(answer, start, last, MaxBytes), answer, start,
                last - start)
<1>1. PICK m \in Nat : m = last - start
  OBVIOUS
<1> DEFINE f == CHOOSE f : Fills(f, answer, start, last)
           first == [next |-> start, bytes |-> 2, selected |-> <<>>,
                     omitted |-> <<>>]
<1>2. Fills(f, answer, start, last)
  <2>1. \E g : Fills(g, answer, start, last)
    BY FillsExists
  <2> QED
    BY <2>1, Zenon
<1>3. Fill(answer, start, last, MaxBytes) = f[m]
  BY <1>1 DEF Fill, Fills
<1> HIDE DEF f
<1>4. /\ f[0] = first
      /\ \A n \in 1..m : f[n] = Examine(f[n - 1], start + n - 1,
                                        answer[start + n], MaxBytes)
  <2> HIDE DEF first
  <2>1. \A n \in 0..m :
          f[n] = IF n = 0 THEN first
                 ELSE Examine(f[n - 1], start + n - 1, answer[start + n],
                              MaxBytes)
    BY <1>1, <1>2 DEF Fills, first
  <2>2. 0 \in 0..m /\ \A n \in 1..m : n \in 0..m /\ n # 0
    OBVIOUS
  <2> QED
    BY <2>1, <2>2
<1> DEFINE Good == {n \in 0..m : PageAt(f[n], answer, start, n)}
<1>5. 0 \in Good
  <2>1. PassedBy(start, start) = {}
    BY DEF PassedBy
  <2>2. LargeOf(answer, PassedBy(start, start)) = {}
    BY <2>1 DEF LargeOf
  <2>3. /\ first \in PageType /\ first.next = start /\ first.bytes = 2
        /\ first.selected = <<>> /\ first.omitted = <<>>
    BY DEF PageType
  <2> HIDE DEF first
  <2>4. /\ <<>> \in Seq(Nat) /\ Len(<<>>) = 0 /\ DOMAIN <<>> = {}
    OBVIOUS
  <2>5. PageOf(first, answer, start)
    <3>1. first.bytes = Weight(first.selected) /\ first.bytes <= MaxBytes
      BY <2>3, WeightEmpty, ConversionsAssumption
    <3>2. Enumerates(first.omitted,
                     LargeOf(answer, PassedBy(start, first.next)))
      BY <2>2, <2>3, EnumeratesNone
    <3>3. PassedBy(start, first.next)
            \ LargeOf(answer, PassedBy(start, first.next)) = {}
      BY <2>1, <2>3
    <3>4. \E on \in Seq(Nat) :
            /\ Len(on) = Len(first.selected)
            /\ Enumerates(on, PassedBy(start, first.next)
                                \ LargeOf(answer, PassedBy(start, first.next)))
            /\ \A i \in DOMAIN on : first.selected[i] = answer[on[i] + 1]
      <4>1. Enumerates(<<>>, PassedBy(start, first.next)
                               \ LargeOf(answer, PassedBy(start, first.next)))
        BY <3>3, EnumeratesNone
      <4> QED
        BY <2>3, <2>4, <4>1
    <3>5. start <= first.next
      BY <2>3
    <3> QED
      BY <2>3, <3>1, <3>2, <3>4, <3>5 DEF PageOf
  <2> QED
    BY <1>4, <2>3, <2>5 DEF PageAt
<1>6. ASSUME NEW n \in 1..m, n - 1 \in Good PROVE n \in Good
  <2>1. PageAt(f[n - 1], answer, start, n - 1)
    BY <1>6
  <2>2. /\ n - 1 \in Nat /\ start + (n - 1) < Len(answer)
        /\ start + (n - 1) = start + n - 1
        /\ start + (n - 1) + 1 = start + n /\ (n - 1) + 1 = n
    BY <1>1
  <2>3. PageAt(Examine(f[n - 1], start + (n - 1),
                       answer[start + (n - 1) + 1], MaxBytes),
               answer, start, (n - 1) + 1)
    BY <2>1, <2>2, ExamineGoesOn
  <2> HIDE DEF first
  <2>4. PageAt(f[n], answer, start, n)
    BY <1>4, <2>2, <2>3
  <2> QED
    BY <2>4
<1>7. m \in Good
  <2> HIDE DEF Good
  <2>1. \A n \in 0..m : n \in Good
    BY <1>5, <1>6, Induction
  <2> QED
    BY <2>1
<1> QED
  BY <1>1, <1>3, <1>7

\* A page has everything from its offset on until the next, whatever the limit
\* and the sizes are.
LEMMA PaginateIsRight ==
  ASSUME NEW answer \in Seq(Symbols), NEW offset \in Nat,
         input.limit \in Nat \ {0}
  PROVE  /\ PageIsRight(Paginate(answer, input.limit, offset, MaxBytes),
                        answer, offset)
         /\ \A k \in DOMAIN Paginate(answer, input.limit, offset,
                                     MaxBytes).nextOffset :
              Paginate(answer, input.limit, offset, MaxBytes).nextOffset[k]
                \in Nat
<1> DEFINE limit == input.limit
           total == Len(answer)
           start == Least(offset, total)
           last == Least(start + limit, total)
           page == Fill(answer, start, last, MaxBytes)
           made == Paginate(answer, limit, offset, MaxBytes)
<1>1. /\ total \in Nat /\ start \in Nat /\ last \in Nat
      /\ start <= last /\ last <= total /\ start <= offset
      /\ start = offset \/ (start = total /\ offset > total)
      /\ last <= start + limit
      /\ start < total => start < last
  BY DEF Least
<1> HIDE DEF total, start, last
<1>2. PageAt(page, answer, start, last - start)
  BY <1>1, FillIs DEF total
<1>3. /\ made.items = page.selected /\ made.returned = Len(page.selected)
      /\ made.total = total
      /\ made.truncated <=> (page.next < total \/ page.omitted # <<>>)
      /\ made.nextOffset = IF page.next < total THEN <<page.next>> ELSE <<>>
      /\ made.omitted = page.omitted
  BY DEF Paginate, total, start, last
<1> HIDE DEF made, page
<1>4. /\ page \in PageType
      /\ start <= page.next /\ page.next <= last
      /\ page.next < last => page.selected # <<>>
      /\ page.bytes = Weight(page.selected)
      /\ page.bytes <= MaxBytes
  BY <1>1, <1>2 DEF PageAt, PageOf
<1>5. /\ page.next \in Nat /\ page.selected \in Seq(Symbols)
      /\ page.omitted \in Seq(Nat)
  BY <1>4 DEF PageType
<1> DEFINE upto == IF made.nextOffset = <<>> THEN total
                   ELSE made.nextOffset[1]
           passed == {k \in 0..(total - 1) : offset <= k /\ k < upto}
           omitted == {k \in passed : answer[k + 1].size > MaxBytes - 2}
<1>6. upto = page.next
  BY <1>1, <1>3, <1>4, <1>5
<1> HIDE DEF upto
<1>7. passed = PassedBy(start, page.next)
  <2>1. \A k : k \in passed <=> k \in PassedBy(start, page.next)
    BY <1>1, <1>4, <1>5, <1>6 DEF PassedBy
  <2> HIDE DEF passed
  <2> QED
    BY <2>1
<1> HIDE DEF passed
<1>8. omitted = LargeOf(answer, passed)
  BY DEF LargeOf
<1> HIDE DEF omitted
<1>9. Enumerates(made.omitted, omitted)
  BY <1>2, <1>3, <1>7, <1>8 DEF PageAt, PageOf
<1>10. PICK on \in Seq(Nat) :
         /\ Len(on) = Len(page.selected)
         /\ Enumerates(on, passed \ omitted)
         /\ \A i \in DOMAIN on : page.selected[i] = answer[on[i] + 1]
  BY <1>2, <1>7, <1>8 DEF PageAt, PageOf
<1>11. DOMAIN on = DOMAIN made.items
  BY <1>3, <1>5, <1>10
<1>12. on \in [DOMAIN made.items -> passed \ omitted]
  <2>1. on \in [DOMAIN on -> passed \ omitted]
    BY <1>10 DEF Enumerates
  <2> QED
    BY <1>11, <2>1
<1>13. passed # {} \/ offset >= total
  <2> SUFFICES ASSUME offset < total PROVE passed # {}
    BY <1>1
  <2>1. start = offset /\ start < last
    BY <1>1
  <2>2. CASE page.next = last
    <3>1. start \in PassedBy(start, page.next)
      BY <1>1, <2>1, <2>2 DEF PassedBy
    <3> QED
      BY <1>7, <3>1
  <2>3. CASE page.next < last
    <3>1. page.selected # <<>>
      BY <1>4, <2>3
    <3>2. 1 \in DOMAIN on
      BY <1>5, <1>10, <3>1
    <3> QED
      BY <1>10, <3>2 DEF Enumerates
  <2> QED
    BY <1>1, <1>4, <1>5, <2>2, <2>3
<1>14. upto - offset <= limit
  BY <1>1, <1>4, <1>5, <1>6
<1>15. made.truncated <=> (upto < total \/ omitted # {})
  <2>1. page.omitted # <<>> <=> omitted # {}
    <3>1. page.omitted = <<>> => omitted = {}
      BY <1>3, <1>9 DEF Enumerates
    <3>2. page.omitted # <<>> => 1 \in DOMAIN page.omitted
      BY <1>5
    <3>3. page.omitted # <<>> => page.omitted[1] \in omitted
      BY <1>3, <1>9, <3>2 DEF Enumerates
    <3> QED
      BY <3>1, <3>3
  <2> QED
    BY <1>3, <1>6, <2>1
<1>16. PageIsRight(made, answer, offset)
  <2>1. Weight(made.items) <= MaxBytes
    BY <1>3, <1>4
  <2>2. \E o \in [DOMAIN made.items -> passed \ omitted] :
          /\ Enumerates(o, passed \ omitted)
          /\ \A i \in DOMAIN made.items : made.items[i] = answer[o[i] + 1]
    BY <1>3, <1>10, <1>11, <1>12
  <2>3. made.total = total /\ made.returned = Len(made.items)
    BY <1>3
  <2> QED
    BY <1>9, <1>13, <1>14, <1>15, <2>1, <2>2, <2>3
      DEF PageIsRight, upto, passed, omitted, total
<1>17. \A k \in DOMAIN made.nextOffset : made.nextOffset[k] \in Nat
  <2>1. made.nextOffset = <<>> \/ made.nextOffset = <<page.next>>
    BY <1>3
  <2> QED
    BY <1>5, <2>1
<1> QED
  BY <1>16, <1>17 DEF made

-----------------------------------------------------------------------------
(* Routes                                                                  *)

PatternsFor(server, name) == {p \in server.patterns : name \in p.matches}
Stems(name, e) ==
  {stem \in 1..Len(name) : SubSeq(name, 1, stem) \o e = name}
Fits(server, name) == {e \in DOMAIN server.extensions : Stems(name, e) # {}}

\* A name has an extension exactly when a stem is left in front of it.
LEMMA EndIsStem ==
  ASSUME NEW name \in Names, NEW e \in Extensions
  PROVE  EndsWith(name, e) <=> Stems(name, e) # {}
<1>1. name \in Seq(STRING) /\ e \in Seq(STRING)
  BY RoutesAssumption
<1>2. PICK l \in Nat, m \in Nat : l = Len(name) /\ m = Len(e)
  BY <1>1
<1>3. DOMAIN name = 1..l /\ DOMAIN e = 1..m
  BY <1>1, <1>2
<1>4. ASSUME EndsWith(name, e) PROVE Stems(name, e) # {}
  <2> DEFINE s == l - m
             front == SubSeq(name, 1, s)
             all == front \o e
  <2>1. s \in 1..l /\ SubSeq(name, s + 1, l) = e
    <3>1. /\ Len(name) - Len(e) > 0
          /\ SubSeq(name, Len(name) - Len(e) + 1, Len(name)) = e
      BY <1>4, Zenon DEF EndsWith
    <3>2. l - m > 0 /\ SubSeq(name, l - m + 1, l) = e
      BY <1>2, <3>1, Zenon
    <3>3. l - m \in 1..l
      BY <3>2
    <3> QED
      BY <3>2, <3>3, Zenon
  <2>2. /\ front \in Seq(STRING) /\ Len(front) = s
        /\ \A i \in 1..s : front[i] = name[i]
    BY <1>1, <1>2, <1>3, <2>1, SubSeqProperties
  <2>3. \A i \in 1..m : e[i] = name[s + i]
    <3>1. Len(SubSeq(name, s + 1, l)) = m
      BY <1>2, <2>1
    <3>2. \A i \in 1..m : SubSeq(name, s + 1, l)[i] = name[s + i]
      BY <1>1, <1>2, <1>3, <2>1, SubSeqProperties
    <3> QED
      BY <2>1, <3>2
  <2>4. /\ all \in Seq(STRING) /\ Len(all) = s + m
        /\ \A i \in 1..(s + m) :
             all[i] = IF i <= s THEN front[i] ELSE e[i - s]
    BY <1>1, <1>2, <2>2, ConcatProperties
  <2>5. s + m = l
    BY <1>2
  <2> HIDE DEF all, front
  <2>6. ASSUME NEW i \in 1..l PROVE all[i] = name[i]
    <3>1. CASE i <= s
      <4>1. i \in 1..s
        BY <3>1
      <4> QED
        BY <2>2, <2>4, <2>5, <3>1, <4>1
    <3>2. CASE i > s
      <4>1. i - s \in 1..m /\ s + (i - s) = i /\ ~(i <= s)
        BY <2>1, <3>2
      <4>2. all[i] = e[i - s]
        BY <2>4, <2>5, <4>1
      <4> QED
        BY <2>3, <4>1, <4>2
    <3> QED
      BY <2>1, <3>1, <3>2
  <2>7. all = name
    BY <1>1, <1>2, <2>4, <2>5, <2>6, SeqEqual
  <2>8. s \in Stems(name, e)
    BY <1>2, <2>1, <2>7 DEF Stems, all, front
  <2> QED
    BY <2>8
<1>5. ASSUME Stems(name, e) # {} PROVE EndsWith(name, e)
  <2>1. PICK s \in 1..l : SubSeq(name, 1, s) \o e = name
    BY <1>2, <1>5 DEF Stems
  <2> DEFINE front == SubSeq(name, 1, s)
             tail == SubSeq(name, s + 1, l)
  <2>2. front \in Seq(STRING) /\ Len(front) = s
    BY <1>1, <1>2, <1>3, <2>1, SubSeqProperties
  <2>3. /\ l = s + m
        /\ \A i \in 1..(s + m) :
             name[i] = IF i <= s THEN front[i] ELSE e[i - s]
    <3> HIDE DEF front
    <3>1. /\ Len(front \o e) = Len(front) + Len(e)
          /\ \A i \in 1..(Len(front) + Len(e)) :
               (front \o e)[i] = IF i <= Len(front) THEN front[i]
                                 ELSE e[i - Len(front)]
      BY <1>1, <2>2, ConcatProperties, Zenon
    <3>2. front \o e = name
      BY <2>1, Zenon DEF front
    <3>3. Len(front) = s /\ Len(e) = m /\ Len(name) = l
      BY <1>2, <2>2
    <3> QED
      BY <3>1, <3>2, <3>3, Zenon
  <2>4. /\ tail \in Seq(STRING) /\ Len(tail) = m
        /\ \A i \in 1..m : tail[i] = name[s + i]
    BY <1>1, <1>2, <1>3, <2>1, <2>3, SubSeqProperties
  <2> HIDE DEF tail, front
  <2>5. \A i \in 1..m : tail[i] = e[i]
    <3> SUFFICES ASSUME NEW i \in 1..m PROVE tail[i] = e[i]
      OBVIOUS
    <3>1. s + i \in 1..(s + m) /\ ~(s + i <= s) /\ s + i - s = i
      BY <2>1
    <3>2. \A j \in 1..(s + m) : ~(j <= s) => name[j] = e[j - s]
      BY <2>3
    <3>3. name[s + i] = e[s + i - s]
      BY <3>1, <3>2
    <3> QED
      BY <2>4, <3>1, <3>3
  <2>6. tail = e
    BY <1>1, <1>2, <2>4, <2>5, SeqEqual
  <2>7. l - m = s /\ s > 0
    BY <2>1, <2>3
  <2> QED
    BY <1>2, <2>6, <2>7 DEF EndsWith, tail
<1> QED
  BY <1>4, <1>5


\* A file's patterns have finitely many languages.
LEMMA LanguagesAreFinite ==
  ASSUME NEW server \in Servers, NEW name \in Names
  PROVE  /\ IsFiniteSet(PatternLanguages(server, name))
         /\ \A l : l \in PatternLanguages(server, name) <=>
              \E p \in PatternsFor(server, name) : l = p.language
<1> DEFINE patterns == PatternsFor(server, name)
           languages == PatternLanguages(server, name)
           of == [p \in patterns |-> p.language]
<1>1. patterns \in SUBSET Patterns
  BY DEF PatternsFor, Servers
<1>2. IsFiniteSet(patterns)
  BY <1>1, RoutesAssumption, FS_Subset
<1>3. languages = {p.language : p \in patterns}
  BY DEF PatternLanguages, PatternsFor
<1>4. of \in Surjection(patterns, languages)
  BY <1>3 DEF Surjection
<1> QED
  <2> HIDE DEF of, languages, patterns
  <2>1. IsFiniteSet(languages)
    BY <1>2, <1>4, FS_Surjection
  <2> QED
    BY <1>3, <2>1 DEF languages, patterns

\* Of the extensions that fit there is one that none outdoes.
LEMMA LongestIs ==
  ASSUME NEW name \in Names, NEW E \in SUBSET Extensions, E # {}
  PROVE  LET fits == {e \in E : EndsWith(name, e)} IN
         fits # {} => /\ Longest(fits) \in fits
                      /\ \A e \in fits : Len(e) <= Len(Longest(fits))
<1> DEFINE fits == {e \in E : EndsWith(name, e)}
           spare == {Len(name) - Len(e) : e \in fits}
<1> SUFFICES ASSUME fits # {}
             PROVE  /\ Longest(fits) \in fits
                    /\ \A e \in fits : Len(e) <= Len(Longest(fits))
  OBVIOUS
<1>1. Len(name) \in Nat /\ \A e \in fits : Len(e) \in Nat
  BY RoutesAssumption
<1>2. \A e \in fits : Len(name) - Len(e) > 0
  BY DEF EndsWith
<1>3. spare \in SUBSET Nat /\ spare # {}
  BY <1>1, <1>2
<1>4. PICK least \in spare : \A m \in spare : least <= m
  BY <1>3, LeastExists
<1>5. PICK e \in fits : least = Len(name) - Len(e)
  BY <1>4
<1>6. ASSUME NEW other \in fits PROVE Len(other) <= Len(e)
  <2>1. PICK l \in Nat, m \in Nat, o \in Nat :
          l = Len(name) /\ m = Len(e) /\ o = Len(other)
    BY <1>1
  <2>2. Len(name) - Len(other) \in spare
    OBVIOUS
  <2>3. l - m <= l - o
    BY <1>4, <1>5, <2>1, <2>2
  <2> QED
    BY <2>1, <2>3
<1> QED
  <2> HIDE DEF fits
  <2> QED
    BY <1>5, <1>6 DEF Longest

\* The language of a file: the patterns' or that of a longest extension.
LEMMA LanguageIs ==
  ASSUME NEW server \in Servers, NEW name \in Names
  PROVE  LET result == LanguageIdForPath(server, name)
             fits == Fits(server, name)
         IN /\ result.kind \in {"AmbiguousLanguages", "NoMatch", "Language"}
            /\ result.kind = "Language" =>
                 IF PatternsFor(server, name) # {}
                   THEN \A p \in PatternsFor(server, name) :
                          result.language = p.language
                   ELSE \E e \in fits :
                          /\ result.language = server.extensions[e]
                          /\ \A longer \in fits : Len(longer) <= Len(e)
<1> DEFINE result == LanguageIdForPath(server, name)
           languages == PatternLanguages(server, name)
           matching == Matching(server, name)
           patterns == PatternsFor(server, name)
           any == CHOOSE l \in languages : TRUE
           E == DOMAIN server.extensions
<1>1. E \in SUBSET Extensions
  BY DEF Servers
<1>2. matching = Fits(server, name)
  BY <1>1, EndIsStem DEF Matching, Fits
<1>3. matching # {} => /\ Longest(matching) \in matching
                       /\ \A e \in matching : Len(e) <= Len(Longest(matching))
  BY <1>1, LongestIs DEF Matching
<1>4. Cardinality(languages) \in Nat
  BY LanguagesAreFinite, FS_CardinalityType
<1> SUFFICES
      /\ result.kind \in {"AmbiguousLanguages", "NoMatch", "Language"}
      /\ result.kind = "Language" =>
           IF patterns # {}
             THEN \A p \in patterns : result.language = p.language
             ELSE \E e \in Fits(server, name) :
                    /\ result.language = server.extensions[e]
                    /\ \A longer \in Fits(server, name) :
                         Len(longer) <= Len(e)
  OBVIOUS
<1>9. result = CASE Cardinality(languages) > 1 ->
                     [kind |-> "AmbiguousLanguages"]
                [] Cardinality(languages) = 1 ->
                     [kind |-> "Language",
                      language |-> any]
                [] languages = {} /\ matching = {} -> [kind |-> "NoMatch"]
                [] OTHER -> [kind |-> "Language",
                             language |->
                               server.extensions[Longest(matching)]]
  BY DEF LanguageIdForPath
<1> HIDE DEF languages, matching, result, any
<1>5. CASE Cardinality(languages) > 1
  <2>1. languages # {} /\ Cardinality(languages) # 1
    BY <1>5, FS_EmptySet
  <2>2. result = [kind |-> "AmbiguousLanguages"]
    BY <1>5, <1>9, <2>1
  <2> QED
    BY <2>2
<1>6. CASE Cardinality(languages) = 1
  <2>1. PICK lang : languages = {lang}
    BY <1>6, LanguagesAreFinite, FS_Singleton DEF languages
  <2>2. result = [kind |-> "Language", language |-> lang]
    <3>1. result = [kind |-> "Language",
                    language |-> any]
      BY <1>6, <1>9, <2>1
    <3>2. any = lang
      BY <2>1 DEF any
    <3> QED
      BY <3>1, <3>2
  <2>3. patterns # {} /\ \A p \in patterns : p.language = lang
    BY <2>1, LanguagesAreFinite DEF languages
  <2> QED
    BY <2>2, <2>3
<1>7. CASE Cardinality(languages) = 0
  <2>1. languages = {}
    BY <1>7, LanguagesAreFinite, FS_EmptySet DEF languages
  <2>2. patterns = {}
    BY <2>1, LanguagesAreFinite DEF languages
  <2>3. CASE matching = {}
    <3>1. result = [kind |-> "NoMatch"]
      BY <1>7, <1>9, <2>1, <2>3
    <3> QED
      BY <3>1
  <2>4. CASE matching # {}
    <3>1. result = [kind |-> "Language",
                    language |-> server.extensions[Longest(matching)]]
      BY <1>7, <1>9, <2>1, <2>4
    <3> QED
      BY <1>2, <1>3, <2>2, <2>4, <3>1
  <2> QED
    BY <2>3, <2>4
<1> QED
  BY <1>4, <1>5, <1>6, <1>7

\* What one configuration says of one file.
Result(servers, name, n) == LanguageIdForPath(servers[n], name)

\* The route to a named server.
LEMMA RouteToIs ==
  ASSUME NEW k \in Nat, NEW servers \in [1..k -> Servers], NEW name \in Names,
         NEW n \in 1..k
  PROVE  LET to == RouteTo(servers, name, n)
             result == Result(servers, name, n)
         IN /\ to.kind = "Route" <=> result.kind = "Language"
            /\ to.kind = "AmbiguousLanguages" <=>
                 result.kind = "AmbiguousLanguages"
            /\ to.kind = "Route" => to.language = result.language
<1>1. servers[n] \in Servers /\ n \in DOMAIN servers
  OBVIOUS
<1>2. Result(servers, name, n).kind
        \in {"AmbiguousLanguages", "NoMatch", "Language"}
  BY <1>1, LanguageIs DEF Result
<1> QED
  BY <1>1, <1>2 DEF RouteTo, Result

\* The route without a name, by the routes with one.
LEMMA RouteIs ==
  ASSUME NEW k \in Nat, NEW servers \in [1..k -> Servers], NEW name \in Names
  PROVE  LET unnamed == Route(servers, name)
             routed == {n \in 1..k : RouteTo(servers, name, n).kind = "Route"}
             torn == {n \in 1..k : RouteTo(servers, name, n).kind
                                     = "AmbiguousLanguages"}
         IN /\ unnamed.kind = "AmbiguousLanguages" <=> torn # {}
            /\ unnamed.kind = "Route" <=> torn = {} /\ Cardinality(routed) = 1
            /\ unnamed.kind = "NoMatch" <=> torn \cup routed = {}
            /\ unnamed.kind = "Route" =>
                 \E n \in routed : unnamed = RouteTo(servers, name, n)
<1> DEFINE unnamed == Route(servers, name)
           routed == {n \in 1..k : RouteTo(servers, name, n).kind = "Route"}
           torn == {n \in 1..k : RouteTo(servers, name, n).kind
                                   = "AmbiguousLanguages"}
           matches == {n \in DOMAIN servers : Speaks(servers[n], name)}
           only == CHOOSE n \in matches : TRUE
<1> SUFFICES
      /\ unnamed.kind = "AmbiguousLanguages" <=> torn # {}
      /\ unnamed.kind = "Route" <=> torn = {} /\ Cardinality(routed) = 1
      /\ unnamed.kind = "NoMatch" <=> torn \cup routed = {}
      /\ unnamed.kind = "Route" =>
           \E n \in routed : unnamed = RouteTo(servers, name, n)
  OBVIOUS
<1>1. matches = routed
  BY RouteToIs DEF Speaks, Result
<1>2. torn # {} <=> \E n \in DOMAIN servers :
                      LanguageIdForPath(servers[n], name).kind
                        = "AmbiguousLanguages"
  BY RouteToIs DEF Result
<1>3. IsFiniteSet(routed) /\ Cardinality(routed) \in Nat
  <2>1. IsFiniteSet(1..k)
    BY FS_Interval
  <2> QED
    BY <2>1, FS_Subset, FS_CardinalityType
<1>8. unnamed =
        IF \E n \in DOMAIN servers :
             LanguageIdForPath(servers[n], name).kind = "AmbiguousLanguages"
          THEN [kind |-> "AmbiguousLanguages"]
        ELSE CASE matches = {} -> [kind |-> "NoMatch"]
               [] Cardinality(matches) = 1 -> RouteTo(servers, name, only)
               [] OTHER -> [kind |-> "AmbiguousServers", servers |-> matches]
  BY DEF Route
<1>9. only \in matches \/ matches = {}
  BY Zenon
<1>10. Cardinality({}) = 0
  BY FS_EmptySet
<1>11. /\ \A n \in routed : RouteTo(servers, name, n).kind = "Route"
       /\ routed # {} \/ Cardinality(routed) = 0
  BY <1>10
<1> HIDE DEF matches, only, routed, torn
<1>4. CASE torn # {}
  <2>1. unnamed = [kind |-> "AmbiguousLanguages"]
    BY <1>2, <1>4, <1>8
  <2> QED
    BY <1>4, <2>1
<1>5. CASE torn = {} /\ routed = {}
  <2>0. matches = {} /\ Cardinality(matches) # 1
    BY <1>1, <1>5, <1>10
  <2>1. unnamed = [kind |-> "NoMatch"]
    BY <1>2, <1>5, <1>8, <2>0
  <2>2. Cardinality(routed) # 1
    BY <1>5, <1>10
  <2> QED
    BY <1>5, <2>1, <2>2
<1>6. CASE torn = {} /\ routed # {} /\ Cardinality(routed) = 1
  <2>1. unnamed = RouteTo(servers, name, only)
    BY <1>1, <1>2, <1>6, <1>8
  <2>2. only \in routed
    BY <1>1, <1>6, <1>9
  <2>3. unnamed.kind = "Route"
    BY <1>11, <2>1, <2>2
  <2> QED
    BY <1>6, <2>1, <2>2, <2>3
<1>7. CASE torn = {} /\ routed # {} /\ Cardinality(routed) # 1
  <2>1. unnamed = [kind |-> "AmbiguousServers", servers |-> matches]
    BY <1>1, <1>2, <1>7, <1>8
  <2>2. unnamed.kind = "AmbiguousServers"
    BY <2>1
  <2> QED
    BY <1>7, <2>2
<1> QED
  BY <1>4, <1>5, <1>6, <1>7

-----------------------------------------------------------------------------
(* Code units                                                              *)

Texts == Seq(Chars)
PositionsOf == [line : Nat, character : Nat]

\* A character counts at least one unit.
LEMMA UnitsPositive ==
  ASSUME NEW char \in Chars, NEW e \in Encodings
  PROVE  Units(char, e) \in Nat \ {0}
BY DEF Chars, Encodings, Units

\* A bounded set of numbers has a greatest one.
LEMMA GreatestExists ==
  ASSUME NEW S \in SUBSET Nat, S # {}, NEW b \in Nat, \A s \in S : s <= b
  PROVE  \E n \in S : \A m \in S : m <= n
<1> DEFINE below == {b - s : s \in S}
<1>1. below \in SUBSET Nat /\ below # {}
  <2>1. \A s \in S : b - s \in Nat
    OBVIOUS
  <2>2. PICK s \in S : TRUE
    OBVIOUS
  <2> QED
    BY <2>1, <2>2
<1>2. PICK least \in below : \A m \in below : least <= m
  BY <1>1, LeastExists
<1>3. PICK n \in S : least = b - n
  BY <1>2
<1>4. ASSUME NEW m \in S PROVE m <= n
  <2>1. b - m \in below
    OBVIOUS
  <2>2. b - n <= b - m
    BY <1>2, <1>3, <2>1
  <2> QED
    BY <2>2
<1> QED
  BY <1>4

\* The recursion of UnitsTo.
Sums(f, text, e) ==
  f = [n \in 0..Len(text) |->
         IF n = 0 THEN 0 ELSE f[n - 1] + Units(text[n], e)]

\* The recursion of UnitsTo, unfolded.
LEMMA SumsAre ==
  ASSUME NEW text \in Texts, NEW e \in Encodings
  PROVE  LET u == UnitsTo(text, e) IN
         /\ u \in [0..Len(text) -> Nat]
         /\ u[0] = 0
         /\ \A n \in 1..Len(text) : u[n] = u[n - 1] + Units(text[n], e)
<1>1. PICK l \in Nat : l = Len(text)
  BY DEF Texts
<1> DEFINE step == [p \in (1..l) \X Nat |-> p[2] + Units(text[p[1]], e)]
<1>2. \A n \in 1..l : text[n] \in Chars
  BY <1>1 DEF Texts
<1>3. \A n \in 1..l : Units(text[n], e) \in Nat
  BY <1>2, UnitsPositive
<1>4. step \in [(1..l) \X Nat -> Nat]
  BY <1>3
<1>5. PICK f \in [0..l -> Nat] : IsRun(f, 0, step, l)
  <2> HIDE DEF step
  <2> QED
    BY <1>4, RunExists
<1>6. \A n \in 0..l : f[n] = IF n = 0 THEN 0 ELSE step[<<n, f[n - 1]>>]
  BY <1>5 DEF IsRun
<1> DEFINE g == [n \in 0..l |->
                   IF n = 0 THEN 0 ELSE f[n - 1] + Units(text[n], e)]
<1>7. ASSUME NEW n \in 0..l PROVE f[n] = g[n]
  <2>1. CASE n = 0
    BY <1>6, <2>1
  <2>2. CASE n # 0
    <3>1. n \in 1..l /\ n - 1 \in 0..l
      BY <2>2
    <3>2. f[n - 1] \in Nat
      BY <3>1
    <3>3. f[n] = step[<<n, f[n - 1]>>]
      <4> HIDE DEF step
      <4> QED
        BY <1>6, <2>2
    <3> QED
      BY <2>2, <3>1, <3>2, <3>3
  <2> QED
    BY <2>1, <2>2
<1>8. f = g
  <2> HIDE DEF step
  <2> QED
    BY <1>7
<1>9. \E h : Sums(h, text, e)
  <2>1. Sums(f, text, e)
    BY <1>1, <1>8 DEF Sums
  <2> QED
    BY <2>1
<1> DEFINE u == CHOOSE h : Sums(h, text, e)
<1>10. Sums(u, text, e)
  BY <1>9, Zenon
<1>11. UnitsTo(text, e) = u
  BY DEF UnitsTo, Sums
<1> HIDE DEF u
<1>12. u = [n \in 0..l |-> IF n = 0 THEN 0 ELSE u[n - 1] + Units(text[n], e)]
  BY <1>1, <1>10 DEF Sums
<1>13. \A n \in 0..l : u[n] = IF n = 0 THEN 0
                              ELSE u[n - 1] + Units(text[n], e)
  BY <1>12
<1>14. u[0] = 0 /\ \A n \in 1..l : u[n] = u[n - 1] + Units(text[n], e)
  <2>1. \A n \in 1..l : n \in 0..l /\ n # 0
    OBVIOUS
  <2> QED
    BY <1>13, <2>1
<1> DEFINE typed == {n \in 0..l : u[n] \in Nat}
<1>15. \A n \in 0..l : n \in typed
  <2>1. 0 \in typed
    BY <1>14
  <2>2. \A n \in 1..l : n - 1 \in typed => n \in typed
    BY <1>3, <1>14
  <2> HIDE DEF typed
  <2> QED
    BY <2>1, <2>2, Induction
<1>16. u \in [0..l -> Nat]
  <2>1. \A n \in 0..l : u[n] \in Nat
    BY <1>15
  <2> QED
    BY <1>12, <2>1
<1> QED
  BY <1>1, <1>11, <1>14, <1>16

\* A later place is behind more units.
LEMMA SumsGrow ==
  ASSUME NEW text \in Texts, NEW e \in Encodings
  PROVE  \A m, n \in 0..Len(text) :
           m < n => UnitsTo(text, e)[m] < UnitsTo(text, e)[n]
<1>1. PICK l \in Nat : l = Len(text)
  BY DEF Texts
<1> DEFINE u == UnitsTo(text, e)
           grows == {n \in 0..l : \A m \in 0..l : m < n => u[m] < u[n]}
<1>2. /\ u \in [0..l -> Nat]
      /\ \A n \in 1..l : u[n] = u[n - 1] + Units(text[n], e)
  BY <1>1, SumsAre
<1>3. \A n \in 1..l : Units(text[n], e) \in Nat \ {0}
  <2>1. \A n \in 1..l : text[n] \in Chars
    BY <1>1 DEF Texts
  <2> QED
    BY <2>1, UnitsPositive
<1> HIDE DEF u
<1>4. 0 \in grows
  OBVIOUS
<1>5. ASSUME NEW n \in 1..l, n - 1 \in grows PROVE n \in grows
  <2>1. u[n - 1] < u[n]
    <3>1. n - 1 \in 0..l /\ n \in 0..l
      OBVIOUS
    <3>2. u[n - 1] \in Nat /\ u[n] \in Nat
      BY <1>2, <3>1
    <3> QED
      BY <1>2, <1>3, <3>2
  <2>2. ASSUME NEW m \in 0..l, m < n PROVE u[m] < u[n]
    <3>1. CASE m = n - 1
      BY <2>1, <3>1
    <3>2. CASE m # n - 1
      <4>1. m < n - 1 /\ n - 1 \in 0..l /\ n \in 0..l
        BY <2>2, <3>2
      <4>2. u[m] < u[n - 1]
        BY <1>5, <4>1
      <4>3. u[m] \in Nat /\ u[n - 1] \in Nat /\ u[n] \in Nat
        BY <1>2, <4>1
      <4> QED
        BY <2>1, <4>2, <4>3
    <3> QED
      BY <3>1, <3>2
  <2> QED
    BY <2>2
<1>6. \A n \in 0..l : n \in grows
  <2> HIDE DEF grows
  <2> QED
    BY <1>4, <1>5, Induction
<1> QED
  BY <1>1, <1>6 DEF u

\* What lies between two places is a number, and one place only is that far
\* from the first.
LEMMA CodeUnitsAre ==
  ASSUME NEW text \in Texts, NEW e \in Encodings,
         NEW s \in 0..Len(text), NEW m \in s..Len(text)
  PROVE  /\ CodeUnits(text, s, m, e) \in Nat
         /\ \A n \in s..Len(text) :
              /\ m = n <=> CodeUnits(text, s, m, e) = CodeUnits(text, s, n, e)
              /\ m < n <=> CodeUnits(text, s, m, e) < CodeUnits(text, s, n, e)
<1>1. PICK l \in Nat : l = Len(text)
  BY DEF Texts
<1> DEFINE u == UnitsTo(text, e)
<1>2. /\ u \in [0..l -> Nat]
      /\ \A i, j \in 0..l : i < j => u[i] < u[j]
  BY <1>1, SumsAre, SumsGrow
<1> HIDE DEF u
<1>3. s \in 0..l /\ m \in 0..l /\ u[s] \in Nat /\ u[m] \in Nat
  BY <1>1, <1>2
<1>4. u[s] <= u[m]
  BY <1>1, <1>2, <1>3
<1>5. CodeUnits(text, s, m, e) = u[m] - u[s]
  BY DEF CodeUnits, u
<1>6. ASSUME NEW n \in s..l
      PROVE  /\ m = n <=> CodeUnits(text, s, m, e) = CodeUnits(text, s, n, e)
             /\ m < n <=> CodeUnits(text, s, m, e) < CodeUnits(text, s, n, e)
  <2>1. n \in 0..l /\ u[n] \in Nat
    BY <1>2, <1>3
  <2>2. CodeUnits(text, s, n, e) = u[n] - u[s]
    BY DEF CodeUnits, u
  <2>3. /\ m < n => u[m] < u[n]
        /\ n < m => u[n] < u[m]
    BY <1>2, <1>3, <2>1
  <2> QED
    BY <1>3, <1>5, <2>1, <2>2, <2>3
<1> QED
  BY <1>1, <1>3, <1>4, <1>5, <1>6

-----------------------------------------------------------------------------
(* Lines                                                                   *)

\* The breaks behind a place, and the first of them.
LEMMA BreaksAre ==
  ASSUME NEW text \in Texts, NEW s \in 0..Len(text)
  PROVE  /\ Breaks(text, 0) \in SUBSET (1..Len(text))
         /\ Breaks(text, s) = {i \in Breaks(text, 0) : i > s}
         /\ Breaks(text, s) # {} =>
              /\ FirstBreak(text, s) \in Breaks(text, s)
              /\ \A j \in Breaks(text, s) : FirstBreak(text, s) <= j
<1>1. PICK l \in Nat : l = Len(text)
  BY DEF Texts
<1>2. /\ Breaks(text, 0) \in SUBSET (1..l)
      /\ Breaks(text, s) = {i \in Breaks(text, 0) : i > s}
  BY <1>1 DEF Breaks
<1>3. ASSUME Breaks(text, s) # {}
      PROVE  \E i \in Breaks(text, s) : \A j \in Breaks(text, s) : i <= j
  <2>1. Breaks(text, s) \in SUBSET Nat
    BY <1>2
  <2> QED
    BY <1>3, <2>1, LeastExists
<1>4. Breaks(text, s) # {} =>
        /\ FirstBreak(text, s) \in Breaks(text, s)
        /\ \A j \in Breaks(text, s) : FirstBreak(text, s) <= j
  BY <1>3, Zenon DEF FirstBreak
<1> QED
  BY <1>1, <1>2, <1>4

\* A CR that is half of a break.
Joined(text, i) == text[i] = "CR" /\ i < Len(text) /\ text[i + 1] = "LF"

\* Where lines begin.
LEMMA LineStartsAre ==
  ASSUME NEW text \in Texts
  PROVE  /\ 0 \in LineStarts(text)
         /\ LineStarts(text) \in SUBSET (0..Len(text))
         /\ \A i \in 1..Len(text) :
              i \in LineStarts(text) <=>
                i \in Breaks(text, 0) /\ ~Joined(text, i)
<1>1. PICK l \in Nat : l = Len(text)
  BY DEF Texts
<1>2. Breaks(text, 0) \in SUBSET (1..l)
  BY <1>1, BreaksAre
<1> QED
  BY <1>1, <1>2 DEF LineStarts, Joined

\* From the begin of a line, AfterBreak is the begin of the next.
LEMMA NextLineIs ==
  ASSUME NEW text \in Texts, NEW s \in LineStarts(text)
  PROVE  /\ Breaks(text, s) = {} => \A r \in LineStarts(text) : r <= s
         /\ Breaks(text, s) # {} =>
              /\ AfterBreak(text, s) \in LineStarts(text)
              /\ s < AfterBreak(text, s)
              /\ \A r \in LineStarts(text) : s < r => AfterBreak(text, s) <= r
              /\ EndOfLine(text, s) \in s..(AfterBreak(text, s) - 1)
              /\ \A i \in (EndOfLine(text, s) + 1)..AfterBreak(text, s) :
                   i \in Breaks(text, 0)
<1>1. PICK l \in Nat : l = Len(text)
  BY DEF Texts
<1> DEFINE B == Breaks(text, 0)
           starts == LineStarts(text)
           i == FirstBreak(text, s)
           after == AfterBreak(text, s)
<1>2. s \in 0..l /\ starts \in SUBSET (0..l)
  BY <1>1, LineStartsAre
<1>3. /\ B \in SUBSET (1..l)
      /\ Breaks(text, s) = {j \in B : j > s}
      /\ Breaks(text, s) # {} =>
           i \in B /\ i > s /\ \A j \in B : j > s => i <= j
  BY <1>1, <1>2, BreaksAre
<1>4. \A r \in starts : r > s => r \in B
  BY <1>1, <1>2, LineStartsAre
<1>5. CASE Breaks(text, s) = {}
  <2>1. \A r \in starts : ~(r > s)
    BY <1>3, <1>4, <1>5
  <2>2. \A r \in starts : r <= s
    BY <1>2, <2>1
  <2> QED
    BY <1>5, <2>2
<1>6. CASE Breaks(text, s) # {}
  <2>1. i \in 1..l /\ i > s /\ i \in B /\ \A j \in B : j > s => i <= j
    BY <1>3, <1>6
  <2>2. EndOfLine(text, s) = i - 1
    BY <1>6 DEF EndOfLine
  <2>3. CASE Joined(text, i)
    <3>1. i + 1 \in 1..l /\ text[i + 1] = "LF" /\ i < l
      BY <1>1, <2>1, <2>3 DEF Joined
    <3>2. i + 1 \in B
      BY <1>1, <3>1 DEF Breaks
    <3>3. i + 1 \in starts
      BY <1>1, <3>1, <3>2, LineStartsAre DEF Joined
    <3>4. i \notin starts
      BY <1>1, <2>1, <2>3, LineStartsAre
    <3>5. after = i + 1
      <4>1. BreakLength(text, i) = 2
        BY <2>3 DEF BreakLength, Joined
      <4> HIDE DEF i
      <4> QED
        BY <1>1, <2>1, <4>1 DEF AfterBreak, i
    <3>6. ASSUME NEW r \in starts, s < r PROVE i + 1 <= r
      <4>1. r \in B /\ r \in 0..l /\ r > s
        BY <1>2, <1>4, <3>6
      <4>2. i <= r /\ r # i
        BY <2>1, <3>4, <4>1
      <4> QED
        BY <2>1, <4>1, <4>2
    <3> HIDE DEF i
    <3>7. \A k \in (i - 1 + 1)..(i + 1) : k = i \/ k = i + 1
      BY <2>1
    <3>8. i - 1 \in s..i /\ i + 1 - 1 = i /\ s < i + 1
      BY <1>2, <2>1
    <3> HIDE DEF after
    <3>9. /\ after \in starts /\ s < after
          /\ \A r \in starts : s < r => after <= r
          /\ EndOfLine(text, s) \in s..(after - 1)
          /\ \A k \in (EndOfLine(text, s) + 1)..after : k \in B
      BY <2>1, <2>2, <3>2, <3>3, <3>5, <3>6, <3>7, <3>8
    <3> QED
      BY <1>6, <3>9 DEF after
  <2>4. CASE ~Joined(text, i)
    <3>1. i \in starts
      BY <1>1, <2>1, <2>4, LineStartsAre
    <3>2. after = i
      <4>1. BreakLength(text, i) = 1
        BY <2>4 DEF BreakLength, Joined
      <4> HIDE DEF i
      <4> QED
        BY <1>1, <2>1, <4>1 DEF AfterBreak, i
    <3>3. ASSUME NEW r \in starts, s < r PROVE i <= r
      <4>1. r \in B /\ r \in 0..l /\ r > s
        BY <1>2, <1>4, <3>3
      <4> QED
        BY <2>1, <4>1
    <3> HIDE DEF i
    <3>4. \A k \in (i - 1 + 1)..i : k = i
      BY <2>1
    <3>5. i - 1 \in s..(i - 1) /\ s < i
      BY <1>2, <2>1
    <3> HIDE DEF after
    <3>6. /\ after \in starts /\ s < after
          /\ \A r \in starts : s < r => after <= r
          /\ EndOfLine(text, s) \in s..(after - 1)
          /\ \A k \in (EndOfLine(text, s) + 1)..after : k \in B
      BY <2>1, <2>2, <3>1, <3>2, <3>3, <3>4, <3>5
    <3> QED
      BY <1>6, <3>6 DEF after
  <2> QED
    BY <2>3, <2>4
<1> QED
  BY <1>5, <1>6

\* The line of a place begins at or before it.
LEMMA StartIs ==
  ASSUME NEW text \in Texts, NEW n \in 0..Len(text)
  PROVE  /\ StartOf(text, n) \in LineStarts(text)
         /\ StartOf(text, n) <= n
         /\ \A r \in LineStarts(text) : r <= n => r <= StartOf(text, n)
<1>1. PICK l \in Nat : l = Len(text)
  BY DEF Texts
<1> DEFINE S == {s \in LineStarts(text) : s <= n}
<1>2. 0 \in LineStarts(text) /\ LineStarts(text) \in SUBSET (0..l)
  BY <1>1, LineStartsAre
<1>3. S \in SUBSET Nat /\ 0 \in S /\ n \in Nat
  BY <1>1, <1>2
<1>4. PICK s \in S : \A r \in S : r <= s
  <2> HIDE DEF S
  <2>1. \A r \in S : r <= n
    BY DEF S
  <2> QED
    BY <1>3, <2>1, GreatestExists
<1>5. \E g \in LineStarts(text) :
        g <= n /\ \A r \in LineStarts(text) : r <= n => r <= g
  BY <1>4
<1> QED
  BY <1>5, Zenon DEF StartOf

\* A line ends before the next begins and before its break.
LEMMA EndOfLineIs ==
  ASSUME NEW text \in Texts, NEW s \in LineStarts(text)
  PROVE  /\ EndOfLine(text, s) \in s..Len(text)
         /\ \A r \in LineStarts(text) : r > s => r > EndOfLine(text, s)
         /\ \A i \in Breaks(text, 0) : i > s => i > EndOfLine(text, s)
<1>1. PICK l \in Nat : l = Len(text)
  BY DEF Texts
<1>2. s \in 0..l /\ LineStarts(text) \in SUBSET (0..l)
  BY <1>1, LineStartsAre
<1>3. /\ Breaks(text, 0) \in SUBSET (1..l)
      /\ Breaks(text, s) = {j \in Breaks(text, 0) : j > s}
      /\ Breaks(text, s) # {} =>
           /\ FirstBreak(text, s) \in Breaks(text, s)
           /\ \A j \in Breaks(text, s) : FirstBreak(text, s) <= j
  BY <1>1, <1>2, BreaksAre
<1>4. \A r \in LineStarts(text) : r > s => r \in Breaks(text, 0)
  BY <1>1, <1>2, LineStartsAre
<1>5. CASE Breaks(text, s) = {}
  <2>1. EndOfLine(text, s) = l
    BY <1>1, <1>5 DEF EndOfLine
  <2> QED
    BY <1>1, <1>2, <1>3, <1>4, <1>5, <2>1
<1>6. CASE Breaks(text, s) # {}
  <2> DEFINE i == FirstBreak(text, s)
  <2>1. EndOfLine(text, s) = i - 1
    BY <1>6 DEF EndOfLine
  <2>2. i \in 1..l /\ i > s /\ \A j \in Breaks(text, 0) : j > s => i <= j
    BY <1>3, <1>6
  <2> HIDE DEF i
  <2>3. i - 1 \in s..l
    BY <1>2, <2>2
  <2>4. ASSUME NEW j \in Breaks(text, 0), j > s PROVE j > i - 1
    <3>1. j \in 1..l /\ i <= j
      BY <1>3, <2>2, <2>4
    <3> QED
      BY <2>2, <3>1
  <2> QED
    BY <1>1, <1>4, <2>1, <2>3, <2>4
<1> QED
  BY <1>5, <1>6

\* The places of a text are those of its lines.
LEMMA PlaceIsOfLine ==
  ASSUME NEW text \in Texts, NEW n \in Places(text)
  PROVE  /\ n \in 0..Len(text)
         /\ StartOf(text, n) \in LineStarts(text)
         /\ n \in StartOf(text, n)..EndOfLine(text, StartOf(text, n))
<1>1. PICK l \in Nat : l = Len(text)
  BY DEF Texts
<1> DEFINE s == StartOf(text, n)
           i == FirstBreak(text, s)
<1>2. n \in 0..l /\ \A b \in (s + 1)..n : b \notin Breaks(text, 0)
  BY <1>1 DEF Places
<1>3. s \in LineStarts(text) /\ s <= n
  BY <1>1, <1>2, StartIs
<1>4. s \in 0..l
  BY <1>1, <1>3, LineStartsAre
<1>5. CASE Breaks(text, s) = {}
  <2>1. EndOfLine(text, s) = l
    BY <1>1, <1>5 DEF EndOfLine
  <2> QED
    BY <1>1, <1>2, <1>3, <1>4, <2>1
<1>6. CASE Breaks(text, s) # {}
  <2>1. EndOfLine(text, s) = i - 1
    BY <1>6 DEF EndOfLine
  <2>2. i \in 1..l /\ i > s /\ i \in Breaks(text, 0)
    <3>1. Breaks(text, 0) \in SUBSET (1..l)
      BY <1>1, BreaksAre
    <3> QED
      BY <1>1, <1>4, <1>6, <3>1, BreaksAre
  <2> HIDE DEF i, s
  <2>3. ~(i <= n)
    BY <1>2, <1>4, <2>2
  <2>4. n \in s..(i - 1)
    BY <1>2, <1>3, <1>4, <2>2, <2>3
  <2> QED
    BY <1>1, <1>2, <1>3, <2>1, <2>4 DEF s
<1> QED
  BY <1>5, <1>6

\* From where a line begins to where it ends are the places of the line.
LEMMA PlaceOfLine ==
  ASSUME NEW text \in Texts, NEW s \in LineStarts(text),
         NEW n \in s..EndOfLine(text, s)
  PROVE  n \in Places(text) /\ StartOf(text, n) = s
<1>1. PICK l \in Nat : l = Len(text)
  BY DEF Texts
<1>2. s \in 0..l
  BY <1>1, LineStartsAre
<1> DEFINE g == StartOf(text, n)
           end == EndOfLine(text, s)
<1>3. /\ end \in s..l
      /\ \A r \in LineStarts(text) : r > s => r > end
      /\ \A i \in Breaks(text, 0) : i > s => i > end
  BY <1>1, EndOfLineIs
<1>4. n \in 0..l /\ s <= n /\ n <= end
  BY <1>2, <1>3
<1>5. /\ g \in LineStarts(text) /\ g <= n
      /\ \A r \in LineStarts(text) : r <= n => r <= g
  BY <1>1, <1>4, StartIs
<1>6. g \in 0..l /\ s <= g
  BY <1>1, <1>4, <1>5, LineStartsAre
<1> HIDE DEF g, end
<1>7. g = s
  BY <1>2, <1>3, <1>4, <1>5, <1>6
<1>8. \A i \in (s + 1)..n : i \notin Breaks(text, 0)
  BY <1>2, <1>3, <1>4
<1> QED
  BY <1>1, <1>4, <1>7, <1>8 DEF Places, g

\* The number of a place's line.
Rank(text, place) ==
  Cardinality({s \in LineStarts(text) : 0 < s /\ s <= place})

\* A rank counts the lines that begin before, and the next line has the
\* next rank.
LEMMA RankIs ==
  ASSUME NEW text \in Texts
  PROVE  /\ Rank(text, 0) = 0
         /\ \A n \in 0..Len(text) : Rank(text, n) \in 0..Len(text)
         /\ \A s \in LineStarts(text) :
              Breaks(text, s) # {} =>
                Rank(text, AfterBreak(text, s)) = Rank(text, s) + 1
         /\ \A n \in 0..Len(text) :
              Rank(text, n) = Rank(text, StartOf(text, n))
<1>1. PICK l \in Nat : l = Len(text)
  BY DEF Texts
<1> DEFINE T == LineStarts(text)
           upto(n) == {s \in T : 0 < s /\ s <= n}
<1>2. T \in SUBSET (0..l)
  BY <1>1, LineStartsAre
<1>3. IsFiniteSet(1..l) /\ Cardinality(1..l) = l
  BY FS_Interval
<1>4. \A n : upto(n) \in SUBSET (1..l)
  BY <1>2
<1>5. \A n : IsFiniteSet(upto(n)) /\ Cardinality(upto(n)) \in 0..l
  <2> HIDE DEF upto
  <2> SUFFICES ASSUME NEW n
               PROVE  IsFiniteSet(upto(n)) /\ Cardinality(upto(n)) \in 0..l
    OBVIOUS
  <2>1. IsFiniteSet(upto(n)) /\ Cardinality(upto(n)) <= l
    BY <1>3, <1>4, FS_Subset
  <2>2. Cardinality(upto(n)) \in Nat
    BY <2>1, FS_CardinalityType
  <2> QED
    BY <2>1, <2>2
<1>6. Rank(text, 0) = 0
  <2>1. upto(0) = {}
    BY <1>2
  <2> QED
    BY <2>1, FS_EmptySet DEF Rank
<1>7. ASSUME NEW s \in T, Breaks(text, s) # {}
      PROVE  Rank(text, AfterBreak(text, s)) = Rank(text, s) + 1
  <2> DEFINE after == AfterBreak(text, s)
  <2>1. /\ after \in T /\ s < after
        /\ \A r \in T : s < r => after <= r
    BY <1>7, NextLineIs
  <2> HIDE DEF after
  <2>2. s \in 0..l /\ after \in 0..l
    BY <1>2, <2>1
  <2>3. upto(after) = upto(s) \cup {after}
    <3>1. ASSUME NEW r \in T PROVE r <= after <=> (r <= s \/ r = after)
      <4>1. r \in 0..l
        BY <1>2
      <4> QED
        BY <2>1, <2>2, <4>1
    <3>2. after > 0
      BY <2>1, <2>2
    <3> QED
      BY <2>1, <3>1, <3>2
  <2>4. after \notin upto(s)
    BY <2>1, <2>2
  <2> HIDE DEF upto
  <2>5. Cardinality(upto(s) \cup {after}) = Cardinality(upto(s)) + 1
    BY <1>5, <2>4, FS_AddElement
  <2> QED
    BY <2>3, <2>5 DEF Rank, upto, after
<1>8. ASSUME NEW n \in 0..l PROVE Rank(text, n) = Rank(text, StartOf(text, n))
  <2> DEFINE g == StartOf(text, n)
  <2>1. g \in T /\ g <= n /\ \A r \in T : r <= n => r <= g
    BY <1>1, StartIs
  <2> HIDE DEF g
  <2>2. g \in 0..l
    BY <1>2, <2>1
  <2>3. \A r \in T : r <= n <=> r <= g
    <3> SUFFICES ASSUME NEW r \in T PROVE r <= n <=> r <= g
      OBVIOUS
    <3>1. r \in 0..l
      BY <1>2
    <3> QED
      BY <2>1, <2>2, <3>1
  <2>4. upto(n) = upto(g)
    BY <2>3
  <2> QED
    BY <2>4 DEF Rank, g
<1> QED
  BY <1>1, <1>5, <1>6, <1>7, <1>8 DEF Rank

\* The recursion of Starts.
Walks(f, text) ==
  f = [n \in 0..Len(text) |-> IF n = 0 THEN 0 ELSE NextLine(text, f[n - 1])]

\* The recursion of Starts, unfolded.
LEMMA StartsAre ==
  ASSUME NEW text \in Texts
  PROVE  LET start == Starts(text) IN
         /\ start \in [0..Len(text) -> LineStarts(text) \cup {NoLine}]
         /\ start[0] = 0
         /\ \A n \in 1..Len(text) : start[n] = NextLine(text, start[n - 1])
<1>1. PICK l \in Nat : l = Len(text)
  BY DEF Texts
<1> DEFINE X == LineStarts(text) \cup {NoLine}
           step == [p \in (1..l) \X X |-> NextLine(text, p[2])]
<1>2. \A x \in X : NextLine(text, x) \in X
  BY NextLineIs DEF NextLine
<1>3. step \in [(1..l) \X X -> X]
  <2> HIDE DEF X
  <2> QED
    BY <1>2
<1>4. 0 \in X
  BY LineStartsAre
<1>5. PICK f \in [0..l -> X] : IsRun(f, 0, step, l)
  <2> HIDE DEF step, X
  <2> QED
    BY <1>3, <1>4, RunExists
<1> DEFINE Good(h) == /\ \A n \in 0..l : h[n] \in X
                      /\ h[0] = 0
                      /\ \A n \in 1..l : h[n] = NextLine(text, h[n - 1])
<1>6. Walks(f, text)
  <2> DEFINE g == [n \in 0..l |->
                     IF n = 0 THEN 0 ELSE NextLine(text, f[n - 1])]
  <2>1. \A n \in 0..l : f[n] = IF n = 0 THEN 0 ELSE step[<<n, f[n - 1]>>]
    BY <1>5 DEF IsRun
  <2>2. ASSUME NEW n \in 0..l PROVE f[n] = g[n]
    <3>1. CASE n = 0
      BY <2>1, <3>1
    <3>2. CASE n # 0
      <4>1. n \in 1..l /\ n - 1 \in 0..l
        BY <3>2
      <4>2. f[n - 1] \in X
        <5> HIDE DEF X
        <5> QED
          BY <4>1
      <4>3. f[n] = step[<<n, f[n - 1]>>]
        <5> HIDE DEF step
        <5> QED
          BY <2>1, <3>2
      <4> HIDE DEF X
      <4> QED
        BY <3>2, <4>1, <4>2, <4>3
    <3> QED
      BY <3>1, <3>2
  <2>3. f = g
    <3> HIDE DEF step, X
    <3> QED
      BY <2>2
  <2> QED
    BY <1>1, <2>3 DEF Walks
<1> DEFINE u == CHOOSE h : Walks(h, text)
<1>7. Walks(u, text)
  <2>1. \E h : Walks(h, text)
    BY <1>6
  <2> QED
    BY <2>1, Zenon
<1>8. Starts(text) = u
  BY DEF Starts, Walks
<1> HIDE DEF u
<1>9. u = [n \in 0..l |-> IF n = 0 THEN 0 ELSE NextLine(text, u[n - 1])]
  BY <1>1, <1>7 DEF Walks
<1>10. \A n \in 0..l : u[n] = IF n = 0 THEN 0 ELSE NextLine(text, u[n - 1])
  BY <1>9
<1>11. u[0] = 0 /\ \A n \in 1..l : u[n] = NextLine(text, u[n - 1])
  <2>1. \A n \in 1..l : n \in 0..l /\ n # 0
    OBVIOUS
  <2> QED
    BY <1>10, <2>1
<1> DEFINE typed == {n \in 0..l : u[n] \in X}
<1>12. \A n \in 0..l : n \in typed
  <2>1. 0 \in typed
    BY <1>4, <1>11
  <2>2. \A n \in 1..l : n - 1 \in typed => n \in typed
    <3> HIDE DEF X
    <3> QED
      BY <1>2, <1>11
  <2> HIDE DEF typed
  <2> QED
    BY <2>1, <2>2, Induction
<1>13. u \in [0..l -> X]
  <2> HIDE DEF X
  <2>1. \A n \in 0..l : u[n] \in X
    BY <1>12
  <2> QED
    BY <1>9, <2>1
<1> QED
  BY <1>1, <1>8, <1>11, <1>13

\* The walk over the lines meets each at its rank.
LEMMA LinesAreRanked ==
  ASSUME NEW text \in Texts
  PROVE  /\ \A n \in 0..Len(text) :
              Starts(text)[n] # NoLine =>
                /\ Starts(text)[n] \in LineStarts(text)
                /\ Rank(text, Starts(text)[n]) = n
         /\ \A s \in LineStarts(text) :
              /\ Rank(text, s) \in 0..Len(text)
              /\ Starts(text)[Rank(text, s)] = s
<1>1. PICK l \in Nat : l = Len(text)
  BY DEF Texts
<1> DEFINE T == LineStarts(text)
           start == Starts(text)
<1>2. /\ start \in [0..l -> T \cup {NoLine}]
      /\ start[0] = 0
      /\ \A n \in 1..l : start[n] = NextLine(text, start[n - 1])
  BY <1>1, StartsAre
<1>3. T \in SUBSET (0..l) /\ 0 \in T
  BY <1>1, LineStartsAre
<1>4. /\ Rank(text, 0) = 0
      /\ \A n \in 0..l : Rank(text, n) \in 0..l
      /\ \A s \in T : Breaks(text, s) # {} =>
           Rank(text, AfterBreak(text, s)) = Rank(text, s) + 1
  BY <1>1, RankIs
<1> HIDE DEF start, T
<1> DEFINE ranked == {n \in 0..l : start[n] # NoLine =>
                                     start[n] \in T /\ Rank(text, start[n]) = n}
<1>5. 0 \in ranked
  BY <1>2, <1>3, <1>4
<1>6. ASSUME NEW n \in 1..l, n - 1 \in ranked PROVE n \in ranked
  <2> SUFFICES ASSUME start[n] # NoLine
               PROVE  start[n] \in T /\ Rank(text, start[n]) = n
    OBVIOUS
  <2>1. start[n - 1] # NoLine /\ Breaks(text, start[n - 1]) # {}
    BY <1>2 DEF NextLine
  <2>2. start[n] = AfterBreak(text, start[n - 1])
    BY <1>2, <2>1 DEF NextLine
  <2>3. start[n - 1] \in T /\ Rank(text, start[n - 1]) = n - 1
    BY <1>6, <2>1
  <2>4. Rank(text, start[n]) = n
    BY <1>4, <2>1, <2>2, <2>3
  <2>5. start[n] \in T
    BY <2>1, <2>2, <2>3, NextLineIs DEF T
  <2> QED
    BY <2>4, <2>5
<1>7. \A n \in 0..l : n \in ranked
  <2> HIDE DEF ranked
  <2> QED
    BY <1>5, <1>6, Induction
<1> DEFINE missing == {s \in T : start[Rank(text, s)] # s}
<1>8. missing = {}
  <2> SUFFICES ASSUME missing # {} PROVE FALSE
    OBVIOUS
  <2>1. missing \in SUBSET Nat
    <3>1. missing \in SUBSET T
      OBVIOUS
    <3> HIDE DEF missing
    <3> QED
      BY <1>3, <3>1
  <2>2. PICK s \in missing : \A m \in missing : s <= m
    <3> HIDE DEF missing
    <3> QED
      BY <2>1, LeastExists
  <2>3. s \in T /\ start[Rank(text, s)] # s /\ s # 0 /\ s \in 1..l
    BY <1>2, <1>3, <1>4, <2>2
  <2> DEFINE p == StartOf(text, s - 1)
  <2>4. p \in T /\ p <= s - 1 /\ \A r \in T : r <= s - 1 => r <= p
    <3>1. s - 1 \in 0..l
      BY <2>3
    <3> QED
      BY <1>1, <3>1, StartIs DEF T
  <2> HIDE DEF p
  <2>5. p \in 0..l
    BY <1>3, <2>4
  <2>6. start[Rank(text, p)] = p
    <3>1. p < s
      BY <2>3, <2>4, <2>5
    <3>2. p \notin missing
      BY <2>2, <2>3, <2>5, <3>1
    <3> QED
      BY <2>4, <3>2
  <2>7. Breaks(text, p) # {}
    <3>1. ~(s <= p)
      BY <2>3, <2>4, <2>5
    <3> QED
      BY <2>3, <2>4, <3>1, NextLineIs DEF T
  <2>8. AfterBreak(text, p) = s
    <3> DEFINE after == AfterBreak(text, p)
    <3>1. /\ after \in T /\ p < after
          /\ \A r \in T : p < r => after <= r
      BY <2>4, <2>7, NextLineIs DEF T
    <3> HIDE DEF after
    <3>2. after \in 0..l /\ p < s
      BY <1>3, <2>3, <2>4, <2>5, <3>1
    <3>3. after <= s
      BY <2>3, <3>1, <3>2
    <3>4. ~(after <= s - 1)
      BY <2>4, <2>5, <3>1, <3>2
    <3>5. after = s
      BY <2>3, <3>2, <3>3, <3>4
    <3> QED
      BY <3>5 DEF after
  <2>9. Rank(text, s) = Rank(text, p) + 1
    BY <1>4, <2>4, <2>7, <2>8
  <2> DEFINE k == Rank(text, p)
  <2>10. k \in 0..l /\ k + 1 \in 0..l
    <3>1. Rank(text, s) \in 0..l
      BY <1>4, <2>3
    <3> QED
      BY <1>4, <2>5, <2>9, <3>1
  <2> HIDE DEF k
  <2>11. k + 1 \in 1..l /\ k + 1 - 1 = k
    BY <2>10
  <2>12. start[k + 1] = NextLine(text, start[k])
    <3>1. PICK m \in 1..l : m = k + 1 /\ m - 1 = k
      BY <2>10, <2>11
    <3>2. start[m] = NextLine(text, start[m - 1])
      BY <1>2
    <3> QED
      BY <3>1, <3>2
  <2>13. start[k] = p /\ Rank(text, s) = k + 1
    BY <2>6, <2>9 DEF k
  <2>14. NextLine(text, p) = s
    <3>1. p # NoLine
      BY <2>5 DEF NoLine
    <3> QED
      BY <2>7, <2>8, <3>1 DEF NextLine
  <2> QED
    BY <2>3, <2>12, <2>13, <2>14
<1>9. \A s \in T : Rank(text, s) \in 0..l /\ start[Rank(text, s)] = s
  BY <1>3, <1>4, <1>8
<1> QED
  BY <1>1, <1>7, <1>9 DEF T, start

-----------------------------------------------------------------------------
(* Conversion                                                              *)

\* The walk along a line finds the place that is so far from its begin, and
\* nothing where there is none.
LEMMA ByteOffsetIs ==
  ASSUME NEW text \in Texts, NEW e \in Encodings,
         NEW s \in LineStarts(text), NEW wanted \in Nat
  PROVE  LET found == ByteOffset(text, s, wanted, e)
             line == s..EndOfLine(text, s)
         IN /\ \A n \in line :
                 CodeUnits(text, s, n, e) = wanted => found = Ok(n)
            /\ IsOk(found) => \E n \in line :
                 found = Ok(n) /\ CodeUnits(text, s, n, e) = wanted
<1>1. PICK l \in Nat : l = Len(text)
  BY DEF Texts
<1> DEFINE found == ByteOffset(text, s, wanted, e)
           line == s..EndOfLine(text, s)
           units(n) == CodeUnits(text, s, n, e)
           enough == {n \in line : units(n) >= wanted}
           first == CHOOSE n \in enough : \A m \in enough : n <= m
<1>2. s \in 0..l /\ line \in SUBSET (s..l) /\ line \in SUBSET Nat
  <2>1. s \in 0..l
    BY <1>1, LineStartsAre
  <2>2. EndOfLine(text, s) \in s..l
    BY <1>1, EndOfLineIs
  <2> QED
    BY <2>1, <2>2
<1>3. \A n \in line : /\ units(n) \in Nat
                      /\ \A m \in line : n < m <=> units(n) < units(m)
  BY <1>1, <1>2, CodeUnitsAre
<1>4. found = CASE enough = {} -> Err("CharacterOutOfBounds")
                [] enough # {} /\ units(first) > wanted ->
                     Err("InvalidCharacterBoundary")
                [] OTHER -> Ok(first)
  BY DEF ByteOffset
<1>5. ASSUME enough # {}
      PROVE  first \in enough /\ \A m \in enough : first <= m
  <2>1. enough \in SUBSET Nat
    BY <1>2
  <2> HIDE DEF enough
  <2>2. \E n \in enough : \A m \in enough : n <= m
    BY <1>5, <2>1, LeastExists
  <2> QED
    BY <2>2, Zenon
<1> SUFFICES
      /\ \A n \in line : units(n) = wanted => found = Ok(n)
      /\ IsOk(found) => \E n \in line : found = Ok(n) /\ units(n) = wanted
  OBVIOUS
<1> HIDE DEF found, line, units, first
<1>6. ASSUME NEW n \in line, units(n) = wanted PROVE found = Ok(n)
  <2>1. n \in enough
    BY <1>6
  <2>2. first \in line /\ units(first) >= wanted /\ first <= n
    BY <1>5, <2>1
  <2>3. ~(first < n)
    BY <1>3, <1>6, <2>2
  <2>4. first = n
    BY <1>2, <2>2, <2>3
  <2> HIDE DEF enough
  <2>5. enough # {} /\ ~(units(first) > wanted)
    BY <1>6, <2>1, <2>4
  <2> QED
    BY <1>4, <2>4, <2>5
<1>7. ASSUME IsOk(found)
      PROVE  \E n \in line : found = Ok(n) /\ units(n) = wanted
  <2>1. enough # {}
    <3> HIDE DEF enough
    <3> QED
      BY <1>4, <1>7 DEF IsOk, Err
  <2>2. ~(units(first) > wanted)
    <3> HIDE DEF enough
    <3> QED
      BY <1>4, <1>7, <2>1 DEF IsOk, Err
  <2>3. found = Ok(first)
    <3> HIDE DEF enough
    <3> QED
      BY <1>4, <2>1, <2>2
  <2>4. first \in line /\ units(first) >= wanted
    BY <1>5, <2>1
  <2>5. units(first) = wanted
    BY <1>3, <2>2, <2>4
  <2> QED
    BY <2>3, <2>4, <2>5
<1> QED
  BY <1>6, <1>7

\* The position of a place.
LEMMA PositionOfIs ==
  ASSUME NEW text \in Texts, NEW n \in Places(text), NEW e \in Encodings
  PROVE  LET p == PositionOf(text, n, e)
             start == StartOf(text, n)
         IN /\ p \in PositionsOf
            /\ p = Position(Rank(text, start), CodeUnits(text, start, n, e))
            /\ p.line = Rank(text, start)
            /\ p.character = CodeUnits(text, start, n, e)
<1>1. PICK l \in Nat : l = Len(text)
  BY DEF Texts
<1> DEFINE start == StartOf(text, n)
<1>2. n \in 0..l /\ start \in LineStarts(text)
      /\ n \in start..EndOfLine(text, start)
  BY <1>1, PlaceIsOfLine
<1>3. start \in 0..l /\ n \in start..l
  <2>1. start \in 0..l
    BY <1>1, <1>2, LineStartsAre
  <2> QED
    BY <1>2, <2>1
<1>4. CodeUnits(text, start, n, e) \in Nat
  BY <1>1, <1>3, CodeUnitsAre
<1>5. Rank(text, start) = Rank(text, n) /\ Rank(text, n) \in 0..l
  BY <1>1, <1>2, RankIs
<1>6. PositionOf(text, n, e)
        = Position(Rank(text, n), CodeUnits(text, start, n, e))
  BY DEF PositionOf, Rank
<1> QED
  <2> HIDE DEF start
  <2> QED
    BY <1>4, <1>5, <1>6 DEF Position, PositionsOf, start

\* A position of a place becomes the position of the same place.
LEMMA ConvertPlace ==
  ASSUME NEW text \in Texts, NEW n \in Places(text),
         NEW s \in Encodings, NEW t \in Encodings
  PROVE  ConvertPosition(text, PositionOf(text, n, s), s, t)
           = Ok(PositionOf(text, n, t))
<1>1. PICK l \in Nat : l = Len(text)
  BY DEF Texts
<1> DEFINE p == PositionOf(text, n, s)
           q == PositionOf(text, n, t)
           start == StartOf(text, n)
<1>2. start \in LineStarts(text) /\ n \in start..EndOfLine(text, start)
  BY PlaceIsOfLine
<1>3. /\ p.line = Rank(text, start)
      /\ p.character = CodeUnits(text, start, n, s)
      /\ p.character \in Nat
      /\ q = Position(Rank(text, start), CodeUnits(text, start, n, t))
  BY PositionOfIs DEF PositionsOf
<1>4. /\ p.line \in 0..l
      /\ Starts(text)[p.line] = start
      /\ start # NoLine
  <2>1. start \in 0..l
    BY <1>1, <1>2, LineStartsAre
  <2> QED
    BY <1>1, <1>2, <1>3, <2>1, LinesAreRanked DEF NoLine
<1> HIDE DEF p, q, start
<1>5. LogicalLine(text, p.line) = Ok(start)
  BY <1>1, <1>4 DEF LogicalLine
<1>6. ByteOffset(text, start, p.character, s) = Ok(n)
  BY <1>2, <1>3, ByteOffsetIs
<1>7. ConvertPosition(text, p, s, t)
        = Ok(Position(p.line, CodeUnits(text, start, n, t)))
  BY <1>5, <1>6 DEF ConvertPosition, Ok, IsOk, Value
<1> QED
  BY <1>3, <1>7 DEF p, q

\* Nothing else is converted.
LEMMA OnlyPlacesConvert ==
  ASSUME NEW text \in Texts, NEW p \in PositionsOf,
         NEW s \in Encodings, NEW t \in Encodings,
         IsOk(ConvertPosition(text, p, s, t))
  PROVE  \E n \in Places(text) : PositionOf(text, n, s) = p
<1>1. PICK l \in Nat : l = Len(text)
  BY DEF Texts
<1> DEFINE line == LogicalLine(text, p.line)
           start == Starts(text)[p.line]
           found == ByteOffset(text, start, p.character, s)
<1>2. IsOk(line) /\ line = Ok(start) /\ p.line \in 0..l /\ start # NoLine
  <2>1. IsOk(line)
    BY DEF ConvertPosition
  <2> QED
    BY <1>1, <2>1 DEF LogicalLine, IsOk, Err
<1>3. IsOk(found)
  <2> HIDE DEF start
  <2>1. Value(line) = start
    BY <1>2 DEF Value, Ok
  <2> QED
    BY <1>2, <2>1 DEF ConvertPosition
<1>4. start \in LineStarts(text) /\ Rank(text, start) = p.line
  BY <1>1, <1>2, LinesAreRanked
<1>5. PICK n \in start..EndOfLine(text, start) :
        CodeUnits(text, start, n, s) = p.character
  <2> HIDE DEF start
  <2>1. p.character \in Nat
    BY DEF PositionsOf
  <2> QED
    BY <1>3, <1>4, <2>1, ByteOffsetIs DEF start
<1>6. n \in Places(text) /\ StartOf(text, n) = start
  BY <1>4, PlaceOfLine
<1>7. PositionOf(text, n, s) = Position(p.line, p.character)
  BY <1>4, <1>5, <1>6, PositionOfIs
<1>8. Position(p.line, p.character) = p
  BY DEF Position, PositionsOf
<1> QED
  BY <1>6, <1>7, <1>8

\* end_position is the position behind everything.
LEMMA EndIsLastPlace ==
  ASSUME NEW text \in Texts, NEW e \in Encodings
  PROVE  EndPosition(text, e) = PositionOf(text, Len(text), e)
<1>1. PICK l \in Nat : l = Len(text)
  BY DEF Texts
<1> DEFINE start == StartOf(text, l)
           k == Rank(text, start)
<1>2. /\ start \in LineStarts(text)
      /\ \A r \in LineStarts(text) : r <= l => r <= start
  BY <1>1, StartIs
<1>3. LineStarts(text) \in SUBSET (0..l)
  BY <1>1, LineStartsAre
<1>4. Breaks(text, start) = {}
  <2> SUFFICES ASSUME Breaks(text, start) # {} PROVE FALSE
    OBVIOUS
  <2> DEFINE after == AfterBreak(text, start)
  <2>1. after \in LineStarts(text) /\ start < after
    BY <1>2, NextLineIs
  <2> HIDE DEF start, after
  <2> QED
    BY <1>2, <1>3, <2>1
<1>5. k \in 0..l /\ Starts(text)[k] = start
  BY <1>1, <1>2, LinesAreRanked
<1>6. start \in 0..l /\ start # NoLine
  BY <1>2, <1>3 DEF NoLine
<1>7. ASSUME NEW n \in 0..l, Starts(text)[n] # NoLine,
             Breaks(text, Starts(text)[n]) = {}
      PROVE  n = k
  <2> DEFINE s == Starts(text)[n]
  <2>1. s \in LineStarts(text) /\ Rank(text, s) = n
    BY <1>1, <1>7, LinesAreRanked
  <2>2. \A r \in LineStarts(text) : r <= s
    BY <1>7, <2>1, NextLineIs
  <2> HIDE DEF s, start
  <2>3. s = start
    BY <1>2, <1>3, <2>1, <2>2
  <2> QED
    BY <2>1, <2>3
<1> HIDE DEF k
<1>8. FinalLine(text) = k
  <2>1. /\ Starts(text)[k] # NoLine /\ Breaks(text, Starts(text)[k]) = {}
    BY <1>4, <1>5, <1>6
  <2> DEFINE P(n) == /\ Starts(text)[n] # NoLine
                     /\ Breaks(text, Starts(text)[n]) = {}
  <2>2. k \in 0..l /\ P(k) /\ \A n \in 0..l : P(n) => n = k
    BY <1>5, <1>7, <2>1
  <2>3. FinalLine(text) = CHOOSE n \in 0..l : P(n)
    BY <1>1 DEF FinalLine
  <2> HIDE DEF P
  <2> QED
    BY <2>2, <2>3
<1>9. EndPosition(text, e) = Position(k, CodeUnits(text, start, l, e))
  BY <1>1, <1>5, <1>8 DEF EndPosition
<1>10. l \in Places(text) /\ StartOf(text, l) = start
  <2>1. EndOfLine(text, start) = l
    BY <1>1, <1>4 DEF EndOfLine
  <2>2. l \in start..EndOfLine(text, start)
    BY <1>6, <2>1
  <2> HIDE DEF start
  <2> QED
    BY <1>2, <2>2, PlaceOfLine
<1>11. PositionOf(text, l, e) = Position(k, CodeUnits(text, start, l, e))
  BY <1>10, PositionOfIs DEF k
<1> QED
  BY <1>1, <1>9, <1>11

-----------------------------------------------------------------------------
(* Byte offsets                                                            *)

\* A byte offset at a character's boundary is one place's.
LEMMA BytesAre ==
  ASSUME NEW text \in Texts, NEW n \in 0..Len(text)
  PROVE  /\ Bytes(text, n) \in Nat
         /\ Bytes(text, 0) = 0
         /\ Boundaries(text, Bytes(text, n)) = {n}
         /\ PlaceAt(text, Bytes(text, n)) = n
         /\ \A m \in 0..Len(text) :
              /\ m < n <=> Bytes(text, m) < Bytes(text, n)
              /\ m = n <=> Bytes(text, m) = Bytes(text, n)
<1>1. PICK l \in Nat : l = Len(text)
  BY DEF Texts
<1> DEFINE u == UnitsTo(text, "utf-8")
<1>2. "utf-8" \in Encodings
  BY DEF Encodings
<1>3. u \in [0..l -> Nat] /\ u[0] = 0
  BY <1>1, <1>2, SumsAre
<1>4. \A i, j \in 0..l : i < j => u[i] < u[j]
  BY <1>1, <1>2, SumsGrow
<1> HIDE DEF u
<1>5. ASSUME NEW m \in 0..l
      PROVE  (m < n <=> u[m] < u[n]) /\ (m = n <=> u[m] = u[n])
  <2>1. u[m] \in Nat /\ u[n] \in Nat /\ m \in 0..l /\ n \in 0..l
    BY <1>1, <1>3
  <2>2. (m < n => u[m] < u[n]) /\ (n < m => u[n] < u[m])
    BY <1>4, <2>1
  <2> QED
    BY <2>1, <2>2
<1>6. \A m : Bytes(text, m) = u[m]
  BY DEF Bytes, u
<1>7. Boundaries(text, Bytes(text, n)) = {n}
  BY <1>1, <1>5, <1>6 DEF Boundaries
<1>8. PlaceAt(text, Bytes(text, n)) = n
  BY <1>7 DEF PlaceAt
<1> QED
  BY <1>1, <1>3, <1>5, <1>6, <1>7, <1>8

\* The recursion of LineOffsets.
Steps(f, text) ==
  f = [n \in 0..Len(text) |-> IF n = 0 THEN 0 ELSE NextOffset(text, f[n - 1])]

\* The two walks over the lines agree.
LEMMA LineOffsetsAre ==
  ASSUME NEW text \in Texts, NEW k \in 0..Len(text)
  PROVE  LineOffsets(text)[k] = IF Starts(text)[k] = NoLine THEN NoLine
                                ELSE Bytes(text, Starts(text)[k])
<1>1. PICK l \in Nat : l = Len(text)
  BY DEF Texts
<1> DEFINE start == Starts(text)
           to(s) == IF s = NoLine THEN NoLine ELSE Bytes(text, s)
<1>2. /\ start \in [0..l -> LineStarts(text) \cup {NoLine}]
      /\ start[0] = 0
      /\ \A n \in 1..l : start[n] = NextLine(text, start[n - 1])
  BY <1>1, StartsAre
<1>3. LineStarts(text) \in SUBSET (0..l)
  BY <1>1, LineStartsAre
<1>4. ASSUME NEW s \in LineStarts(text) \cup {NoLine}
      PROVE  NextOffset(text, to(s)) = to(NextLine(text, s))
  <2>1. CASE s = NoLine
    BY <2>1 DEF NextOffset, NextLine
  <2>2. CASE s # NoLine
    <3>1. s \in 0..l /\ s \in LineStarts(text)
      BY <1>3, <2>2
    <3>2. Bytes(text, s) \in Nat /\ PlaceAt(text, Bytes(text, s)) = s
      BY <1>1, <3>1, BytesAre
    <3>3. to(s) = Bytes(text, s) /\ to(s) # NoLine
      BY <2>2, <3>2 DEF NoLine
    <3>4. CASE Breaks(text, s) = {}
      BY <2>2, <3>2, <3>3, <3>4 DEF NextOffset, NextLine
    <3>5. CASE Breaks(text, s) # {}
      <4>1. AfterBreak(text, s) \in 0..l
        BY <1>3, <3>1, <3>5, NextLineIs
      <4>2. AfterBreak(text, s) # NoLine
        BY <4>1 DEF NoLine
      <4>3. NextLine(text, s) = AfterBreak(text, s)
        BY <2>2, <3>5 DEF NextLine
      <4>4. NextOffset(text, to(s)) = Bytes(text, AfterBreak(text, s))
        BY <3>2, <3>3, <3>5 DEF NextOffset
      <4> QED
        BY <4>2, <4>3, <4>4
    <3> QED
      BY <3>4, <3>5
  <2> QED
    BY <2>1, <2>2
<1>5. to(0) = 0
  BY <1>1, BytesAre DEF NoLine
<1> HIDE DEF start, to
<1> DEFINE g == [n \in 0..l |-> to(start[n])]
<1>6. ASSUME NEW n \in 1..l
      PROVE  to(start[n]) = NextOffset(text, to(start[n - 1]))
  <2>1. n - 1 \in 0..l
    OBVIOUS
  <2>2. start[n - 1] \in LineStarts(text) \cup {NoLine}
    BY <1>2, <2>1
  <2> QED
    BY <1>2, <1>4, <2>2
<1>7. Steps(g, text)
  <2> DEFINE h == [n \in 0..l |->
                     IF n = 0 THEN 0 ELSE NextOffset(text, g[n - 1])]
  <2>1. ASSUME NEW n \in 0..l PROVE g[n] = h[n]
    <3>1. CASE n = 0
      BY <1>2, <1>5, <3>1
    <3>2. CASE n # 0
      <4>1. n \in 1..l /\ n - 1 \in 0..l
        BY <3>2
      <4>2. g[n - 1] = to(start[n - 1]) /\ g[n] = to(start[n])
        BY <4>1
      <4> HIDE DEF g
      <4> QED
        BY <1>6, <3>2, <4>1, <4>2
    <3> QED
      BY <3>1, <3>2
  <2>2. g = h
    BY <2>1
  <2> HIDE DEF g
  <2> QED
    BY <1>1, <2>2 DEF Steps
<1> DEFINE u == CHOOSE h : Steps(h, text)
<1>8. Steps(u, text)
  <2>1. \E h : Steps(h, text)
    BY <1>7
  <2> QED
    BY <2>1, Zenon
<1>9. LineOffsets(text) = u
  BY DEF LineOffsets, Steps
<1> HIDE DEF u, g
<1>10. u = [n \in 0..l |-> IF n = 0 THEN 0 ELSE NextOffset(text, u[n - 1])]
  BY <1>1, <1>8 DEF Steps
<1>11. \A n \in 0..l : u[n] = IF n = 0 THEN 0 ELSE NextOffset(text, u[n - 1])
  BY <1>10
<1>12. u[0] = 0 /\ \A n \in 1..l : u[n] = NextOffset(text, u[n - 1])
  <2>1. \A n \in 1..l : n \in 0..l /\ n # 0
    OBVIOUS
  <2> QED
    BY <1>11, <2>1
<1> DEFINE same == {n \in 0..l : u[n] = to(start[n])}
<1>13. \A n \in 0..l : n \in same
  <2>1. 0 \in same
    BY <1>2, <1>5, <1>12
  <2>2. \A n \in 1..l : n - 1 \in same => n \in same
    BY <1>6, <1>12
  <2> HIDE DEF same
  <2> QED
    BY <2>1, <2>2, Induction
<1>14. u[k] = to(start[k])
  BY <1>1, <1>13
<1> QED
  BY <1>9, <1>14 DEF to, start

\* The second scan finds the place of a position that the first one made.
LEMMA PositionOffsetIs ==
  ASSUME NEW text \in Texts, NEW n \in Places(text)
  PROVE  PositionOffset(text, PositionOf(text, n, "utf-8"))
           = Ok(Bytes(text, n))
<1>1. PICK l \in Nat : l = Len(text)
  BY DEF Texts
<1> DEFINE p == PositionOf(text, n, "utf-8")
           s == StartOf(text, n)
           end == EndOfLine(text, s)
           start == LineOffsets(text)[p.line]
<1>2. /\ n \in 0..l /\ s \in LineStarts(text) /\ n \in s..end
  BY <1>1, PlaceIsOfLine
<1>3. s \in 0..l /\ end \in s..l
  BY <1>1, <1>2, LineStartsAre, EndOfLineIs
<1>4. p.line = Rank(text, s) /\ p.character = CodeUnits(text, s, n, "utf-8")
  BY PositionOfIs DEF Encodings
<1>5. p.line \in 0..l /\ Starts(text)[p.line] = s
  BY <1>1, <1>2, <1>4, LinesAreRanked
<1>6. p.character = Bytes(text, n) - Bytes(text, s)
  BY <1>4 DEF CodeUnits, Bytes
<1> HIDE DEF p, s, end
<1>7. start = Bytes(text, s) /\ Bytes(text, s) \in Nat /\ start # NoLine
  <2>1. s # NoLine
    BY <1>3 DEF NoLine
  <2>2. start = Bytes(text, s)
    BY <1>1, <1>5, <2>1, LineOffsetsAre
  <2>3. Bytes(text, s) \in Nat
    BY <1>1, <1>3, BytesAre
  <2> QED
    BY <2>2, <2>3 DEF NoLine
<1>8. Bytes(text, n) \in Nat /\ Boundaries(text, Bytes(text, n)) = {n}
  BY <1>1, <1>2, BytesAre
<1>9. start + p.character = Bytes(text, n)
  BY <1>6, <1>7, <1>8
<1>10. LineEnd(text, start) = Bytes(text, end)
  BY <1>1, <1>3, <1>7, BytesAre DEF LineEnd, end
<1>11. ~(Bytes(text, n) > Bytes(text, end))
  <2>1. end \in 0..l /\ n \in 0..l /\ ~(end < n)
    BY <1>2, <1>3
  <2>2. Bytes(text, end) \in Nat
    BY <1>1, <2>1, BytesAre
  <2>3. ~(Bytes(text, end) < Bytes(text, n))
    BY <1>1, <2>1, BytesAre
  <2> QED
    BY <1>8, <2>2, <2>3
<1> HIDE DEF start
<1>12. PositionOffset(text, p)
         = IF p.line \notin 0..l \/ start = NoLine
             THEN Err("OutsideDocument")
           ELSE IF Boundaries(text, start + p.character) = {}
             THEN Err("NotABoundary")
           ELSE IF start + p.character > LineEnd(text, start)
             THEN Err("ExceedsLine")
           ELSE Ok(start + p.character)
  BY <1>1 DEF PositionOffset, start
<1>13. PositionOffset(text, p) = Ok(Bytes(text, n))
  BY <1>5, <1>7, <1>8, <1>9, <1>10, <1>11, <1>12
<1> QED
  BY <1>13 DEF p

\* A position is that of one place only.
LEMMA PlaceIsOne ==
  ASSUME NEW text \in Texts, NEW e \in Encodings,
         NEW m \in Places(text), NEW n \in Places(text),
         PositionOf(text, m, e) = PositionOf(text, n, e)
  PROVE  m = n
<1>1. "utf-8" \in Encodings
  BY DEF Encodings
<1>2. Ok(PositionOf(text, m, "utf-8")) = Ok(PositionOf(text, n, "utf-8"))
  BY <1>1, ConvertPlace
<1>3. PositionOf(text, m, "utf-8") = PositionOf(text, n, "utf-8")
  BY <1>2 DEF Ok
<1>4. Ok(Bytes(text, m)) = Ok(Bytes(text, n))
  BY <1>3, PositionOffsetIs
<1>5. Bytes(text, m) = Bytes(text, n)
  BY <1>4 DEF Ok
<1>6. m \in 0..Len(text) /\ n \in 0..Len(text)
  BY PlaceIsOfLine
<1> QED
  BY <1>5, <1>6, BytesAre

\* Lines that begin later have a greater rank.
LEMMA LaterLineIsLater ==
  ASSUME NEW text \in Texts, NEW r \in LineStarts(text),
         NEW s \in LineStarts(text), r < s
  PROVE  Rank(text, r) < Rank(text, s)
<1>1. PICK l \in Nat : l = Len(text)
  BY DEF Texts
<1> DEFINE upto(n) == {x \in LineStarts(text) : 0 < x /\ x <= n}
<1>2. LineStarts(text) \in SUBSET (0..l)
  BY <1>1, LineStartsAre
<1>3. upto(r) \in SUBSET upto(s) /\ s \in upto(s) /\ s \notin upto(r)
  BY <1>2
<1>4. IsFiniteSet(upto(s))
  <2>1. IsFiniteSet(1..l)
    BY FS_Interval
  <2>2. upto(s) \in SUBSET (1..l)
    BY <1>2
  <2> HIDE DEF upto
  <2> QED
    BY <2>1, <2>2, FS_Subset
<1>5. /\ Cardinality(upto(r)) <= Cardinality(upto(s))
      /\ Cardinality(upto(r)) # Cardinality(upto(s))
  <2> HIDE DEF upto
  <2> QED
    BY <1>3, <1>4, FS_Subset
<1>6. Rank(text, r) \in Nat /\ Rank(text, s) \in Nat
  <2>1. r \in 0..l /\ s \in 0..l
    BY <1>2
  <2> QED
    BY <1>1, <2>1, RankIs
<1> QED
  BY <1>5, <1>6 DEF Rank

\* Positions are ordered as their places are.
LEMMA PositionsAreOrdered ==
  ASSUME NEW text \in Texts, NEW e \in Encodings,
         NEW m \in Places(text), NEW n \in Places(text)
  PROVE  Before(PositionOf(text, n, e), PositionOf(text, m, e)) <=> n < m
<1>1. PICK l \in Nat : l = Len(text)
  BY DEF Texts
<1> DEFINE p == PositionOf(text, m, e)
           q == PositionOf(text, n, e)
           r == StartOf(text, m)
           s == StartOf(text, n)
<1>2. /\ m \in 0..l /\ r \in LineStarts(text) /\ m \in r..EndOfLine(text, r)
      /\ n \in 0..l /\ s \in LineStarts(text) /\ n \in s..EndOfLine(text, s)
  BY <1>1, PlaceIsOfLine
<1>3. /\ p.line = Rank(text, r) /\ p.character = CodeUnits(text, r, m, e)
      /\ q.line = Rank(text, s) /\ q.character = CodeUnits(text, s, n, e)
  BY PositionOfIs
<1>4. r \in 0..l /\ s \in 0..l
  BY <1>1, <1>2, LineStartsAre
<1>5. Rank(text, r) \in Nat /\ Rank(text, s) \in Nat
  BY <1>1, <1>4, RankIs
<1> HIDE DEF p, q, r, s
<1>6. CASE r = s
  <2>1. m \in r..l /\ n \in r..l
    BY <1>2, <1>4, <1>6
  <2>2. n < m <=> CodeUnits(text, r, n, e) < CodeUnits(text, r, m, e)
    BY <1>1, <1>4, <2>1, CodeUnitsAre
  <2>3. p.line = q.line /\ ~(q.line < p.line)
    BY <1>3, <1>5, <1>6
  <2>4. Before(q, p) <=> q.character < p.character
    BY <2>3 DEF Before
  <2> QED
    BY <1>3, <1>6, <2>2, <2>4 DEF p, q
<1>7. CASE r < s
  <2>1. Rank(text, r) < Rank(text, s)
    BY <1>2, <1>7, LaterLineIsLater
  <2>2. s > EndOfLine(text, r) /\ EndOfLine(text, r) \in r..l
    BY <1>1, <1>2, <1>4, <1>7, EndOfLineIs
  <2>3. m < n
    BY <1>2, <1>4, <2>2
  <2>4. ~Before(q, p)
    BY <1>3, <1>5, <2>1 DEF Before
  <2> QED
    BY <1>2, <2>3, <2>4 DEF p, q
<1>8. CASE s < r
  <2>1. Rank(text, s) < Rank(text, r)
    BY <1>2, <1>8, LaterLineIsLater
  <2>2. r > EndOfLine(text, s) /\ EndOfLine(text, s) \in s..l
    BY <1>1, <1>2, <1>4, <1>8, EndOfLineIs
  <2>3. n < m
    BY <1>2, <1>4, <2>2
  <2>4. Before(q, p)
    BY <1>3, <1>5, <2>1 DEF Before
  <2> QED
    BY <2>3, <2>4 DEF p, q
<1> QED
  BY <1>4, <1>6, <1>7, <1>8

-----------------------------------------------------------------------------
(* One edit                                                                *)

RawEdits == [start : PositionsOf, end : PositionsOf, newText : Texts]

\* The ranges of an edit, as RangesOf has them for the edits of the input.
Meant(edit, text, e) ==
  {r \in PlacesAt(text, edit.start, e) \X PlacesAt(text, edit.end, e) :
     r[1] <= r[2]}
\* What an edit of a range is normalized to.
Normal(text, m, n, new) ==
  [start |-> Bytes(text, m), end |-> Bytes(text, n),
   oldText |-> SubSeq(text, m + 1, n), newText |-> new]

\* A slice between two places' offsets.
LEMMA SliceIs ==
  ASSUME NEW text \in Texts, NEW m \in 0..Len(text), NEW n \in 0..Len(text)
  PROVE  Slice(text, Bytes(text, m), Bytes(text, n)) = SubSeq(text, m + 1, n)
BY BytesAre DEF Slice

\* A range is converted exactly when it denotes places in order.
LEMMA ConvertRangeIs ==
  ASSUME NEW text \in Texts, NEW e \in Encodings,
         NEW p \in PositionsOf, NEW q \in PositionsOf
  PROVE  LET range == ConvertRange(text, p, q, e, "utf-8") IN
         /\ IsOk(range) => \E m \in PlacesAt(text, p, e),
                              n \in PlacesAt(text, q, e) : m <= n
         /\ \A m \in PlacesAt(text, p, e), n \in PlacesAt(text, q, e) :
              m <= n =>
                range = Ok([start |-> PositionOf(text, m, "utf-8"),
                            end |-> PositionOf(text, n, "utf-8")])
<1> DEFINE from == ConvertPosition(text, p, e, "utf-8")
           to == ConvertPosition(text, q, e, "utf-8")
           range == ConvertRange(text, p, q, e, "utf-8")
<1>1. range = IF Before(q, p) THEN Err("ReversedRange")
              ELSE IF ~IsOk(from) THEN from
              ELSE IF ~IsOk(to) THEN to
              ELSE Ok([start |-> Value(from), end |-> Value(to)])
  BY DEF ConvertRange
<1>2. "utf-8" \in Encodings
  BY DEF Encodings
<1>3. \A m \in PlacesAt(text, p, e) :
        m \in Places(text) /\ from = Ok(PositionOf(text, m, "utf-8"))
  BY <1>2, ConvertPlace DEF PlacesAt
<1>4. \A n \in PlacesAt(text, q, e) :
        n \in Places(text) /\ to = Ok(PositionOf(text, n, "utf-8"))
  BY <1>2, ConvertPlace DEF PlacesAt
<1>5. \A m \in PlacesAt(text, p, e), n \in PlacesAt(text, q, e) :
        Before(q, p) <=> n < m
  BY PositionsAreOrdered DEF PlacesAt
<1>6. \A m \in Places(text) : m \in Nat
  BY PlaceIsOfLine
<1>7. ASSUME IsOk(range)
      PROVE  \E m \in PlacesAt(text, p, e), n \in PlacesAt(text, q, e) : m <= n
  <2>1. ~Before(q, p) /\ IsOk(from) /\ IsOk(to)
    <3> HIDE DEF from, to
    <3> QED
      BY <1>1, <1>7 DEF IsOk, Err
  <2>2. PICK m \in PlacesAt(text, p, e) : TRUE
    BY <1>2, <2>1, OnlyPlacesConvert DEF PlacesAt
  <2>3. PICK n \in PlacesAt(text, q, e) : TRUE
    BY <1>2, <2>1, OnlyPlacesConvert DEF PlacesAt
  <2>4. m \in Nat /\ n \in Nat /\ ~(n < m)
    BY <1>3, <1>4, <1>5, <1>6, <2>1
  <2>5. m <= n
    BY <2>4
  <2> QED
    BY <2>5
<1>8. ASSUME NEW m \in PlacesAt(text, p, e), NEW n \in PlacesAt(text, q, e),
             m <= n
      PROVE  range = Ok([start |-> PositionOf(text, m, "utf-8"),
                         end |-> PositionOf(text, n, "utf-8")])
  <2>1. ~Before(q, p)
    <3>1. m \in Nat /\ n \in Nat
      BY <1>3, <1>4, <1>6
    <3> QED
      BY <1>5, <1>8, <3>1
  <2>2. /\ from = Ok(PositionOf(text, m, "utf-8"))
        /\ to = Ok(PositionOf(text, n, "utf-8"))
    BY <1>3, <1>4
  <2> HIDE DEF from, to, range
  <2> QED
    BY <1>1, <2>1, <2>2 DEF IsOk, Ok, Value
<1> QED
  BY <1>7, <1>8

\* An edit is normalized exactly when it has a range; it then has one.
LEMMA NormalizeEditIs ==
  ASSUME NEW text \in Texts, NEW e \in Encodings, NEW edit \in RawEdits
  PROVE  LET normal == NormalizeEdit(edit, text, e) IN
         /\ IsOk(normal) <=> Meant(edit, text, e) # {}
         /\ \A r \in Meant(edit, text, e) :
              /\ r = <<r[1], r[2]>>
              /\ r[1] \in 0..Len(text) /\ r[2] \in 0..Len(text)
              /\ r[1] <= r[2]
              /\ normal = Ok(Normal(text, r[1], r[2], edit.newText))
              /\ \A s \in Meant(edit, text, e) : r = s
<1> DEFINE p == edit.start
           q == edit.end
           ranges == Meant(edit, text, e)
           range == ConvertRange(text, p, q, e, "utf-8")
           start == PositionOffset(text, Value(range).start)
           end == PositionOffset(text, Value(range).end)
           normal == NormalizeEdit(edit, text, e)
<1>1. p \in PositionsOf /\ q \in PositionsOf
  BY DEF RawEdits
<1>2. normal = IF ~IsOk(range) THEN range
               ELSE IF ~IsOk(start) THEN start
               ELSE IF ~IsOk(end) THEN end
               ELSE Ok([start |-> Value(start), end |-> Value(end),
                        oldText |-> Slice(text, Value(start), Value(end)),
                        newText |-> edit.newText])
  BY DEF NormalizeEdit, NormalizeRange
<1>3. \A r \in ranges : /\ r[1] \in PlacesAt(text, p, e)
                        /\ r[2] \in PlacesAt(text, q, e)
                        /\ r[1] <= r[2] /\ r = <<r[1], r[2]>>
  BY DEF Meant
<1>4. \A m \in PlacesAt(text, p, e), n \in PlacesAt(text, q, e) :
        m <= n => <<m, n>> \in ranges
  BY DEF Meant
<1>5. ASSUME NEW r \in ranges
      PROVE  /\ r[1] \in 0..Len(text) /\ r[2] \in 0..Len(text)
             /\ normal = Ok(Normal(text, r[1], r[2], edit.newText))
             /\ \A s \in ranges : r = s
  <2>1. /\ r[1] \in Places(text) /\ r[2] \in Places(text)
        /\ PositionOf(text, r[1], e) = p /\ PositionOf(text, r[2], e) = q
    BY <1>3 DEF PlacesAt
  <2>2. r[1] \in 0..Len(text) /\ r[2] \in 0..Len(text)
    BY <2>1, PlaceIsOfLine
  <2>3. range = Ok([start |-> PositionOf(text, r[1], "utf-8"),
                    end |-> PositionOf(text, r[2], "utf-8")])
    BY <1>1, <1>3, ConvertRangeIs
  <2> HIDE DEF range, ranges
  <2>4. /\ Value(range).start = PositionOf(text, r[1], "utf-8")
        /\ Value(range).end = PositionOf(text, r[2], "utf-8")
        /\ IsOk(range)
    BY <2>3 DEF Ok, Value, IsOk
  <2>5. start = Ok(Bytes(text, r[1])) /\ end = Ok(Bytes(text, r[2]))
    BY <2>1, <2>4, PositionOffsetIs
  <2> HIDE DEF start, end, normal
  <2>6. /\ IsOk(start) /\ IsOk(end)
        /\ Value(start) = Bytes(text, r[1]) /\ Value(end) = Bytes(text, r[2])
    BY <2>5 DEF Ok, Value, IsOk
  <2>7. Slice(text, Value(start), Value(end)) = SubSeq(text, r[1] + 1, r[2])
    BY <2>2, <2>6, SliceIs
  <2>8. normal = Ok([start |-> Bytes(text, r[1]), end |-> Bytes(text, r[2]),
                     oldText |-> SubSeq(text, r[1] + 1, r[2]),
                     newText |-> edit.newText])
    BY <1>2, <2>4, <2>6, <2>7
  <2>9. ASSUME NEW s \in ranges PROVE r = s
    <3>1. /\ s[1] \in Places(text) /\ s[2] \in Places(text)
          /\ PositionOf(text, s[1], e) = p /\ PositionOf(text, s[2], e) = q
          /\ s = <<s[1], s[2]>> /\ r = <<r[1], r[2]>>
      BY <1>3 DEF PlacesAt
    <3>2. r[1] = s[1] /\ r[2] = s[2]
      BY <2>1, <3>1, PlaceIsOne
    <3> QED
      BY <3>1, <3>2
  <2> QED
    BY <2>2, <2>8, <2>9 DEF Normal
<1>6. IsOk(normal) => ranges # {}
  <2>1. IsOk(normal) => IsOk(range)
    <3> HIDE DEF range, start, end, normal
    <3> QED
      BY <1>2
  <2>2. IsOk(range) => \E m \in PlacesAt(text, p, e),
                          n \in PlacesAt(text, q, e) : m <= n
    BY <1>1, ConvertRangeIs
  <2> HIDE DEF range, ranges, normal
  <2> QED
    BY <1>4, <2>1, <2>2
<1>7. ranges # {} => IsOk(normal)
  <2> HIDE DEF ranges, normal
  <2> QED
    BY <1>5 DEF Ok, IsOk
<1> HIDE DEF normal, ranges
<1>8. /\ IsOk(normal) <=> ranges # {}
      /\ \A r \in ranges :
           /\ r = <<r[1], r[2]>>
           /\ r[1] \in 0..Len(text) /\ r[2] \in 0..Len(text)
           /\ r[1] <= r[2]
           /\ normal = Ok(Normal(text, r[1], r[2], edit.newText))
           /\ \A s \in ranges : r = s
  BY <1>3, <1>5, <1>6, <1>7
<1> QED
  BY <1>8 DEF normal, ranges

-----------------------------------------------------------------------------
(* Sorting                                                                 *)

\* The first k numbers in an order.
Sorts(o, k, lt) ==
  /\ o \in [1..k -> 1..k]
  /\ \A i \in 1..k : \E j \in 1..k : o[j] = i
  /\ \A i, j \in 1..k : i < j => <<o[i], o[j]>> \in lt

\* One more element finds its place among sorted ones.
LEMMA SortOneMore ==
  ASSUME NEW k \in Nat \ {0}, NEW lt,
         \A x \in 1..k : x # k => (<<k, x>> \in lt \/ <<x, k>> \in lt),
         \A x, y, z \in 1..k :
           <<x, y>> \in lt /\ <<y, z>> \in lt => <<x, z>> \in lt,
         NEW o, Sorts(o, k - 1, lt)
  PROVE  \E q : Sorts(q, k, lt)
<1> DEFINE later == {i \in 1..(k - 1) : <<k, o[i]>> \in lt} \cup {k}
<1>1. later \in SUBSET Nat /\ later # {}
  OBVIOUS
<1>2. PICK p \in later : \A i \in later : p <= i
  <2> HIDE DEF later
  <2> QED
    BY <1>1, LeastExists
<1>3. p \in 1..k /\ (p # k => <<k, o[p]>> \in lt)
  BY <1>2
<1>4. \A i \in 1..(k - 1) : i < p => <<k, o[i]>> \notin lt
  BY <1>2, <1>3
<1> HIDE DEF later
<1>5. /\ \A i \in 1..(k - 1) : o[i] \in 1..(k - 1)
      /\ \A i \in 1..(k - 1) : \E j \in 1..(k - 1) : o[j] = i
      /\ \A i, j \in 1..(k - 1) : i < j => <<o[i], o[j]>> \in lt
  BY DEF Sorts
<1> DEFINE q == [i \in 1..k |-> IF i < p THEN o[i]
                                ELSE IF i = p THEN k ELSE o[i - 1]]
<1>6. /\ \A i \in 1..k : i < p => i \in 1..(k - 1) /\ q[i] = o[i]
      /\ q[p] = k
      /\ \A i \in 1..k : i > p => i - 1 \in 1..(k - 1) /\ q[i] = o[i - 1]
  <2>1. \A i \in 1..k : i < p => i \in 1..(k - 1)
    BY <1>3
  <2>2. \A i \in 1..k : i > p => i - 1 \in 1..(k - 1) /\ ~(i < p) /\ i # p
    BY <1>3
  <2>3. ~(p < p)
    BY <1>3
  <2> QED
    BY <1>3, <2>1, <2>2, <2>3
<1>7. q \in [1..k -> 1..k]
  <2>1. ASSUME NEW i \in 1..k PROVE q[i] \in 1..k
    <3>1. i < p \/ i = p \/ i > p
      BY <1>3
    <3>2. \A x \in 1..(k - 1) : x \in 1..k
      OBVIOUS
    <3>3. k \in 1..k
      OBVIOUS
    <3> HIDE DEF q
    <3> QED
      BY <1>5, <1>6, <3>1, <3>2, <3>3
  <2>2. q = [i \in 1..k |-> q[i]]
    OBVIOUS
  <2> HIDE DEF q
  <2> QED
    BY <2>1, <2>2
<1> HIDE DEF q
<1>8. ASSUME NEW i \in 1..k PROVE \E j \in 1..k : q[j] = i
  <2>1. CASE i = k
    BY <1>3, <1>6, <2>1
  <2>2. CASE i # k
    <3>1. PICK j \in 1..(k - 1) : o[j] = i
      BY <1>5, <2>2
    <3>2. CASE j < p
      <4>1. j \in 1..k /\ q[j] = i
        BY <1>6, <3>1, <3>2
      <4> QED
        BY <4>1
    <3>3. CASE ~(j < p)
      <4>1. j + 1 \in 1..k /\ j + 1 > p /\ j + 1 - 1 = j
        BY <1>3, <3>3
      <4>2. q[j + 1] = o[j + 1 - 1]
        BY <1>6, <4>1
      <4>3. q[j + 1] = i
        BY <3>1, <4>1, <4>2
      <4> QED
        BY <4>1, <4>3
    <3> QED
      BY <3>2, <3>3
  <2> QED
    BY <2>1, <2>2
<1>9. ASSUME NEW i \in 1..k, NEW j \in 1..k, i < j
      PROVE  <<q[i], q[j]>> \in lt
  <2>1. CASE j < p
    <3>1. i < p /\ i \in 1..(k - 1) /\ j \in 1..(k - 1)
      BY <1>3, <1>6, <1>9, <2>1
    <3>2. q[i] = o[i] /\ q[j] = o[j]
      BY <1>6, <2>1, <3>1
    <3> QED
      BY <1>5, <1>9, <3>1, <3>2
  <2>2. CASE j = p
    <3>1. i < p /\ i \in 1..(k - 1)
      BY <1>6, <1>9, <2>2
    <3>2. q[i] = o[i] /\ q[j] = k
      BY <1>6, <2>2, <3>1
    <3>3. o[i] \in 1..k /\ o[i] # k
      BY <1>5, <3>1
    <3>4. <<k, o[i]>> \notin lt
      BY <1>4, <3>1
    <3> QED
      BY <3>2, <3>3, <3>4
  <2>3. CASE i = p
    <3>1. j > p /\ j - 1 \in 1..(k - 1) /\ q[j] = o[j - 1]
      BY <1>6, <1>9, <2>3
    <3>2. p \in 1..(k - 1) /\ <<k, o[p]>> \in lt
      BY <1>3, <3>1
    <3>3. q[i] = k
      BY <1>6, <2>3
    <3>4. CASE p = j - 1
      BY <3>1, <3>2, <3>3, <3>4
    <3>5. CASE p # j - 1
      <4>1. p < j - 1
        BY <3>1, <3>2, <3>5
      <4>2. <<o[p], o[j - 1]>> \in lt
        BY <1>5, <3>1, <3>2, <4>1
      <4>3. o[p] \in 1..k /\ o[j - 1] \in 1..k /\ k \in 1..k
        BY <1>5, <3>1, <3>2
      <4>4. <<k, o[j - 1]>> \in lt
        BY <3>2, <4>2, <4>3
      <4> QED
        BY <3>1, <3>3, <4>4
    <3> QED
      BY <3>4, <3>5
  <2>4. CASE i < p /\ j > p
    <3>1. i \in 1..(k - 1) /\ j - 1 \in 1..(k - 1) /\ i < j - 1
      BY <1>3, <1>6, <2>4
    <3>2. q[i] = o[i] /\ q[j] = o[j - 1]
      BY <1>6, <2>4
    <3> QED
      BY <1>5, <3>1, <3>2
  <2>5. CASE i > p
    <3>1. /\ j > p /\ i - 1 \in 1..(k - 1) /\ j - 1 \in 1..(k - 1)
          /\ i - 1 < j - 1
      BY <1>3, <1>6, <1>9, <2>5
    <3>2. q[i] = o[i - 1] /\ q[j] = o[j - 1]
      BY <1>6, <2>5, <3>1
    <3> QED
      BY <1>5, <3>1, <3>2
  <2> QED
    BY <1>3, <1>9, <2>1, <2>2, <2>3, <2>4, <2>5
<1>10. Sorts(q, k, lt)
  BY <1>7, <1>8, <1>9 DEF Sorts
<1> QED
  BY <1>10

\* What a total order compares can be sorted.
LEMMA OrderExists ==
  ASSUME NEW K \in Nat, NEW lt,
         \A x, y \in 1..K : x # y => (<<x, y>> \in lt \/ <<y, x>> \in lt),
         \A x, y, z \in 1..K :
           <<x, y>> \in lt /\ <<y, z>> \in lt => <<x, z>> \in lt
  PROVE  \E o : Sorts(o, K, lt)
<1> DEFINE S == {k \in 0..K : \E o : Sorts(o, k, lt)}
<1>1. 0 \in S
  <2>1. Sorts([i \in 1..0 |-> i], 0, lt)
    BY DEF Sorts
  <2> QED
    BY <2>1
<1>2. ASSUME NEW k \in 1..K, k - 1 \in S PROVE k \in S
  <2>1. PICK o : Sorts(o, k - 1, lt)
    BY <1>2
  <2>2. k \in Nat \ {0} /\ \A x \in 1..k : x \in 1..K
    OBVIOUS
  <2>3. k \in 1..k
    OBVIOUS
  <2>4. \A x \in 1..k : x # k => (<<k, x>> \in lt \/ <<x, k>> \in lt)
    BY <2>2, <2>3
  <2>5. \A x, y, z \in 1..k :
          <<x, y>> \in lt /\ <<y, z>> \in lt => <<x, z>> \in lt
    BY <2>2
  <2>6. \E q : Sorts(q, k, lt)
    BY <2>1, <2>2, <2>4, <2>5, SortOneMore
  <2> QED
    BY <2>6
<1>3. \A k \in 0..K : k \in S
  <2> HIDE DEF S
  <2> QED
    BY <1>1, <1>2, Induction
<1>4. K \in S
  BY <1>3
<1> QED
  BY <1>4

\* sort_by_key: there is a stable order, and Sorted has one.
LEMMA SortedIs ==
  ASSUME NEW K \in Nat, NEW edits, DOMAIN edits = 1..K,
         \A i \in 1..K : edits[i].start \in Nat /\ edits[i].end \in Nat
  PROVE  \E o : /\ IsOrder(o, edits)
                /\ Sorted(edits) = [i \in 1..K |-> edits[o[i]]]
<1> DEFINE Goes(x, y) ==
             \/ Precedes(edits[x], edits[y])
             \/ /\ ~Precedes(edits[y], edits[x])
                /\ x < y
           lt == {w \in (1..K) \X (1..K) : Goes(w[1], w[2])}
<1>1. \A x, y \in 1..K : <<x, y>> \in lt <=> Goes(x, y)
  OBVIOUS
<1>2. ASSUME NEW x \in 1..K, NEW y \in 1..K, x # y
      PROVE  <<x, y>> \in lt \/ <<y, x>> \in lt
  <2>1. Goes(x, y) \/ Goes(y, x)
    BY <1>2
  <2> HIDE DEF lt, Goes
  <2> QED
    BY <1>1, <2>1
<1>3. ASSUME NEW x \in 1..K, NEW y \in 1..K, NEW z \in 1..K,
             <<x, y>> \in lt, <<y, z>> \in lt
      PROVE  <<x, z>> \in lt
  <2>1. Goes(x, y) /\ Goes(y, z)
    BY <1>1, <1>3
  <2>2. PICK a \in Nat, b \in Nat, c \in Nat, d \in Nat, f \in Nat, g \in Nat :
          /\ edits[x].start = a /\ edits[x].end = b
          /\ edits[y].start = c /\ edits[y].end = d
          /\ edits[z].start = f /\ edits[z].end = g
    OBVIOUS
  <2>3. /\ Precedes(edits[x], edits[y]) <=> a < c \/ (a = c /\ b < d)
        /\ Precedes(edits[y], edits[x]) <=> c < a \/ (c = a /\ d < b)
        /\ Precedes(edits[y], edits[z]) <=> c < f \/ (c = f /\ d < g)
        /\ Precedes(edits[z], edits[y]) <=> f < c \/ (f = c /\ g < d)
        /\ Precedes(edits[x], edits[z]) <=> a < f \/ (a = f /\ b < g)
        /\ Precedes(edits[z], edits[x]) <=> f < a \/ (f = a /\ g < b)
    BY <2>2 DEF Precedes
  <2>4. Goes(x, z)
    BY <2>1, <2>3
  <2> HIDE DEF lt, Goes
  <2> QED
    BY <1>1, <2>4
<1>4. PICK o : Sorts(o, K, lt)
  <2> HIDE DEF lt
  <2> QED
    BY <1>2, <1>3, OrderExists
<1>5. IsOrder(o, edits)
  <2>1. ASSUME NEW i \in 1..K, NEW j \in 1..K, i < j
        PROVE  \/ Precedes(edits[o[i]], edits[o[j]])
               \/ /\ ~Precedes(edits[o[j]], edits[o[i]])
                  /\ o[i] < o[j]
    <3>1. o[i] \in 1..K /\ o[j] \in 1..K /\ <<o[i], o[j]>> \in lt
      <4> HIDE DEF lt
      <4> QED
        BY <1>4, <2>1 DEF Sorts
    <3>2. Goes(o[i], o[j])
      <4> HIDE DEF lt, Goes
      <4> QED
        BY <1>1, <3>1
    <3> QED
      BY <3>2
  <2>2. o \in [1..K -> 1..K] /\ \A i \in 1..K : \E j \in 1..K : o[j] = i
    <3> HIDE DEF lt
    <3> QED
      BY <1>4 DEF Sorts
  <2> QED
    BY <2>1, <2>2 DEF IsOrder
<1> DEFINE chosen == CHOOSE c \in [DOMAIN edits -> DOMAIN edits] :
                       IsOrder(c, edits)
<1>6. \E c \in [DOMAIN edits -> DOMAIN edits] : IsOrder(c, edits)
  <2>1. o \in [DOMAIN edits -> DOMAIN edits]
    BY <1>5 DEF IsOrder
  <2> QED
    BY <1>5, <2>1
<1>7. IsOrder(chosen, edits)
  BY <1>6, Zenon
<1>8. Sorted(edits) = [i \in DOMAIN edits |-> edits[chosen[i]]]
  BY DEF Sorted
<1> HIDE DEF chosen
<1> QED
  BY <1>7, <1>8

-----------------------------------------------------------------------------
(* The edits of a file                                                     *)

\* A range for each edit, and an order in which they follow each other.
RangesFor(ranges, text, e, edits) ==
  /\ ranges = [i \in 1..Len(edits) |-> ranges[i]]
  /\ \A i \in 1..Len(edits) : ranges[i] \in Meant(edits[i], text, e)
Follow(ranges, order, n) ==
  /\ order \in [1..n -> 1..n]
  /\ \A i \in 1..n : \E j \in 1..n : order[j] = i
  /\ \A i, j \in 1..n :
       i < j => Apart(ranges[order[i]], ranges[order[j]])
Normals(ranges, text, edits) ==
  [i \in 1..Len(edits) |->
     Normal(text, ranges[i][1], ranges[i][2], edits[i].newText)]
InOrder(normals, order, n) == [i \in 1..n |-> normals[order[i]]]

\* The edits of a file, each by its range, and then in order.
LEMMA NormalizeEditsIs ==
  ASSUME NEW text \in Texts, NEW e \in Encodings, NEW edits \in Seq(RawEdits)
  PROVE  LET normal == NormalizeEdits(edits, text, e)
             n == Len(edits)
         IN /\ IsOk(normal) => \A i \in 1..n : Meant(edits[i], text, e) # {}
            /\ \A ranges : RangesFor(ranges, text, e, edits) =>
                 \E order :
                   /\ IsOrder(order, Normals(ranges, text, edits))
                   /\ normal = RejectOverlaps(
                        InOrder(Normals(ranges, text, edits), order, n))
<1>1. PICK n \in Nat : n = Len(edits) /\ DOMAIN edits = 1..n
  OBVIOUS
<1> DEFINE normal == NormalizeEdits(edits, text, e)
           results == [i \in 1..n |-> NormalizeEdit(edits[i], text, e)]
           failed == {i \in 1..n : ~IsOk(results[i])}
           first == CHOOSE i \in failed : \A j \in failed : i <= j
           values == [i \in 1..n |-> Value(results[i])]
<1>2. \A i \in 1..n : edits[i] \in RawEdits
  BY <1>1
<1>3. /\ failed # {} => ~IsOk(normal)
      /\ failed = {} => normal = RejectOverlaps(Sorted(values))
  <2> DEFINE all == Collect(results)
  <2>1. normal = IF ~IsOk(all) THEN all ELSE RejectOverlaps(Sorted(Value(all)))
    BY <1>1 DEF NormalizeEdits
  <2>2. all = IF failed # {} THEN results[first] ELSE Ok(values)
    BY DEF Collect
  <2>3. ASSUME failed # {} PROVE ~IsOk(results[first])
    <3>1. failed \in SUBSET Nat
      OBVIOUS
    <3>2. \E i \in failed : \A j \in failed : i <= j
      <4> HIDE DEF failed
      <4> QED
        BY <2>3, <3>1, LeastExists
    <3>3. first \in failed
      <4> HIDE DEF failed
      <4> QED
        BY <3>2
    <3> HIDE DEF first
    <3> QED
      BY <3>3
  <2> HIDE DEF failed, results, first, values, normal, all
  <2>4. IsOk(Ok(values)) /\ Value(Ok(values)) = values
    BY DEF Ok, IsOk, Value
  <2> QED
    BY <2>1, <2>2, <2>3, <2>4
<1>4. \A i \in 1..n : IsOk(results[i]) <=> Meant(edits[i], text, e) # {}
  BY <1>2, NormalizeEditIs
<1>5. ASSUME IsOk(normal) PROVE failed = {}
  <2> HIDE DEF failed, normal
  <2> QED
    BY <1>3, <1>5
<1>6. IsOk(normal) => \A i \in 1..n : Meant(edits[i], text, e) # {}
  <2> HIDE DEF normal
  <2> QED
    BY <1>4, <1>5
<1>7. ASSUME NEW ranges, RangesFor(ranges, text, e, edits)
      PROVE  \E order :
               /\ IsOrder(order, Normals(ranges, text, edits))
               /\ normal = RejectOverlaps(
                    InOrder(Normals(ranges, text, edits), order, n))
  <2> DEFINE normals == Normals(ranges, text, edits)
             one(i) == Normal(text, ranges[i][1], ranges[i][2],
                              edits[i].newText)
  <2>1. ASSUME NEW i \in 1..n
        PROVE  /\ results[i] = Ok(one(i))
               /\ one(i).start \in Nat /\ one(i).end \in Nat
    <3>1. ranges[i] \in Meant(edits[i], text, e)
      BY <1>1, <1>7 DEF RangesFor
    <3>2. /\ ranges[i][1] \in 0..Len(text) /\ ranges[i][2] \in 0..Len(text)
          /\ results[i] = Ok(one(i))
      BY <1>2, <3>1, NormalizeEditIs
    <3> QED
      BY <3>2, BytesAre DEF Normal
  <2>2. failed = {}
    <3> HIDE DEF results, one
    <3> QED
      BY <2>1 DEF Ok, IsOk
  <2>3. normals = [i \in 1..n |-> one(i)]
    BY <1>1 DEF Normals
  <2>4. values = normals
    <3>1. \A i \in 1..n : Value(results[i]) = one(i)
      <4> HIDE DEF results, one
      <4> QED
        BY <2>1 DEF Ok, Value
    <3> HIDE DEF results, one, normals
    <3> QED
      BY <2>3, <3>1
  <2>5. /\ DOMAIN normals = 1..n
        /\ \A i \in 1..n : normals[i].start \in Nat /\ normals[i].end \in Nat
    <3> HIDE DEF one, normals
    <3> QED
      BY <2>1, <2>3
  <2>6. normal = RejectOverlaps(Sorted(normals))
    <3> HIDE DEF values, failed, normal, normals, results, first
    <3> QED
      BY <1>3, <2>2, <2>4
  <2> HIDE DEF normals, normal
  <2>7. PICK order : /\ IsOrder(order, normals)
                     /\ Sorted(normals) = [i \in 1..n |-> normals[order[i]]]
    BY <2>5, SortedIs
  <2>8. normal = RejectOverlaps(InOrder(normals, order, n))
    BY <2>6, <2>7 DEF InOrder
  <2> QED
    BY <2>7, <2>8 DEF normals
<1> QED
  BY <1>1, <1>6, <1>7

\* Two normalized edits, by their ranges.
LEMMA NormalsCompare ==
  ASSUME NEW text \in Texts,
         NEW r, r[1] \in 0..Len(text), r[2] \in 0..Len(text),
         NEW s, s[1] \in 0..Len(text), s[2] \in 0..Len(text),
         NEW new, NEW other
  PROVE  LET x == Normal(text, r[1], r[2], new)
             y == Normal(text, s[1], s[2], other)
         IN /\ Overlaps(x, y) <=> ~Apart(r, s)
            /\ Precedes(x, y) <=>
                 r[1] < s[1] \/ (r[1] = s[1] /\ r[2] < s[2])
<1>1. PICK l \in Nat : l = Len(text)
  BY DEF Texts
<1>2. PICK a \in 0..l, b \in 0..l, c \in 0..l, d \in 0..l :
        r[1] = a /\ r[2] = b /\ s[1] = c /\ s[2] = d
  BY <1>1
<1>3. /\ \A m \in 0..l : Bytes(text, m) \in Nat
      /\ \A m, n \in 0..l :
           /\ m < n <=> Bytes(text, m) < Bytes(text, n)
           /\ m = n <=> Bytes(text, m) = Bytes(text, n)
  BY <1>1, BytesAre
<1> DEFINE x == Normal(text, r[1], r[2], new)
           y == Normal(text, s[1], s[2], other)
<1>4. /\ x.start = Bytes(text, a) /\ x.end = Bytes(text, b)
      /\ y.start = Bytes(text, c) /\ y.end = Bytes(text, d)
  BY <1>2 DEF Normal
<1> HIDE DEF x, y
<1>5. /\ c < b <=> Bytes(text, c) < Bytes(text, b)
      /\ c = a <=> Bytes(text, c) = Bytes(text, a)
      /\ a < c <=> Bytes(text, a) < Bytes(text, c)
      /\ b < d <=> Bytes(text, b) < Bytes(text, d)
  BY <1>3
<1>6. Overlaps(x, y) <=> c < b \/ c = a
  BY <1>4, <1>5 DEF Overlaps
<1>7. Precedes(x, y) <=> a < c \/ (a = c /\ b < d)
  BY <1>4, <1>5 DEF Precedes
<1>8. Apart(r, s) <=> b <= c /\ a # c
  BY <1>2 DEF Apart
<1>9. Overlaps(x, y) <=> ~Apart(r, s)
  BY <1>6, <1>8
<1> QED
  BY <1>2, <1>7, <1>9 DEF x, y

\* Ranges that do not meet their neighbours meet none.
LEMMA NeighboursSuffice ==
  ASSUME NEW n \in Nat, NEW r,
         \A i \in 1..n :
           r[i][1] \in Nat /\ r[i][2] \in Nat /\ r[i][1] <= r[i][2],
         \A i \in 1..(n - 1) : Apart(r[i], r[i + 1])
  PROVE  \A i, j \in 1..n : i < j => Apart(r[i], r[j])
<1> DEFINE S == {j \in 0..n : \A i \in 1..n : i < j => Apart(r[i], r[j])}
<1>1. 0 \in S
  OBVIOUS
<1>2. ASSUME NEW j \in 1..n, j - 1 \in S PROVE j \in S
  <2>1. ASSUME NEW i \in 1..n, i < j PROVE Apart(r[i], r[j])
    <3>1. j - 1 \in 1..(n - 1) /\ j - 1 \in 1..n /\ j - 1 + 1 = j
      BY <2>1
    <3>2. Apart(r[j - 1], r[j])
      <4>1. PICK k \in 1..(n - 1) : k = j - 1 /\ k + 1 = j
        BY <3>1
      <4>2. Apart(r[k], r[k + 1])
        OBVIOUS
      <4> QED
        BY <4>1, <4>2
    <3>3. CASE i = j - 1
      BY <3>2, <3>3
    <3>4. CASE i # j - 1
      <4>1. i < j - 1
        BY <2>1, <3>4
      <4>2. Apart(r[i], r[j - 1])
        BY <1>2, <4>1
      <4>3. PICK a \in Nat, b \in Nat, c \in Nat, d \in Nat, f \in Nat :
              /\ r[i][1] = a /\ r[i][2] = b
              /\ r[j - 1][1] = c /\ r[j - 1][2] = d
              /\ r[j][1] = f /\ a <= b /\ c <= d
        BY <3>1
      <4>4. b <= c /\ a # c /\ d <= f /\ c # f
        BY <3>2, <4>2, <4>3 DEF Apart
      <4>5. b <= f /\ a # f
        BY <4>3, <4>4
      <4> QED
        BY <4>3, <4>5 DEF Apart
    <3> QED
      BY <3>3, <3>4
  <2> QED
    BY <2>1
<1>3. \A j \in 0..n : j \in S
  <2> HIDE DEF S
  <2> QED
    BY <1>1, <1>2, Induction
<1> QED
  BY <1>3

\* What is accepted has a plan, and shows what its ranges hold.
LEMMA AcceptedFollow ==
  ASSUME NEW text \in Texts, NEW e \in Encodings, NEW edits \in Seq(RawEdits),
         IsOk(NormalizeEdits(edits, text, e))
  PROVE  \E ranges, order :
           /\ RangesFor(ranges, text, e, edits)
           /\ Follow(ranges, order, Len(edits))
           /\ Value(NormalizeEdits(edits, text, e))
                = InOrder(Normals(ranges, text, edits), order, Len(edits))
<1>1. PICK n \in Nat : n = Len(edits) /\ \A i \in 1..n : edits[i] \in RawEdits
  OBVIOUS
<1> DEFINE normal == NormalizeEdits(edits, text, e)
           ranges == [i \in 1..n |->
                        CHOOSE r \in Meant(edits[i], text, e) : TRUE]
           normals == Normals(ranges, text, edits)
<1>2. \A i \in 1..n : ranges[i] \in Meant(edits[i], text, e)
  <2>1. \A i \in 1..n : Meant(edits[i], text, e) # {}
    BY <1>1, NormalizeEditsIs
  <2> QED
    BY <2>1
<1>3. ranges = [i \in 1..n |-> ranges[i]]
  OBVIOUS
<1> HIDE DEF ranges
<1>4. RangesFor(ranges, text, e, edits)
  BY <1>1, <1>2, <1>3 DEF RangesFor
<1>5. \A i \in 1..n :
        ranges[i][1] \in 0..Len(text) /\ ranges[i][2] \in 0..Len(text)
        /\ ranges[i][1] <= ranges[i][2]
  BY <1>1, <1>2, NormalizeEditIs
<1>6. PICK order :
        /\ IsOrder(order, normals)
        /\ normal = RejectOverlaps(InOrder(normals, order, n))
  BY <1>1, <1>4, NormalizeEditsIs
<1>7. /\ DOMAIN normals = 1..n
      /\ \A i \in 1..n : normals[i] = Normal(text, ranges[i][1], ranges[i][2],
                                             edits[i].newText)
  BY <1>1 DEF Normals
<1> DEFINE sorted == InOrder(normals, order, n)
           r == [i \in 1..n |-> ranges[order[i]]]
<1> HIDE DEF normals, normal
<1>8. order \in [1..n -> 1..n] /\ \A i \in 1..n : \E j \in 1..n : order[j] = i
  BY <1>6, <1>7 DEF IsOrder
<1>9. Len(sorted) = n /\ \A i \in 1..n : sorted[i] = normals[order[i]]
  BY <1>8 DEF InOrder
<1> HIDE DEF sorted
<1>10. /\ \A i \in 1..(n - 1) : ~Overlaps(sorted[i], sorted[i + 1])
       /\ normal = Ok(sorted)
  <2>1. IsOk(RejectOverlaps(sorted))
    BY <1>6 DEF normal, sorted
  <2>2. RejectOverlaps(sorted) = Ok(sorted)
        /\ \A i \in 1..(n - 1) : ~Overlaps(sorted[i], sorted[i + 1])
    BY <1>9, <2>1 DEF RejectOverlaps, Err, IsOk
  <2> QED
    BY <1>6, <2>2 DEF sorted
<1>11. ASSUME NEW i \in 1..(n - 1) PROVE Apart(r[i], r[i + 1])
  <2>1. i \in 1..n /\ i + 1 \in 1..n
    OBVIOUS
  <2>2. order[i] \in 1..n /\ order[i + 1] \in 1..n
    BY <1>8, <2>1
  <2>3. r[i] = ranges[order[i]] /\ r[i + 1] = ranges[order[i + 1]]
    BY <2>1
  <2>4. /\ sorted[i] = normals[order[i]]
        /\ sorted[i + 1] = normals[order[i + 1]]
    BY <1>9, <2>1
  <2>5. ~Overlaps(normals[order[i]], normals[order[i + 1]])
    BY <1>10, <2>4
  <2> HIDE DEF r
  <2>6. PICK a \in 1..n, b \in 1..n : a = order[i] /\ b = order[i + 1]
    BY <2>2
  <2>7. ~Overlaps(normals[a], normals[b])
    BY <2>5, <2>6
  <2> HIDE DEF ranges, normals
  <2>8. /\ ranges[a][1] \in 0..Len(text) /\ ranges[a][2] \in 0..Len(text)
        /\ ranges[b][1] \in 0..Len(text) /\ ranges[b][2] \in 0..Len(text)
    BY <1>5
  <2>9. Overlaps(Normal(text, ranges[a][1], ranges[a][2], edits[a].newText),
                 Normal(text, ranges[b][1], ranges[b][2], edits[b].newText))
          <=> ~Apart(ranges[a], ranges[b])
    BY <2>8, NormalsCompare
  <2>10. Apart(ranges[a], ranges[b])
    BY <1>7, <2>7, <2>9
  <2> QED
    BY <2>3, <2>6, <2>10
<1>12. \A i \in 1..n : r[i][1] \in Nat /\ r[i][2] \in Nat /\ r[i][1] <= r[i][2]
  <2>1. \A i \in 1..n : ranges[i][1] \in Nat /\ ranges[i][2] \in Nat
    BY <1>5
  <2>2. \A i \in 1..n : r[i] = ranges[order[i]] /\ order[i] \in 1..n
    BY <1>8
  <2> HIDE DEF r
  <2> QED
    BY <1>5, <2>1, <2>2
<1>13. \A i, j \in 1..n : i < j => Apart(r[i], r[j])
  <2> HIDE DEF r
  <2> QED
    BY <1>11, <1>12, NeighboursSuffice
<1>14. Follow(ranges, order, n)
  BY <1>8, <1>13 DEF Follow
<1>15. Value(normal) = InOrder(normals, order, n)
  BY <1>10 DEF Ok, Value, sorted
<1> QED
  BY <1>1, <1>4, <1>14, <1>15 DEF normal, normals

\* What has a plan is accepted.
LEMMA FollowingAccepted ==
  ASSUME NEW text \in Texts, NEW e \in Encodings, NEW edits \in Seq(RawEdits),
         NEW ranges, RangesFor(ranges, text, e, edits),
         NEW plan, Follow(ranges, plan, Len(edits))
  PROVE  IsOk(NormalizeEdits(edits, text, e))
<1>1. PICK n \in Nat : n = Len(edits) /\ \A i \in 1..n : edits[i] \in RawEdits
  OBVIOUS
<1> DEFINE normal == NormalizeEdits(edits, text, e)
           normals == Normals(ranges, text, edits)
<1>2. \A i \in 1..n :
        ranges[i][1] \in 0..Len(text) /\ ranges[i][2] \in 0..Len(text)
        /\ ranges[i][1] <= ranges[i][2]
  BY <1>1, NormalizeEditIs DEF RangesFor
<1>3. PICK order :
        /\ IsOrder(order, normals)
        /\ normal = RejectOverlaps(InOrder(normals, order, n))
  BY <1>1, NormalizeEditsIs
<1>4. /\ DOMAIN normals = 1..n
      /\ \A i \in 1..n : normals[i] = Normal(text, ranges[i][1], ranges[i][2],
                                             edits[i].newText)
  BY <1>1 DEF Normals
<1> DEFINE sorted == InOrder(normals, order, n)
<1> HIDE DEF normals, normal
<1>5. /\ order \in [1..n -> 1..n]
      /\ \A i, j \in 1..n : i < j =>
           \/ Precedes(normals[order[i]], normals[order[j]])
           \/ /\ ~Precedes(normals[order[j]], normals[order[i]])
              /\ order[i] < order[j]
  BY <1>3, <1>4 DEF IsOrder
<1>6. Len(sorted) = n /\ \A i \in 1..n : sorted[i] = normals[order[i]]
  BY <1>5 DEF InOrder
<1> HIDE DEF sorted
<1>7. ASSUME NEW i \in 1..(n - 1)
      PROVE  ~Overlaps(sorted[i], sorted[i + 1])
  <2>1. i \in 1..n /\ i + 1 \in 1..n /\ i < i + 1
    OBVIOUS
  <2>2. PICK a \in 1..n, b \in 1..n : a = order[i] /\ b = order[i + 1]
    BY <1>5, <2>1
  <2>3. /\ sorted[i] = normals[a] /\ sorted[i + 1] = normals[b]
    BY <1>6, <2>1, <2>2
  <2>4. \/ Precedes(normals[a], normals[b])
        \/ ~Precedes(normals[b], normals[a]) /\ a < b
    BY <1>5, <2>1, <2>2
  <2>5. PICK w \in Nat, x \in Nat, y \in Nat, z \in Nat :
          /\ ranges[a][1] = w /\ ranges[a][2] = x /\ w <= x
          /\ ranges[b][1] = y /\ ranges[b][2] = z /\ y <= z
    BY <1>2
  <2>6. /\ Precedes(normals[a], normals[b]) <=> w < y \/ (w = y /\ x < z)
        /\ Precedes(normals[b], normals[a]) <=> y < w \/ (y = w /\ z < x)
        /\ Overlaps(normals[a], normals[b]) <=> ~Apart(ranges[a], ranges[b])
    <3> DEFINE one(k) == Normal(text, ranges[k][1], ranges[k][2],
                                edits[k].newText)
    <3>1. /\ ranges[a][1] \in 0..Len(text) /\ ranges[a][2] \in 0..Len(text)
          /\ ranges[b][1] \in 0..Len(text) /\ ranges[b][2] \in 0..Len(text)
      BY <1>2
    <3>2. /\ Overlaps(one(a), one(b)) <=> ~Apart(ranges[a], ranges[b])
          /\ Precedes(one(a), one(b)) <=>
               \/ ranges[a][1] < ranges[b][1]
               \/ (ranges[a][1] = ranges[b][1] /\ ranges[a][2] < ranges[b][2])
      BY <3>1, NormalsCompare
    <3>3. Precedes(one(b), one(a)) <=>
            \/ ranges[b][1] < ranges[a][1]
            \/ (ranges[b][1] = ranges[a][1] /\ ranges[b][2] < ranges[a][2])
      BY <3>1, NormalsCompare
    <3>4. normals[a] = one(a) /\ normals[b] = one(b)
      BY <1>4
    <3> HIDE DEF one
    <3> QED
      BY <2>5, <3>2, <3>3, <3>4
  <2>7. a # b
    <3> SUFFICES ASSUME a = b PROVE FALSE
      OBVIOUS
    <3>1. w = y /\ x = z
      BY <2>5
    <3> QED
      BY <2>4, <2>6, <3>1
  <2>8. PICK j \in 1..n, k \in 1..n : plan[j] = a /\ plan[k] = b
    BY <1>1 DEF Follow
  <2>9. Apart(ranges[a], ranges[b]) \/ Apart(ranges[b], ranges[a])
    <3>1. j < k \/ k < j
      BY <2>7, <2>8
    <3> QED
      BY <1>1, <2>8, <3>1 DEF Follow
  <2>10. ~Apart(ranges[b], ranges[a])
    <3> SUFFICES ASSUME Apart(ranges[b], ranges[a]) PROVE FALSE
      OBVIOUS
    <3>1. z <= w /\ y # w
      BY <2>5 DEF Apart
    <3>2. y < w /\ ~(w < y) /\ w # y
      BY <2>5, <3>1
    <3> QED
      BY <2>4, <2>6, <3>2
  <2> QED
    BY <2>3, <2>6, <2>9, <2>10
<1>8. RejectOverlaps(sorted) = Ok(sorted)
  BY <1>6, <1>7 DEF RejectOverlaps
<1>9. normal = Ok(sorted)
  BY <1>3, <1>8 DEF sorted
<1> QED
  BY <1>9 DEF normal, Ok, IsOk

-----------------------------------------------------------------------------
(* Making edits from the first to the last, and from the last to the first *)

\* Where the text goes on before the n-th edit.
Cut(b, n) == IF n = 1 THEN 0 ELSE b[n - 1]
\* What is written, with the text behind the last edit.
Whole(f, text, b, K) == f[K] \o SubSeq(text, Cut(b, K + 1) + 1, Len(text))
\* Ranges of which each lies behind the last.
Ascend(a, b, K) == \A i \in 1..K : Cut(b, i) <= a[i] /\ a[i] <= b[i]
\* The recursion of ApplyEdits, and that of Made while the ranges lie in what
\* is left.
Writes(f, text, a, b, w, K) ==
  /\ f[0] = <<>>
  /\ \A i \in 0..K : f[i] \in Texts
  /\ \A i \in 1..K :
       f[i] = f[i - 1] \o SubSeq(text, Cut(b, i) + 1, a[i]) \o w[i]
Makes(f, text, a, b, w, K) ==
  /\ f[0] = text
  /\ \A n \in 1..K :
       f[n - 1] \in Texts /\ b[K + 1 - n] <= Len(f[n - 1]) =>
         f[n] = Replace(f[n - 1], <<a[K + 1 - n], b[K + 1 - n]>>,
                        w[K + 1 - n])

\* Pieces of a text.
LEMMA PiecesAre ==
  ASSUME NEW text \in Texts, NEW p \in Nat, NEW q \in 0..Len(text)
  PROVE  SubSeq(text, p + 1, q) \in Texts
<1>1. \A i \in (p + 1)..q : text[i] \in Chars
  BY DEF Texts
<1> QED
  BY <1>1, SubSeqProperties DEF Texts

\* Adjacent pieces.
LEMMA PiecesMeet ==
  ASSUME NEW text \in Texts, NEW p \in 0..Len(text), NEW q \in p..Len(text)
  PROVE  SubSeq(text, 1, p) \o SubSeq(text, p + 1, q) = SubSeq(text, 1, q)
<1>1. PICK l \in Nat : l = Len(text)
  BY DEF Texts
<1>2. 1 \in 1..(l + 1) /\ p \in (1 - 1)..l /\ q \in p..l
  BY <1>1
<1> QED
  BY <1>1, <1>2, ConcatAdjacentSubSeq DEF Texts

\* Replacing a range of what has been made behind it leaves the text before.
LEMMA ReplaceOne ==
  ASSUME NEW text \in Texts, NEW p \in 0..Len(text), NEW q \in p..Len(text),
         NEW t \in Texts, NEW new \in Texts
  PROVE  LET x == SubSeq(text, 1, q) \o t IN
         /\ x \in Texts /\ Len(x) \in Nat /\ q <= Len(x)
         /\ Replace(x, <<p, q>>, new) = SubSeq(text, 1, p) \o (new \o t)
<1>1. PICK l \in Nat : l = Len(text)
  BY DEF Texts
<1>2. PICK m \in Nat : m = Len(t)
  BY DEF Texts
<1> DEFINE head == SubSeq(text, 1, q)
           x == head \o t
<1>3. p \in Nat /\ q \in Nat /\ p <= q /\ q <= l
  BY <1>1
<1>4. /\ head \in Seq(Chars) /\ Len(head) = q
      /\ \A i \in 1..q : head[i] = text[i] /\ text[i] \in Chars
  <2>1. \A i \in 1..q : text[i] \in Chars
    BY <1>1, <1>3 DEF Texts
  <2>2. /\ head \in Seq(Chars)
        /\ Len(head) = IF 1 <= q THEN q - 1 + 1 ELSE 0
        /\ \A i \in 1..(q - 1 + 1) : head[i] = text[1 + i - 1]
    BY <1>3, <2>1, SubSeqProperties
  <2>3. Len(head) = q /\ q - 1 + 1 = q
    BY <1>3, <2>2
  <2>4. \A i \in 1..q : 1 + i - 1 = i
    OBVIOUS
  <2> QED
    BY <2>1, <2>2, <2>3, <2>4
<1>5. /\ x \in Seq(Chars) /\ Len(x) = q + m
      /\ \A i \in 1..(q + m) : x[i] = IF i <= q THEN head[i] ELSE t[i - q]
  <2> HIDE DEF head
  <2>1. t \in Seq(Chars)
    BY DEF Texts
  <2> QED
    BY <1>2, <1>4, <2>1, ConcatProperties
<1> HIDE DEF x, head
<1>6. SubSeq(x, 1, p) = SubSeq(text, 1, p)
  <2>1. \A i \in 1..p : x[i] = text[i] /\ text[i] \in Chars
    BY <1>3, <1>4, <1>5
  <2>2. \A i \in 1..p : x[i] \in Chars
    BY <2>1
  <2>3. /\ SubSeq(x, 1, p) \in Seq(Chars)
        /\ Len(SubSeq(x, 1, p)) = IF 1 <= p THEN p - 1 + 1 ELSE 0
        /\ \A i \in 1..(p - 1 + 1) : SubSeq(x, 1, p)[i] = x[1 + i - 1]
    BY <1>3, <2>2, SubSeqProperties
  <2>4. /\ SubSeq(text, 1, p) \in Seq(Chars)
        /\ Len(SubSeq(text, 1, p)) = IF 1 <= p THEN p - 1 + 1 ELSE 0
        /\ \A i \in 1..(p - 1 + 1) : SubSeq(text, 1, p)[i] = text[1 + i - 1]
    BY <1>3, <2>1, SubSeqProperties
  <2> DEFINE left == SubSeq(x, 1, p)
             right == SubSeq(text, 1, p)
  <2>5. Len(left) = Len(right) /\ Len(left) = p
    BY <1>3, <2>3, <2>4
  <2>6. \A i \in 1..p : left[i] = right[i]
    <3>1. \A i \in 1..p : i \in 1..(p - 1 + 1) /\ 1 + i - 1 = i
      BY <1>3
    <3>2. \A i \in 1..p : left[i] = x[i] /\ right[i] = text[i]
      <4> HIDE DEF left, right
      <4> QED
        BY <2>3, <2>4, <3>1 DEF left, right
    <3> HIDE DEF left, right
    <3> QED
      BY <2>1, <3>2
  <2>7. left \in Seq(Chars) /\ right \in Seq(Chars)
    BY <2>3, <2>4
  <2> HIDE DEF left, right
  <2>8. left = right
    BY <2>5, <2>6, <2>7, SeqEqual
  <2> QED
    BY <2>8 DEF left, right
<1>7. SubSeq(x, q + 1, Len(x)) = t
  <2> DEFINE rest == SubSeq(x, q + 1, q + m)
  <2>1. \A i \in (q + 1)..(q + m) : x[i] \in Chars
    BY <1>5
  <2>2. /\ rest \in Seq(Chars)
        /\ Len(rest) = IF q + 1 <= q + m THEN q + m - (q + 1) + 1 ELSE 0
        /\ \A i \in 1..(q + m - (q + 1) + 1) : rest[i] = x[q + 1 + i - 1]
    <3>1. PICK from \in Int, upto \in Int : from = q + 1 /\ upto = q + m
      BY <1>3
    <3>2. \A i \in from..upto : x[i] \in Chars
      BY <2>1, <3>1
    <3>3. /\ SubSeq(x, from, upto) \in Seq(Chars)
          /\ Len(SubSeq(x, from, upto))
               = IF from <= upto THEN upto - from + 1 ELSE 0
          /\ \A i \in 1..(upto - from + 1) :
               SubSeq(x, from, upto)[i] = x[from + i - 1]
      BY <3>2, SubSeqProperties
    <3> QED
      BY <3>1, <3>3
  <2> HIDE DEF rest
  <2>3. Len(rest) = m
    BY <1>3, <2>2
  <2>4. ASSUME NEW i \in 1..m PROVE rest[i] = t[i]
    <3>1. /\ i \in 1..(q + m - (q + 1) + 1) /\ q + 1 + i - 1 = q + i
          /\ q + i \in 1..(q + m) /\ ~(q + i <= q) /\ q + i - q = i
      BY <1>3
    <3>2. rest[i] = x[q + i]
      BY <2>2, <3>1
    <3>3. x[q + i] = t[q + i - q]
      BY <1>5, <3>1
    <3> QED
      BY <3>1, <3>2, <3>3
  <2>5. rest = t
    BY <1>2, <2>2, <2>3, <2>4, SeqEqual DEF Texts
  <2> QED
    BY <1>5, <2>5 DEF rest
<1>8. Replace(x, <<p, q>>, new)
        = SubSeq(x, 1, p) \o new \o SubSeq(x, q + 1, Len(x))
  BY DEF Replace
<1>9. (SubSeq(text, 1, p) \o new) \o t = SubSeq(text, 1, p) \o (new \o t)
  <2>1. SubSeq(text, 1, p) \in Texts
    <3>1. SubSeq(text, 0 + 1, p) \in Texts
      BY PiecesAre
    <3> QED
      BY <3>1
  <2> DEFINE before == SubSeq(text, 1, p)
  <2>2. before \in Seq(Chars) /\ new \in Seq(Chars) /\ t \in Seq(Chars)
    BY <2>1 DEF Texts
  <2> HIDE DEF before
  <2>3. (before \o new) \o t = before \o (new \o t)
    BY <2>2, ConcatAssociative
  <2> QED
    BY <2>3 DEF before
<1>10. Replace(x, <<p, q>>, new) = SubSeq(text, 1, p) \o (new \o t)
  BY <1>6, <1>7, <1>8, <1>9
<1>11. x \in Texts /\ Len(x) \in Nat /\ q <= Len(x)
  BY <1>3, <1>5 DEF Texts
<1> QED
  BY <1>10, <1>11 DEF x, head

\* Both ways write the same text.
LEMMA BothWays ==
  ASSUME NEW text \in Texts, NEW K \in Nat,
         NEW a \in [1..K -> 0..Len(text)], NEW b \in [1..K -> 0..Len(text)],
         NEW w \in [1..K -> Texts],
         Ascend(a, b, K),
         NEW O, Writes(O, text, a, b, w, K),
         NEW M, Makes(M, text, a, b, w, K)
  PROVE  /\ \A n \in 0..K : M[n] \in Texts
         /\ \A n \in 1..K : b[K + 1 - n] <= Len(M[n - 1])
         /\ M[K] = Whole(O, text, b, K)
<1>1. PICK l \in Nat : l = Len(text)
  BY DEF Texts
<1> DEFINE head(i) == SubSeq(text, 1, Cut(b, i))
           whole == O[K] \o SubSeq(text, Cut(b, K + 1) + 1, l)
           Meets(n, t) == /\ M[n] = head(K - n + 1) \o t
                          /\ whole = O[K - n] \o t
           S == {n \in 0..K : \E t \in Texts : Meets(n, t)}
<1>2. \A i \in 1..(K + 1) : Cut(b, i) \in 0..l
  BY <1>1 DEF Cut
<1>3. head(1) = <<>>
  BY SubSeqEmpty DEF Cut
<1>4. 0 \in S
  <2> DEFINE rest == SubSeq(text, Cut(b, K + 1) + 1, l)
  <2>1. PICK c \in 0..l : c = Cut(b, K + 1)
    BY <1>2
  <2>2. rest \in Texts
    BY <1>1, <2>1, PiecesAre
  <2>3. SubSeq(text, 1, c) \o SubSeq(text, c + 1, l) = SubSeq(text, 1, l)
    <3>1. c \in 0..Len(text) /\ l \in c..Len(text)
      BY <1>1
    <3> QED
      BY <3>1, PiecesMeet
  <2>4. SubSeq(text, 1, l) = text
    BY <1>1, SubSeqFull DEF Texts
  <2>5. M[0] = head(K + 1) \o rest
    BY <2>1, <2>3, <2>4 DEF Makes
  <2>6. K - 0 + 1 = K + 1 /\ K - 0 = K
    OBVIOUS
  <2>7. Meets(0, rest)
    BY <2>5, <2>6
  <2> HIDE DEF rest, Meets
  <2> QED
    BY <2>2, <2>7
<1>5. ASSUME NEW n \in 1..K, n - 1 \in S
      PROVE  /\ n \in S
             /\ M[n - 1] \in Texts /\ b[K + 1 - n] <= Len(M[n - 1])
  <2>1. PICK t \in Texts : Meets(n - 1, t)
    BY <1>5
  <2> HIDE DEF S, Meets, whole, head
  <2>2. PICK i \in 1..K : i = K + 1 - n
    OBVIOUS
  <2>3. /\ K - (n - 1) + 1 = i + 1 /\ K - (n - 1) = i
        /\ K - n + 1 = i /\ K - n = i - 1 /\ i + 1 # 1 /\ i + 1 - 1 = i
        /\ i + 1 \in 1..(K + 1) /\ i \in 1..(K + 1)
        /\ i - 1 \in 0..K
    BY <2>2
  <2>4. PICK p \in 0..l, q \in 0..l, c \in 0..l :
          /\ p = a[i] /\ q = b[i] /\ c = Cut(b, i) /\ c <= p /\ p <= q
    BY <1>1, <1>2, <2>3 DEF Ascend
  <2>5. Cut(b, i + 1) = q
    BY <2>3, <2>4 DEF Cut
  <2>6. M[n - 1] = SubSeq(text, 1, q) \o t /\ whole = O[i] \o t
    BY <2>1, <2>3, <2>5 DEF Meets, head
  <2>7. /\ p \in 0..Len(text) /\ q \in p..Len(text)
        /\ c \in 0..Len(text) /\ p \in c..Len(text)
    BY <1>1, <2>4
  <2>8. PICK new \in Texts : new = w[i]
    OBVIOUS
  <2>9. /\ M[n - 1] \in Texts /\ q <= Len(M[n - 1])
        /\ Replace(M[n - 1], <<p, q>>, new)
             = SubSeq(text, 1, p) \o (new \o t)
    <3> DEFINE x == SubSeq(text, 1, q) \o t
    <3>1. /\ x \in Texts /\ Len(x) \in Nat /\ q <= Len(x)
          /\ Replace(x, <<p, q>>, new) = SubSeq(text, 1, p) \o (new \o t)
      <4>1. \A f \in 0..Len(text) : \A g \in f..Len(text) :
              \A u, v \in Texts :
                LET y == SubSeq(text, 1, g) \o u IN
                /\ y \in Texts /\ Len(y) \in Nat /\ g <= Len(y)
                /\ Replace(y, <<f, g>>, v) = SubSeq(text, 1, f) \o (v \o u)
        BY ReplaceOne
      <4> QED
        BY <2>7, <4>1
    <3>2. M[n - 1] = x
      BY <2>6
    <3> HIDE DEF x
    <3> QED
      BY <3>1, <3>2
  <2>10. M[n] = SubSeq(text, 1, p) \o (new \o t)
    <3>1. M[n - 1] \in Texts /\ b[K + 1 - n] <= Len(M[n - 1])
      BY <2>2, <2>4, <2>9
    <3>2. M[n] = Replace(M[n - 1], <<a[K + 1 - n], b[K + 1 - n]>>,
                         w[K + 1 - n])
      BY <3>1 DEF Makes
    <3> QED
      BY <2>2, <2>4, <2>8, <2>9, <3>2
  <2> DEFINE before == SubSeq(text, 1, c)
             between == SubSeq(text, c + 1, p)
             after == new \o t
  <2>11. /\ before \in Seq(Chars) /\ between \in Seq(Chars)
         /\ after \in Seq(Chars) /\ new \in Seq(Chars) /\ t \in Seq(Chars)
    <3>1. before \in Texts
      <4>1. PICK zero \in Nat : zero = 0
        OBVIOUS
      <4>2. SubSeq(text, zero + 1, c) \in Texts
        BY <2>7, PiecesAre
      <4> QED
        BY <4>1, <4>2
    <3>2. between \in Texts
      BY <2>7, PiecesAre
    <3>3. new \in Seq(Chars) /\ t \in Seq(Chars)
      BY DEF Texts
    <3>4. after \in Seq(Chars)
      BY <3>3, ConcatProperties
    <3> QED
      BY <3>1, <3>2, <3>3, <3>4 DEF Texts
  <2>12. before \o between = SubSeq(text, 1, p)
    BY <2>7, PiecesMeet
  <2>13. O[i - 1] \in Seq(Chars) /\ O[i] = (O[i - 1] \o between) \o new
    <3>1. O[i] = O[i - 1] \o SubSeq(text, Cut(b, i) + 1, a[i]) \o w[i]
      BY DEF Writes
    <3>2. O[i - 1] \in Texts
      BY <2>3 DEF Writes
    <3> QED
      BY <2>4, <2>8, <3>1, <3>2 DEF Texts
  <2> HIDE DEF before, between, after
  <2> DEFINE further == between \o after
  <2>14. further \in Seq(Chars)
    BY <2>11, ConcatProperties
  <2>15. (before \o between) \o after = before \o further
    BY <2>11, ConcatAssociative
  <2>16. M[n] = before \o further
    BY <2>10, <2>12, <2>15 DEF after
  <2>17. whole = O[i - 1] \o further
    <3>1. PICK o \in Seq(Chars) : o = O[i - 1]
      BY <2>13
    <3>2. o \o between \in Seq(Chars)
      BY <2>11, ConcatProperties
    <3>3. ((o \o between) \o new) \o t = (o \o between) \o (new \o t)
      <4>1. PICK left \in Seq(Chars) : left = o \o between
        BY <3>2
      <4>2. \A x, y, z \in Seq(Chars) : (x \o y) \o z = x \o (y \o z)
        BY ConcatAssociative
      <4>3. (left \o new) \o t = left \o (new \o t)
        BY <2>11, <4>2, Zenon
      <4> QED
        BY <4>1, <4>3
    <3>4. (o \o between) \o after = o \o (between \o after)
      <4>1. \A x, y, z \in Seq(Chars) : (x \o y) \o z = x \o (y \o z)
        BY ConcatAssociative
      <4> QED
        BY <2>11, <4>1, Zenon
    <3>5. whole = ((o \o between) \o new) \o t
      BY <2>6, <2>13, <3>1
    <3> QED
      BY <3>1, <3>3, <3>4, <3>5 DEF after
  <2>18. Meets(n, further)
    <3>1. M[n] = SubSeq(text, 1, Cut(b, K - n + 1)) \o further
      BY <2>3, <2>4, <2>16 DEF before
    <3>2. whole = O[K - n] \o further
      BY <2>3, <2>17
    <3> QED
      BY <3>1, <3>2 DEF Meets, head
  <2>19. n \in S
    <3> HIDE DEF further
    <3> QED
      BY <2>14, <2>18 DEF S, Texts
  <2> QED
    BY <2>2, <2>4, <2>9, <2>19
<1>6. \A n \in 0..K : n \in S
  <2> HIDE DEF S
  <2> QED
    BY <1>4, <1>5, Induction
<1>7. PICK t \in Texts : Meets(K, t)
  <2>1. K \in 0..K
    OBVIOUS
  <2> QED
    BY <1>6, <2>1
<1>8. M[K] = t /\ whole = t
  <2>1. K - K + 1 = 1 /\ K - K = 0
    OBVIOUS
  <2>2. M[K] = head(1) \o t /\ whole = O[0] \o t
    BY <1>7, <2>1
  <2>3. <<>> \o t = t
    BY ConcatEmptySeq DEF Texts
  <2> HIDE DEF head, whole
  <2> QED
    BY <1>3, <2>2, <2>3 DEF Writes
<1>9. \A n \in 1..K :
        M[n - 1] \in Texts /\ b[K + 1 - n] <= Len(M[n - 1])
  <2> TAKE n \in 1..K
  <2>1. n - 1 \in S
    <3>1. n - 1 \in 0..K
      OBVIOUS
    <3> HIDE DEF S
    <3> QED
      BY <1>6, <3>1
  <2> HIDE DEF S
  <2> QED
    BY <1>5, <2>1
<1>10. \A n \in 0..K : M[n] \in Texts
  <2> TAKE n \in 0..K
  <2>1. CASE n = K
    BY <1>8, <2>1
  <2>2. CASE n # K
    <3>1. PICK m \in 1..K : m - 1 = n
      <4>1. n + 1 \in 1..K /\ n + 1 - 1 = n
        BY <2>2
      <4> QED
        BY <4>1
    <3> QED
      BY <1>9, <3>1
  <2> QED
    BY <2>1, <2>2
<1> QED
  <2>1. M[K] = Whole(O, text, b, K)
    BY <1>1, <1>8 DEF Whole
  <2> HIDE DEF S, Meets, head, whole
  <2> QED
    BY <1>9, <1>10, <2>1

\* One round of the first recursion.
Written(f, text, a, b, w, K) ==
  [n \in 0..K |->
     IF n = 0 THEN <<>>
     ELSE f[n - 1] \o SubSeq(text, Cut(b, n) + 1, a[n]) \o w[n]]

\* The recursion has a solution, and every solution writes.
LEMMA WritingIs ==
  ASSUME NEW text \in Texts, NEW K \in Nat,
         NEW a \in [1..K -> 0..Len(text)], NEW b \in [1..K -> 0..Len(text)],
         NEW w \in [1..K -> Texts], Ascend(a, b, K)
  PROVE  /\ \E f : f = Written(f, text, a, b, w, K)
         /\ \A f : f = Written(f, text, a, b, w, K) =>
                  Writes(f, text, a, b, w, K)
<1> DEFINE piece(n) == SubSeq(text, Cut(b, n) + 1, a[n])
           step == [p \in (1..K) \X Texts |-> p[2] \o piece(p[1]) \o w[p[1]]]
           written(f) == [n \in 0..K |-> IF n = 0 THEN <<>>
                                         ELSE f[n - 1] \o piece(n) \o w[n]]
<1>1. \A n \in 1..K : piece(n) \in Texts
  <2> TAKE n \in 1..K
  <2>1. Cut(b, n) \in Nat
    BY DEF Cut
  <2>2. a[n] \in 0..Len(text)
    OBVIOUS
  <2> QED
    BY <2>1, <2>2, PiecesAre
<1>2. ASSUME NEW n \in 1..K, NEW t \in Texts
      PROVE  t \o piece(n) \o w[n] \in Texts
  <2> HIDE DEF piece
  <2>1. t \in Seq(Chars) /\ piece(n) \in Seq(Chars) /\ w[n] \in Seq(Chars)
    BY <1>1 DEF Texts
  <2>2. t \o piece(n) \in Seq(Chars)
    BY <2>1, ConcatProperties
  <2> DEFINE left == t \o piece(n)
  <2> HIDE DEF left
  <2>3. left \o w[n] \in Seq(Chars)
    BY <2>1, <2>2, ConcatProperties DEF left
  <2> QED
    BY <2>3 DEF left, Texts
<1> HIDE DEF piece
<1>3. step \in [(1..K) \X Texts -> Texts]
  BY <1>2
<1>4. <<>> \in Texts
  BY DEF Texts
<1>5. PICK f \in [0..K -> Texts] : IsRun(f, <<>>, step, K)
  <2> HIDE DEF step
  <2> QED
    BY <1>3, <1>4, RunExists
<1>6. \A n \in 0..K : f[n] = IF n = 0 THEN <<>> ELSE step[<<n, f[n - 1]>>]
  BY <1>5 DEF IsRun
<1>7. ASSUME NEW n \in 0..K PROVE f[n] = written(f)[n]
  <2>1. CASE n = 0
    BY <1>6, <2>1
  <2>2. CASE n # 0
    <3>1. n \in 1..K /\ n - 1 \in 0..K
      BY <2>2
    <3>2. f[n - 1] \in Texts
      BY <3>1
    <3>3. f[n] = step[<<n, f[n - 1]>>]
      <4> HIDE DEF step
      <4> QED
        BY <1>6, <2>2
    <3>4. step[<<n, f[n - 1]>>] = f[n - 1] \o piece(n) \o w[n]
      BY <3>1, <3>2
    <3> HIDE DEF step
    <3> QED
      BY <2>2, <3>3, <3>4
  <2> QED
    BY <2>1, <2>2
<1>8. f = written(f)
  <2> HIDE DEF step
  <2> QED
    BY <1>7
<1> HIDE DEF step
<1>9. ASSUME NEW g, g = written(g) PROVE Writes(g, text, a, b, w, K)
  <2>1. \A n \in 0..K : g[n] = IF n = 0 THEN <<>>
                               ELSE g[n - 1] \o piece(n) \o w[n]
    BY <1>9
  <2>2. g[0] = <<>>
    BY <2>1
  <2>3. \A n \in 1..K : g[n] = g[n - 1] \o piece(n) \o w[n]
    <3>1. \A n \in 1..K : n \in 0..K /\ n # 0
      OBVIOUS
    <3> QED
      BY <2>1, <3>1
  <2> DEFINE S == {n \in 0..K : g[n] \in Texts}
  <2>4. \A n \in 0..K : n \in S
    <3>1. 0 \in S
      BY <1>4, <2>2
    <3>2. ASSUME NEW n \in 1..K, n - 1 \in S PROVE n \in S
      <4>1. g[n - 1] \o piece(n) \o w[n] \in Texts
        BY <1>2, <3>2
      <4>2. g[n] = g[n - 1] \o piece(n) \o w[n]
        <5> HIDE DEF S
        <5> QED
          BY <2>3
      <4>3. n \in 0..K /\ g[n] \in Texts
        <5>1. n \in 0..K
          OBVIOUS
        <5> HIDE DEF S
        <5> QED
          BY <4>1, <4>2, <5>1
      <4> QED
        BY <4>3
    <3> HIDE DEF S
    <3> QED
      BY <3>1, <3>2, Induction
  <2>5. \A n \in 0..K : g[n] \in Texts
    BY <2>4
  <2> QED
    BY <2>2, <2>3, <2>5 DEF Writes, piece
<1> QED
  BY <1>8, <1>9 DEF Written, piece

\* Normalized edits, of these ranges and new texts.
NormalsOf(edits, text, a, b, w, K) ==
  /\ Len(edits) = K
  /\ \A i \in 1..K : edits[i] = Normal(text, a[i], b[i], w[i])

\* apply_edits of normalized edits.
LEMMA ApplyEditsIs ==
  ASSUME NEW text \in Texts, NEW K \in Nat,
         NEW a \in [1..K -> 0..Len(text)], NEW b \in [1..K -> 0..Len(text)],
         NEW w \in [1..K -> Texts], Ascend(a, b, K),
         NEW edits, NormalsOf(edits, text, a, b, w, K)
  PROVE  \E O : /\ Writes(O, text, a, b, w, K)
                /\ ApplyEdits(text, edits)
                     = Whole(O, text, b, K)
<1>1. PICK l \in Nat : l = Len(text)
  BY DEF Texts
<1> DEFINE cursor(n) == IF n = 1 THEN 0 ELSE edits[n - 1].end
           applied(f) ==
             [n \in 0..K |->
                IF n = 0 THEN <<>>
                ELSE f[n - 1] \o Slice(text, cursor(n), edits[n].start)
                              \o edits[n].newText]
           written(f) == Written(f, text, a, b, w, K)
           O == CHOOSE f : f = applied(f)
<1>2. \A n \in 1..(K + 1) : Cut(b, n) \in 0..l
  BY <1>1 DEF Cut
<1>3. \A n \in 1..(K + 1) : cursor(n) = Bytes(text, Cut(b, n))
  <2> TAKE n \in 1..(K + 1)
  <2>1. CASE n = 1
    <3>1. 0 \in 0..Len(text)
      BY <1>1
    <3> QED
      BY <2>1, <3>1, BytesAre DEF Cut
  <2>2. CASE n # 1
    <3>1. n - 1 \in 1..K
      BY <2>2
    <3>2. edits[n - 1] = Normal(text, a[n - 1], b[n - 1], w[n - 1])
      BY <3>1 DEF NormalsOf
    <3> QED
      BY <2>2, <3>2 DEF Cut, Normal
  <2> QED
    BY <2>1, <2>2
<1>4. \A n \in 1..(K + 1), m \in 0..l :
        Slice(text, cursor(n), Bytes(text, m))
          = SubSeq(text, Cut(b, n) + 1, m)
  <2> TAKE n \in 1..(K + 1), m \in 0..l
  <2>1. PICK c \in 0..l : c = Cut(b, n)
    BY <1>2
  <2>2. Slice(text, Bytes(text, c), Bytes(text, m)) = SubSeq(text, c + 1, m)
    BY <1>1, SliceIs
  <2> HIDE DEF cursor
  <2> QED
    BY <1>3, <2>1, <2>2
<1>5. ASSUME NEW n \in 1..K
      PROVE  /\ Slice(text, cursor(n), edits[n].start)
                  = SubSeq(text, Cut(b, n) + 1, a[n])
             /\ edits[n].newText = w[n]
  <2>1. edits[n].start = Bytes(text, a[n]) /\ edits[n].newText = w[n]
    BY DEF Normal, NormalsOf
  <2>2. n \in 1..(K + 1) /\ a[n] \in 0..l
    BY <1>1
  <2> HIDE DEF cursor
  <2> QED
    BY <1>4, <2>1, <2>2
<1> HIDE DEF cursor
<1>6. ASSUME NEW f PROVE applied(f) = written(f)
  <2>1. ASSUME NEW n \in 0..K PROVE applied(f)[n] = written(f)[n]
    <3>1. n = 0 \/ n \in 1..K
      OBVIOUS
    <3> QED
      BY <1>5, <3>1 DEF Written
  <2> QED
    BY <2>1 DEF Written
<1>7. /\ \E f : f = written(f)
      /\ \A f : f = written(f) => Writes(f, text, a, b, w, K)
  BY WritingIs
<1>8. O = applied(O)
  <2>1. \E f : f = applied(f)
    <3> HIDE DEF applied, written
    <3> QED
      BY <1>6, <1>7
  <2> HIDE DEF applied
  <2> QED
    BY <2>1, Zenon
<1>9. ApplyEdits(text, edits)
        = O[K] \o Slice(text, cursor(K + 1), Bytes(text, Len(text)))
  BY DEF ApplyEdits, NormalsOf, cursor
<1>10. Slice(text, cursor(K + 1), Bytes(text, Len(text)))
         = SubSeq(text, Cut(b, K + 1) + 1, Len(text))
  <2>1. K + 1 \in 1..(K + 1) /\ l \in 0..l
    OBVIOUS
  <2> QED
    BY <1>1, <1>4, <2>1
<1>11. Writes(O, text, a, b, w, K)
  <2> HIDE DEF O, applied, written
  <2> QED
    BY <1>6, <1>7, <1>8
<1> HIDE DEF O
<1> QED
  BY <1>9, <1>10, <1>11 DEF Whole

\* A plan for the edits of the input, in its order.
Planned(plan, text, a, b, w, K) ==
  /\ input.text = text /\ Len(input.edits) = K
  /\ \A i \in 1..K :
       /\ plan.ranges[plan.order[i]][1] = a[i]
       /\ plan.ranges[plan.order[i]][2] = b[i]
       /\ input.edits[plan.order[i]].newText = w[i]

\* Made, of the ranges and new texts in their order.
LEMMA MadeIs ==
  ASSUME NEW text \in Texts, NEW K \in Nat,
         NEW a \in [1..K -> 0..Len(text)], NEW b \in [1..K -> 0..Len(text)],
         NEW w \in [1..K -> Texts], Ascend(a, b, K),
         NEW plan, Planned(plan, text, a, b, w, K),
         NEW O, Writes(O, text, a, b, w, K)
  PROVE  Made(plan) = Whole(O, text, b, K)
<1> DEFINE range(i) == plan.ranges[plan.order[i]]
           new(i) == input.edits[plan.order[i]].newText
           back(i) == K + 1 - i
           round(f) == [n \in 0..K |->
                          IF n = 0 THEN text
                          ELSE Replace(f[n - 1], range(back(n)),
                                       new(back(n)))]
           M == CHOOSE f : f = round(f)
           replaced(n, t) == Replace(t, <<a[back(n)], b[back(n)]>>, w[back(n)])
           within(n, t) == b[back(n)] <= Len(t)
           step == [p \in (1..K) \X Texts |->
                      IF within(p[1], p[2]) THEN replaced(p[1], p[2])
                      ELSE <<>>]
<1>0. \A m : Makes(m, text, a, b, w, K) =>
        m[K] = Whole(O, text, b, K)
  BY BothWays
<1>1. \A n \in 1..K : back(n) \in 1..K
  OBVIOUS
<1>2. ASSUME NEW t, NEW n \in 1..K
      PROVE  Replace(t, range(back(n)), new(back(n))) = replaced(n, t)
  <2> HIDE DEF back
  <2> QED
    BY <1>1 DEF Planned, Replace
<1>3. ASSUME NEW n \in 1..K, NEW t \in Texts, within(n, t)
      PROVE  replaced(n, t) \in Texts
  <2>1. PICK p \in Nat, q \in Nat, l \in Nat, m \in Nat, v \in Texts :
          /\ p = a[back(n)] /\ q = b[back(n)] /\ l = Len(text) /\ m = Len(t)
          /\ v = w[back(n)]
    <3>1. PICK i \in 1..K : i = back(n)
      BY <1>1
    <3>2. a[i] \in Nat /\ b[i] \in Nat /\ w[i] \in Texts
      OBVIOUS
    <3>3. Len(text) \in Nat /\ Len(t) \in Nat
      BY DEF Texts
    <3> HIDE DEF back
    <3> QED
      BY <3>1, <3>2, <3>3
  <2>2. p <= q /\ q <= m
    BY <1>1, <1>3, <2>1 DEF Ascend
  <2>3. SubSeq(t, 1, p) \in Seq(Chars)
    <3>1. \A i \in 1..p : t[i] \in Chars
      BY <2>1, <2>2 DEF Texts
    <3> QED
      BY <2>1, <3>1, SubSeqProperties
  <2>4. SubSeq(t, q + 1, m) \in Seq(Chars)
    BY <2>1, PiecesAre DEF Texts
  <2>5. v \in Seq(Chars)
    BY DEF Texts
  <2> DEFINE left == SubSeq(t, 1, p)
             right == SubSeq(t, q + 1, m)
             both == left \o v
  <2> HIDE DEF left, right
  <2>6. both \in Seq(Chars)
    BY <2>3, <2>5, ConcatProperties DEF left
  <2> HIDE DEF both
  <2>7. both \o right \in Seq(Chars)
    BY <2>4, <2>6, ConcatProperties DEF right
  <2>8. replaced(n, t) = both \o right
    BY <2>1 DEF both, left, right, Replace
  <2> QED
    BY <2>7, <2>8 DEF Texts
<1> HIDE DEF replaced, within
<1>4. step \in [(1..K) \X Texts -> Texts]
  <2>1. <<>> \in Texts
    BY DEF Texts
  <2> QED
    BY <1>3, <2>1
<1>5. PICK f \in [0..K -> Texts] : IsRun(f, text, step, K)
  <2> HIDE DEF step
  <2> QED
    BY <1>4, RunExists
<1>6. \A n \in 0..K : f[n] = IF n = 0 THEN text ELSE step[<<n, f[n - 1]>>]
  BY <1>5 DEF IsRun
<1>7. /\ f[0] = text
      /\ \A n \in 1..K : /\ f[n - 1] \in Texts
                         /\ within(n, f[n - 1]) =>
                              f[n] = replaced(n, f[n - 1])
  <2>1. f[0] = text
    <3>1. 0 \in 0..K
      OBVIOUS
    <3> HIDE DEF step
    <3> QED
      BY <1>6, <3>1
  <2>2. ASSUME NEW n \in 1..K, within(n, f[n - 1])
        PROVE  f[n] = replaced(n, f[n - 1])
    <3>1. f[n] = step[<<n, f[n - 1]>>]
      <4>1. n \in 0..K /\ n # 0
        OBVIOUS
      <4> HIDE DEF step
      <4> QED
        BY <1>6, <4>1
    <3>2. f[n - 1] \in Texts
      OBVIOUS
    <3>3. step[<<n, f[n - 1]>>] = replaced(n, f[n - 1])
      BY <2>2, <3>2
    <3> QED
      BY <3>1, <3>3
  <2>3. \A n \in 1..K : f[n - 1] \in Texts
    OBVIOUS
  <2> HIDE DEF step
  <2> QED
    BY <2>1, <2>2, <2>3
<1> HIDE DEF step
<1>8. Makes(f, text, a, b, w, K)
  BY <1>7 DEF Makes, within, replaced
<1>9. \A n \in 1..K : within(n, f[n - 1])
  BY <1>8, BothWays DEF within
<1>10. f = round(f)
  <2>1. ASSUME NEW n \in 0..K PROVE f[n] = round(f)[n]
    <3>1. CASE n = 0
      BY <1>7, <3>1
    <3>2. CASE n # 0
      <4>1. n \in 1..K
        BY <3>2
      <4>2. f[n] = replaced(n, f[n - 1])
        BY <1>7, <1>9, <4>1
      <4>3. Replace(f[n - 1], range(back(n)), new(back(n)))
              = replaced(n, f[n - 1])
        BY <1>2, <4>1
      <4> HIDE DEF range, new, back
      <4> QED
        BY <3>2, <4>2, <4>3
    <3> QED
      BY <3>1, <3>2
  <2> HIDE DEF range, new, back
  <2> QED
    BY <2>1
<1>11. M = round(M)
  <2>1. \E g : g = round(g)
    BY <1>10
  <2> HIDE DEF round
  <2> QED
    BY <2>1, Zenon
<1>12. Made(plan) = M[K]
  BY DEF Planned, Made
<1> HIDE DEF M
<1>13. Makes(M, text, a, b, w, K)
  <2>1. \A n \in 0..K : M[n] = IF n = 0 THEN text
                               ELSE Replace(M[n - 1], range(back(n)),
                                            new(back(n)))
    <3> HIDE DEF range, new, back
    <3> QED
      BY <1>11
  <2> HIDE DEF range, new
  <2>2. M[0] = text
    BY <2>1
  <2>3. ASSUME NEW n \in 1..K PROVE M[n] = replaced(n, M[n - 1])
    <3>1. n \in 0..K /\ n # 0
      OBVIOUS
    <3>2. M[n] = Replace(M[n - 1], range(back(n)), new(back(n)))
      BY <2>1, <3>1
    <3> QED
      BY <1>2, <3>2
  <2> QED
    BY <2>2, <2>3 DEF Makes, replaced
<1>14. M[K] = Whole(O, text, b, K)
  BY <1>0, <1>13
<1> QED
  BY <1>12, <1>14

\* One text, written from the front or made from the back.
LEMMA AppliedIs ==
  ASSUME NEW text \in Texts, NEW K \in Nat,
         NEW a \in [1..K -> 0..Len(text)], NEW b \in [1..K -> 0..Len(text)],
         NEW w \in [1..K -> Texts], Ascend(a, b, K),
         NEW edits, NormalsOf(edits, text, a, b, w, K),
         NEW plan, Planned(plan, text, a, b, w, K)
  PROVE  ApplyEdits(text, edits) = Made(plan)
<1>1. PICK O : /\ Writes(O, text, a, b, w, K)
               /\ ApplyEdits(text, edits) = Whole(O, text, b, K)
  BY ApplyEditsIs
<1>2. Made(plan) = Whole(O, text, b, K)
  BY <1>1, MadeIs
<1> QED
  BY <1>1, <1>2

-----------------------------------------------------------------------------
(* The edits of the input                                                  *)

\* The plans are the ranges of the edits with an order that they follow in.
LEMMA PlansAre ==
  ASSUME NEW text \in Texts, NEW e \in Encodings, NEW edits \in Seq(RawEdits),
         input = [kind |-> "edits", text |-> text, encoding |-> e,
                  edits |-> edits]
  PROVE  /\ \A plan \in Plans :
              /\ RangesFor(plan.ranges, text, e, edits)
              /\ Follow(plan.ranges, plan.order, Len(edits))
         /\ \A ranges, order :
              /\ RangesFor(ranges, text, e, edits)
              /\ Follow(ranges, order, Len(edits))
              => [ranges |-> ranges, order |-> order] \in Plans
<1>1. PICK n \in Nat : n = Len(edits)
  OBVIOUS
<1> DEFINE meant == [i \in 1..n |-> Meant(edits[i], text, e)]
           All == UNION {meant[i] : i \in 1..n}
           Works(plan) ==
             /\ \A i \in 1..n : plan.ranges[i] \in meant[i]
             /\ \A i \in 1..n : \E j \in 1..n : plan.order[j] = i
             /\ \A i, j \in 1..n :
                  i < j => Apart(plan.ranges[plan.order[i]],
                                 plan.ranges[plan.order[j]])
<1>2. \A i \in 1..n : RangesOf(input.edits[i]) = Meant(edits[i], text, e)
  BY DEF RangesOf, Meant
<1>3. [i \in 1..n |-> RangesOf(input.edits[i])] = meant
  BY <1>2
<1>4. Plans = {plan \in [ranges : [1..n -> All], order : [1..n -> 1..n]] :
                 Works(plan)}
  <2> DEFINE found(m) == [i \in 1..m |-> RangesOf(input.edits[i])]
             of(m, f) ==
               {plan \in [ranges : [1..m -> UNION {f[i] : i \in 1..m}],
                          order : [1..m -> 1..m]] :
                  /\ \A i \in 1..m : plan.ranges[i] \in f[i]
                  /\ \A i \in 1..m : \E j \in 1..m : plan.order[j] = i
                  /\ \A i, j \in 1..m :
                       i < j => Apart(plan.ranges[plan.order[i]],
                                      plan.ranges[plan.order[j]])}
  <2>1. Len(input.edits) = n
    BY <1>1
  <2>2. Plans = of(Len(input.edits), found(Len(input.edits)))
    BY Zenon DEF Plans
  <2>3. found(n) = meant
    BY <1>3
  <2>4. Plans = of(n, meant)
    <3> HIDE DEF found, meant, of
    <3> QED
      BY <2>1, <2>2, <2>3
  <2> QED
    BY <2>4
<1>5. ASSUME NEW plan \in Plans
      PROVE  /\ RangesFor(plan.ranges, text, e, edits)
             /\ Follow(plan.ranges, plan.order, n)
  <2>1. /\ plan.ranges \in [1..n -> All] /\ plan.order \in [1..n -> 1..n]
        /\ Works(plan)
    <3> HIDE DEF All, Works
    <3> QED
      BY <1>4
  <2>2. \A i \in 1..n : plan.ranges[i] \in Meant(edits[i], text, e)
    BY <2>1
  <2>3. plan.ranges = [i \in 1..n |-> plan.ranges[i]]
    <3> HIDE DEF All, Works
    <3> QED
      BY <2>1
  <2>4. RangesFor(plan.ranges, text, e, edits)
    BY <1>1, <2>2, <2>3 DEF RangesFor
  <2>5. Follow(plan.ranges, plan.order, n)
    BY <2>1 DEF Follow
  <2> QED
    BY <2>4, <2>5
<1>6. ASSUME NEW ranges, NEW order, RangesFor(ranges, text, e, edits),
             Follow(ranges, order, n)
      PROVE  [ranges |-> ranges, order |-> order] \in Plans
  <2> DEFINE plan == [ranges |-> ranges, order |-> order]
  <2>1. plan.ranges = ranges /\ plan.order = order
    OBVIOUS
  <2>2. /\ ranges = [i \in 1..n |-> ranges[i]]
        /\ \A i \in 1..n : ranges[i] \in Meant(edits[i], text, e)
    BY <1>1, <1>6 DEF RangesFor
  <2>3. \A i \in 1..n : ranges[i] \in meant[i]
    BY <2>2
  <2>4. \A i \in 1..n : ranges[i] \in All
    <3> HIDE DEF meant
    <3> QED
      BY <2>3
  <2>5. ranges \in [1..n -> All]
    <3> HIDE DEF All
    <3> QED
      BY <2>2, <2>4
  <2>6. order \in [1..n -> 1..n]
    BY <1>6 DEF Follow
  <2>7. plan \in [ranges : [1..n -> All], order : [1..n -> 1..n]]
    <3> HIDE DEF All
    <3> QED
      BY <2>5, <2>6
  <2>8. Works(plan)
    <3> HIDE DEF meant, plan
    <3> QED
      BY <1>6, <2>1, <2>3 DEF Follow
  <2> HIDE DEF plan, Works, All
  <2>9. plan \in Plans
    BY <1>4, <2>7, <2>8
  <2> QED
    BY <2>9 DEF plan
<1> QED
  BY <1>1, <1>5, <1>6

\* What apply_edits makes of accepted edits is what their plan makes.
LEMMA AppliedIsMade ==
  ASSUME NEW text \in Texts, NEW e \in Encodings, NEW edits \in Seq(RawEdits),
         input = [kind |-> "edits", text |-> text, encoding |-> e,
                  edits |-> edits],
         NEW ranges, NEW order, RangesFor(ranges, text, e, edits),
         Follow(ranges, order, Len(edits))
  PROVE  LET sorted == InOrder(Normals(ranges, text, edits), order,
                               Len(edits))
         IN /\ \A i \in 1..Len(edits) :
                 sorted[i].oldText = SubSeq(text, ranges[order[i]][1] + 1,
                                            ranges[order[i]][2])
            /\ ApplyEdits(text, sorted)
                 = Made([ranges |-> ranges, order |-> order])
<1>1. PICK n \in Nat : n = Len(edits) /\ \A i \in 1..n : edits[i] \in RawEdits
  OBVIOUS
<1> DEFINE sorted == InOrder(Normals(ranges, text, edits), order, n)
           a == [i \in 1..n |-> ranges[order[i]][1]]
           b == [i \in 1..n |-> ranges[order[i]][2]]
           w == [i \in 1..n |-> edits[order[i]].newText]
           plan == [ranges |-> ranges, order |-> order]
<1>2. /\ order \in [1..n -> 1..n]
      /\ \A i, j \in 1..n :
           i < j => Apart(ranges[order[i]], ranges[order[j]])
  BY <1>1 DEF Follow
<1>3. \A i \in 1..n :
        /\ ranges[i][1] \in 0..Len(text) /\ ranges[i][2] \in 0..Len(text)
        /\ ranges[i][1] <= ranges[i][2]
  BY <1>1, NormalizeEditIs DEF RangesFor
<1>4. \A i \in 1..n : order[i] \in 1..n
  BY <1>2
<1>5. \A i \in 1..n :
        /\ a[i] \in 0..Len(text) /\ b[i] \in 0..Len(text) /\ a[i] <= b[i]
        /\ w[i] \in Texts
  BY <1>1, <1>3, <1>4 DEF RawEdits
<1>6. /\ a \in [1..n -> 0..Len(text)] /\ b \in [1..n -> 0..Len(text)]
      /\ w \in [1..n -> Texts]
  <2> DEFINE r(i) == ranges[order[i]]
             v(i) == edits[order[i]].newText
  <2>1. \A i \in 1..n : r(i)[1] \in 0..Len(text) /\ r(i)[2] \in 0..Len(text)
                        /\ v(i) \in Texts
    BY <1>5
  <2> HIDE DEF r, v
  <2>2. /\ [i \in 1..n |-> r(i)[1]] \in [1..n -> 0..Len(text)]
        /\ [i \in 1..n |-> r(i)[2]] \in [1..n -> 0..Len(text)]
        /\ [i \in 1..n |-> v(i)] \in [1..n -> Texts]
    BY <2>1
  <2> QED
    BY <2>2 DEF r, v
<1>7. Ascend(a, b, n)
  <2> SUFFICES ASSUME NEW i \in 1..n
               PROVE  Cut(b, i) <= a[i] /\ a[i] <= b[i]
    BY DEF Ascend
  <2>1. CASE i = 1
    <3>1. a[i] \in Nat
      BY <1>5
    <3> HIDE DEF a, b
    <3> QED
      BY <1>5, <2>1, <3>1 DEF Cut
  <2>2. CASE i # 1
    <3>1. PICK j \in 1..n : j = i - 1 /\ j < i
      BY <2>2
    <3>2. Apart(ranges[order[j]], ranges[order[i]])
      BY <1>2, <3>1
    <3>3. b[j] <= a[i]
      BY <3>2 DEF Apart
    <3> HIDE DEF a, b
    <3> QED
      BY <1>5, <2>2, <3>1, <3>3 DEF Cut
  <2> QED
    BY <2>1, <2>2
<1>8. \A i \in 1..n : sorted[i] = Normal(text, a[i], b[i], w[i])
  <2> TAKE i \in 1..n
  <2>1. PICK k \in 1..n : k = order[i]
    BY <1>4
  <2>2. Normals(ranges, text, edits)[k]
          = Normal(text, ranges[k][1], ranges[k][2], edits[k].newText)
    BY <1>1 DEF Normals
  <2>3. sorted[i] = Normals(ranges, text, edits)[k]
    BY <2>1 DEF InOrder
  <2>4. /\ a[i] = ranges[k][1] /\ b[i] = ranges[k][2]
        /\ w[i] = edits[k].newText
    BY <2>1
  <2> HIDE DEF sorted, a, b, w
  <2> QED
    BY <2>2, <2>3, <2>4
<1>9. Len(sorted) = n
  BY DEF InOrder
<1>10. \A i \in 1..n :
         sorted[i].oldText = SubSeq(text, ranges[order[i]][1] + 1,
                                    ranges[order[i]][2])
  <2> TAKE i \in 1..n
  <2>1. /\ a[i] = ranges[order[i]][1] /\ b[i] = ranges[order[i]][2]
        /\ sorted[i] = Normal(text, a[i], b[i], w[i])
    BY <1>8
  <2>2. Normal(text, a[i], b[i], w[i]).oldText = SubSeq(text, a[i] + 1, b[i])
    <3> HIDE DEF sorted, a, b, w
    <3> QED
      BY DEF Normal
  <2> HIDE DEF sorted, a, b, w
  <2> QED
    BY <2>1, <2>2
<1>11. Planned(plan, text, a, b, w, n)
  <2>1. input.text = text /\ input.edits = edits
    OBVIOUS
  <2>2. plan.ranges = ranges /\ plan.order = order
    OBVIOUS
  <2> HIDE DEF plan
  <2> QED
    BY <1>1, <2>1, <2>2 DEF Planned
<1>12. NormalsOf(sorted, text, a, b, w, n)
  <2> HIDE DEF sorted, a, b, w
  <2> QED
    BY <1>8, <1>9 DEF NormalsOf
<1>14. ApplyEdits(text, sorted) = Made(plan)
  <2> HIDE DEF sorted, a, b, w, plan
  <2> QED
    BY <1>6, <1>7, <1>11, <1>12, AppliedIs
<1> QED
  BY <1>1, <1>10, <1>14 DEF sorted, plan

-----------------------------------------------------------------------------
(* What has been made of each kind of input                                *)

IsNone == input = [kind |-> "none"] /\ output = <<>>
IsText ==
  /\ output = <<>>
  /\ \E text \in Texts : input = [kind |-> "text", text |-> text]
IsPosition ==
  \E text \in Texts, p \in PositionsOf, s \in Encodings, t \in Encodings :
    LET there == ConvertPosition(text, p, s, t) IN
    /\ input = [kind |-> "position", text |-> text, position |-> p,
                source |-> s, target |-> t]
    /\ \/ output = <<there>>
       \/ /\ IsOk(there)
          /\ output = <<there, ConvertPosition(text, Value(there), t, s)>>
IsEdits ==
  \E text \in Texts, edits \in Seq(RawEdits), e \in Encodings :
    LET normal == NormalizeEdits(edits, text, e) IN
    /\ input = [kind |-> "edits", text |-> text, encoding |-> e,
                edits |-> edits]
    /\ \/ output = <<normal>>
       \/ /\ IsOk(normal)
          /\ output = <<normal, ApplyEdits(text, Value(normal))>>
IsServers ==
  \E n \in Nat : \E outcomes \in [1..n -> UNION {Outcomes(s) : s \in 1..n}] :
    /\ \A s \in 1..n : outcomes[s] \in Outcomes(s)
    /\ input = [kind |-> "servers", outcomes |-> outcomes]
    /\ output = <<Merge(outcomes)>>
\* The index that the k-th page begins at.
From(k) == IF k = 1 THEN input.offset ELSE output[k - 1].nextOffset[1]
IsPages ==
  \E answer \in Seq(Symbols), limit \in Nat \ {0}, offset \in Nat :
    /\ input = [kind |-> "pages", answer |-> answer, limit |-> limit,
                offset |-> offset]
    /\ output \in Seq({Paginate(answer, limit, from, MaxBytes) : from \in Nat})
    /\ \A k \in 1..Len(output) :
         /\ k > 1 => output[k - 1].nextOffset # <<>>
         /\ output[k] = Paginate(answer, limit, From(k), MaxBytes)
IsRoute ==
  \E n \in Nat \ {0}, name \in Names : \E servers \in [1..n -> Servers] :
    /\ input = [kind |-> "route", servers |-> servers, name |-> name]
    /\ output \in Seq({Route(servers, name)}
                        \cup {RouteTo(servers, name, k) : k \in 1..n})
    /\ Len(output) \in 1..(n + 1)
    /\ output[1] = Route(servers, name)
    /\ \A k \in 2..Len(output) :
         output[k] = RouteTo(servers, name, k - 1)

Computed == \/ IsNone \/ IsText \/ IsPosition \/ IsEdits
            \/ IsServers \/ IsPages \/ IsRoute

\* The input's kind tells which of these holds.
LEMMA Kinds ==
  ASSUME Computed
  PROVE  /\ input.kind = "none" => IsNone
         /\ input.kind = "text" => IsText
         /\ input.kind = "position" => IsPosition
         /\ input.kind = "edits" => IsEdits
         /\ input.kind = "servers" => IsServers
         /\ input.kind = "pages" => IsPages
         /\ input.kind = "route" => IsRoute
<1>1. IsNone => input.kind = "none"
  BY DEF IsNone
<1>2. IsText => input.kind = "text"
  BY DEF IsText
<1>3. IsPosition => input.kind = "position"
  BY DEF IsPosition
<1>4. IsEdits => input.kind = "edits"
  BY DEF IsEdits
<1>5. IsServers => input.kind = "servers"
  BY DEF IsServers
<1>6. IsPages => input.kind = "pages"
  BY DEF IsPages
<1>7. IsRoute => input.kind = "route"
  BY DEF IsRoute
<1> QED
  BY <1>1, <1>2, <1>3, <1>4, <1>5, <1>6, <1>7 DEF Computed

\* A bounded text is a text.
LEMMA TextIsSeq ==
  ASSUME NEW length \in Nat, NEW text \in TextsUpTo(length)
  PROVE  text \in Texts
<1>1. PICK n \in 0..length : text \in [1..n -> Chars]
  BY DEF TextsUpTo
<1> QED
  BY <1>1 DEF Texts


\* The output with one more result.
LEMMA AppendOne ==
  ASSUME NEW x, NEW y
  PROVE  Append(<<x>>, y) = <<x, y>>
<1> DEFINE S == {x, y}
           one == <<x>>
           two == <<x, y>>
           all == Append(one, y)
<1>1. one \in Seq(S) /\ Len(one) = 1 /\ one[1] = x
  OBVIOUS
<1>2. two \in Seq(S) /\ Len(two) = 2 /\ two[1] = x /\ two[2] = y
  OBVIOUS
<1> HIDE DEF one, two
<1>3. y \in S
  OBVIOUS
<1> HIDE DEF S
<1>4. /\ all \in Seq(S) /\ Len(all) = 2
      /\ all[1] = x /\ all[2] = y
  <2>1. /\ Append(one, y) \in Seq(S)
        /\ Len(Append(one, y)) = Len(one) + 1
        /\ \A i \in 1..Len(one) : Append(one, y)[i] = one[i]
        /\ Append(one, y)[Len(one) + 1] = y
    BY <1>1, <1>3, AppendProperties, Zenon
  <2>2. Len(one) + 1 = 2 /\ 1 \in 1..Len(one)
    BY <1>1
  <2> QED
    BY <1>1, <2>1, <2>2
<1> HIDE DEF all
<1>5. all = two
  <2>1. \A i \in 1..Len(all) : all[i] = two[i]
    <3>1. \A i \in 1..2 : i = 1 \/ i = 2
      OBVIOUS
    <3> QED
      BY <1>2, <1>4, <3>1
  <2> QED
    BY <1>2, <1>4, <2>1, SeqEqual
<1> QED
  BY <1>5 DEF all, one, two

\* One lemma for each action: what it makes is computed from what there was.
LEMMA ReadTextStep ==
  ASSUME Computed, ReadText PROVE Computed'
<1>1. IsNone
  BY Kinds DEF ReadText
<1>2. PICK text \in TextsUpTo(TextLength) :
        input' = [kind |-> "text", text |-> text]
  BY DEF ReadText
<1>3. text \in Texts
  BY <1>2, TextIsSeq, ConversionsAssumption
<1>4. output' = <<>>
  BY <1>1 DEF IsNone, ReadText
<1> QED
  BY <1>2, <1>3, <1>4 DEF Computed, IsText

LEMMA GivePositionStep ==
  ASSUME Computed, GivePosition PROVE Computed'
<1>1. PICK text \in Texts : input = [kind |-> "text", text |-> text]
  BY Kinds DEF GivePosition, IsText
<1>2. input.text = text
  BY <1>1
<1>3. PICK d \in Directions, line \in 0..(Len(text) + 1),
           character \in 0..(Bytes(text, Len(text)) + 1) :
        LET p == Position(line, character) IN
        /\ input' = [kind |-> "position", text |-> text,
                     position |-> p, source |-> d[1], target |-> d[2]]
        /\ output' = <<ConvertPosition(text, p, d[1], d[2])>>
  BY <1>2, Zenon DEF GivePosition
<1> DEFINE p == Position(line, character)
<1>4. p \in PositionsOf
  <2>1. Len(text) \in Nat
    BY DEF Texts
  <2>2. Bytes(text, Len(text)) \in Nat
    BY <2>1, SumsAre DEF Bytes, Encodings
  <2>3. line \in Nat /\ character \in Nat
    BY <2>1, <2>2
  <2> QED
    BY <2>3 DEF Position, PositionsOf
<1>5. d[1] \in Encodings /\ d[2] \in Encodings
  BY DEF Directions, Encodings
<1>6. /\ input' = [kind |-> "position", text |-> text,
                   position |-> p, source |-> d[1], target |-> d[2]]
      /\ output' = <<ConvertPosition(text, p, d[1], d[2])>>
  BY <1>3
<1>7. IsPosition'
  <2> HIDE DEF p
  <2> QED
    BY <1>4, <1>5, <1>6 DEF IsPosition
<1> QED
  BY <1>7 DEF Computed

LEMMA ConvertBackStep ==
  ASSUME Computed, ConvertBack PROVE Computed'
<1>1. IsPosition
  BY Kinds DEF ConvertBack
<1>2. PICK text \in Texts, p \in PositionsOf,
           s \in Encodings, t \in Encodings :
        LET there == ConvertPosition(text, p, s, t) IN
        /\ input = [kind |-> "position", text |-> text, position |-> p,
                    source |-> s, target |-> t]
        /\ \/ output = <<there>>
           \/ /\ IsOk(there)
              /\ output = <<there, ConvertPosition(text, Value(there), t, s)>>
  BY <1>1, Zenon DEF IsPosition
<1> DEFINE there == ConvertPosition(text, p, s, t)
           back == ConvertPosition(text, Value(there), t, s)
<1>3. output = <<there>>
  BY <1>2 DEF ConvertBack
<1>4. input.text = text /\ input.target = t /\ input.source = s
  BY <1>2
<1>5. output[1] = there /\ IsOk(there)
  BY <1>3 DEF ConvertBack
<1>6. output' = Append(output, back)
  BY <1>4, <1>5 DEF ConvertBack
<1> HIDE DEF there, back
<1>7. output' = <<there, back>>
  BY <1>3, <1>6, AppendOne
<1>8. input' = [kind |-> "position", text |-> text, position |-> p,
                source |-> s, target |-> t]
  BY <1>2 DEF ConvertBack
<1>9. IsPosition'
  BY <1>5, <1>7, <1>8 DEF IsPosition, there, back
<1> QED
  BY <1>9 DEF Computed

LEMMA GiveEditsStep ==
  ASSUME Computed, GiveEdits PROVE Computed'
<1>1. PICK text \in Texts : input = [kind |-> "text", text |-> text]
  BY Kinds DEF GiveEdits, IsText
<1>2. input.text = text
  BY <1>1
<1>3. PICK e \in {"utf-8", "utf-16"}, n \in 0..MaxEdits :
        \E edits \in [1..n -> [start : EditPositions(text, e),
                               end : EditPositions(text, e),
                               newText : NewTexts]] :
          /\ input' = [kind |-> "edits", text |-> text, encoding |-> e,
                       edits |-> edits]
          /\ output' = <<NormalizeEdits(edits, text, e)>>
  BY <1>2, Zenon DEF GiveEdits
<1>4. PICK edits \in [1..n -> [start : EditPositions(text, e),
                               end : EditPositions(text, e),
                               newText : NewTexts]] :
          /\ input' = [kind |-> "edits", text |-> text, encoding |-> e,
                       edits |-> edits]
          /\ output' = <<NormalizeEdits(edits, text, e)>>
  BY <1>3
<1>5. e \in Encodings
  BY DEF Encodings
<1>6. EditPositions(text, e) \in SUBSET PositionsOf
  <2>1. \A m \in Places(text) : PositionOf(text, m, e) \in PositionsOf
    BY <1>5, PositionOfIs
  <2>2. Position(1, 1) \in PositionsOf
    BY DEF Position, PositionsOf
  <2> QED
    BY <2>1, <2>2 DEF EditPositions
<1>7. NewTexts \in SUBSET Texts /\ n \in Nat
  BY ConversionsAssumption DEF Texts
<1>8. edits \in [1..n -> RawEdits]
  BY <1>6, <1>7 DEF RawEdits
<1>9. edits \in Seq(RawEdits)
  BY <1>7, <1>8
<1>10. IsEdits'
  BY <1>4, <1>5, <1>9 DEF IsEdits
<1> QED
  BY <1>10 DEF Computed

LEMMA ApplyStep ==
  ASSUME Computed, Apply PROVE Computed'
<1>1. IsEdits
  BY Kinds DEF Apply
<1>2. PICK text \in Texts, edits \in Seq(RawEdits), e \in Encodings :
        LET normal == NormalizeEdits(edits, text, e) IN
        /\ input = [kind |-> "edits", text |-> text, encoding |-> e,
                    edits |-> edits]
        /\ \/ output = <<normal>>
           \/ /\ IsOk(normal)
              /\ output = <<normal, ApplyEdits(text, Value(normal))>>
  BY <1>1, Zenon DEF IsEdits
<1> DEFINE normal == NormalizeEdits(edits, text, e)
           applied == ApplyEdits(text, Value(normal))
<1>3. output = <<normal>>
  BY <1>2 DEF Apply
<1>4. input.text = text
  BY <1>2
<1>5. output[1] = normal /\ IsOk(normal)
  BY <1>3 DEF Apply
<1>6. output' = Append(output, applied)
  BY <1>4, <1>5 DEF Apply
<1> HIDE DEF normal, applied
<1>7. output' = <<normal, applied>>
  BY <1>3, <1>6, AppendOne
<1>8. input' = [kind |-> "edits", text |-> text, encoding |-> e,
                edits |-> edits]
  BY <1>2 DEF Apply
<1>9. IsEdits'
  BY <1>5, <1>7, <1>8 DEF IsEdits, normal, applied
<1> QED
  BY <1>9 DEF Computed

LEMMA AskServersStep ==
  ASSUME Computed, AskServers PROVE Computed'
<1>1. PICK n \in 0..MaxServers :
        \E outcomes \in {f \in [1..n -> UNION {Outcomes(s) : s \in 1..n}] :
                           \A s \in 1..n : f[s] \in Outcomes(s)} :
          /\ output' = <<Merge(outcomes)>>
          /\ input' = [kind |-> "servers", outcomes |-> outcomes]
  BY DEF AskServers
<1>2. n \in Nat
  BY ConversionsAssumption
<1>3. IsServers'
  BY <1>1, <1>2 DEF IsServers
<1> QED
  BY <1>3 DEF Computed

LEMMA AskStep ==
  ASSUME Computed, Ask PROVE Computed'
<1>1. IsServers /\ output[1].kind = "Ok"
  BY Kinds DEF Ask
<1>2. PICK n \in Nat :
        \E outcomes \in [1..n -> UNION {Outcomes(s) : s \in 1..n}] :
        /\ \A s \in 1..n : outcomes[s] \in Outcomes(s)
        /\ output = <<Merge(outcomes)>>
  BY <1>1 DEF IsServers
<1>3. PICK outcomes \in [1..n -> UNION {Outcomes(s) : s \in 1..n}] :
        /\ \A s \in 1..n : outcomes[s] \in Outcomes(s)
        /\ output = <<Merge(outcomes)>>
  BY <1>2
<1>4. Outcome(outcomes, n)
  BY <1>3 DEF Outcome
<1>5. output[1] = Merge(outcomes)
  BY <1>3
<1>6. PICK f : Joins(f, outcomes) /\ Merge(outcomes) = Found(f[n])
  BY <1>1, <1>4, <1>5, MergeIs DEF Failed, Unsupported
<1>7. output[1].items \in Seq(Symbols)
  <2>1. JoinOf(f[n], outcomes, n)
    BY <1>4, <1>6, JoinsAll
  <2> QED
    BY <1>5, <1>6, <2>1 DEF Found, JoinOf
<1>8. PICK limit \in 1..MaxLimit, offset \in 0..(MaxItems * MaxServers + 1) :
        input' = [kind |-> "pages", answer |-> output[1].items,
                  limit |-> limit, offset |-> offset]
  BY DEF Ask
<1>9. limit \in Nat \ {0} /\ offset \in Nat
  BY ConversionsAssumption
<1> DEFINE answer == output[1].items
<1>10. output' = <<>>
  BY DEF Ask
<1>11. /\ <<>> \in Seq({Paginate(answer, limit, from, MaxBytes)
                        : from \in Nat})
       /\ Len(<<>>) = 0
  OBVIOUS
<1>12. IsPages'
  <2> HIDE DEF answer
  <2>1. input' = [kind |-> "pages", answer |-> answer, limit |-> limit,
                  offset |-> offset]
    BY <1>8 DEF answer
  <2>2. answer \in Seq(Symbols)
    BY <1>7 DEF answer
  <2>3. 1..0 = {}
    OBVIOUS
  <2> QED
    BY <1>9, <1>10, <1>11, <2>1, <2>2, <2>3 DEF IsPages
<1> QED
  BY <1>12 DEF Computed

\* A page begins where a number says.
LEMMA FromIs ==
  ASSUME IsPages, NEW k \in 1..Len(output)
  PROVE  /\ From(k) \in Nat
         /\ output[k].nextOffset # <<>> => output[k].nextOffset[1] \in Nat
<1>1. PICK answer \in Seq(Symbols), limit \in Nat \ {0}, offset \in Nat :
        /\ input = [kind |-> "pages", answer |-> answer, limit |-> limit,
                    offset |-> offset]
        /\ output \in Seq({Paginate(answer, limit, from, MaxBytes)
                           : from \in Nat})
  BY DEF IsPages
<1>2. input.limit = limit /\ input.offset = offset
  BY <1>1
<1> DEFINE pages == {Paginate(answer, limit, from, MaxBytes) : from \in Nat}
<1>3. ASSUME NEW j \in 1..Len(output), output[j].nextOffset # <<>>
      PROVE  output[j].nextOffset[1] \in Nat
  <2>1. output[j] \in pages
    <3> HIDE DEF pages
    <3> QED
      BY <1>1 DEF pages
  <2>2. PICK from \in Nat : output[j] = Paginate(answer, limit, from, MaxBytes)
    BY <2>1
  <2>3. \A i \in DOMAIN output[j].nextOffset : output[j].nextOffset[i] \in Nat
    BY <1>2, <2>2, PaginateIsRight
  <2>4. output[j].nextOffset = <<>> \/ \E x : output[j].nextOffset = <<x>>
    BY <2>2 DEF Paginate
  <2>5. 1 \in DOMAIN output[j].nextOffset
    BY <1>3, <2>4
  <2> QED
    BY <2>3, <2>5
<1>4. From(k) \in Nat
  <2>1. CASE k = 1
    BY <1>2, <2>1 DEF From
  <2>2. CASE k # 1
    <3>1. k - 1 \in 1..Len(output) /\ k > 1
      BY <2>2
    <3>2. output[k - 1].nextOffset # <<>>
      BY <3>1 DEF IsPages
    <3> QED
      BY <1>3, <2>2, <3>1, <3>2 DEF From
  <2> QED
    BY <2>1, <2>2
<1> QED
  BY <1>3, <1>4

LEMMA NextPageStep ==
  ASSUME Computed, NextPage PROVE Computed'
<1>1. IsPages
  BY Kinds DEF NextPage
<1>2. PICK answer \in Seq(Symbols), limit \in Nat \ {0}, offset \in Nat :
        /\ input = [kind |-> "pages", answer |-> answer, limit |-> limit,
                    offset |-> offset]
        /\ output \in Seq({Paginate(answer, limit, from, MaxBytes)
                           : from \in Nat})
        /\ \A k \in 1..Len(output) :
             /\ k > 1 => output[k - 1].nextOffset # <<>>
             /\ output[k] = Paginate(answer, limit, From(k), MaxBytes)
  BY <1>1 DEF IsPages
<1>3. input.answer = answer /\ input.limit = limit /\ input.offset = offset
  BY <1>2
<1> DEFINE pages == {Paginate(answer, limit, from, MaxBytes) : from \in Nat}
           from == IF output = <<>> THEN offset
                   ELSE output[Len(output)].nextOffset[1]
           page == Paginate(answer, limit, from, MaxBytes)
<1>4. output' = Append(output, page) /\ input' = input
  BY <1>3 DEF NextPage
<1>5. PICK l \in Nat : l = Len(output)
  BY <1>2
<1>6. output # <<>> => l \in 1..l /\ output[l].nextOffset # <<>>
  <2>1. output # <<>> => l # 0
    BY <1>2, <1>5
  <2> QED
    BY <1>5, <2>1 DEF NextPage
<1>7. from \in Nat
  <2>1. CASE output = <<>>
    BY <2>1
  <2>2. CASE output # <<>>
    <3>1. l \in 1..Len(output) /\ output[l].nextOffset # <<>>
      BY <1>5, <1>6, <2>2
    <3>2. output[l].nextOffset[1] \in Nat
      BY <1>1, <3>1, FromIs
    <3> QED
      BY <1>5, <2>2, <3>2
  <2> QED
    BY <2>1, <2>2
<1>8. page \in pages
  <2> HIDE DEF from
  <2> QED
    BY <1>7
<1> HIDE DEF pages, page, from
<1>9. /\ output' \in Seq(pages)
      /\ Len(output') = l + 1
      /\ \A k \in 1..l : output'[k] = output[k]
      /\ output'[l + 1] = page
  <2>1. output \in Seq(pages)
    BY <1>2 DEF pages
  <2>2. /\ Append(output, page) \in Seq(pages)
        /\ Len(Append(output, page)) = Len(output) + 1
        /\ \A k \in 1..Len(output) : Append(output, page)[k] = output[k]
        /\ Append(output, page)[Len(output) + 1] = page
    BY <1>8, <2>1, AppendProperties
  <2> QED
    BY <1>4, <1>5, <2>2
<1> DEFINE at(k) == IF k = 1 THEN input'.offset
                    ELSE output'[k - 1].nextOffset[1]
<1>10. ASSUME NEW k \in 1..(l + 1)
       PROVE  /\ k > 1 => output'[k - 1].nextOffset # <<>>
              /\ output'[k] = Paginate(answer, limit, at(k), MaxBytes)
  <2>1. CASE k \in 1..l
    <3>1. k > 1 => k - 1 \in 1..l
      BY <2>1
    <3>2. at(k) = From(k)
      BY <1>4, <1>9, <2>1, <3>1 DEF From
    <3> HIDE DEF at
    <3> QED
      BY <1>2, <1>5, <1>9, <2>1, <3>1, <3>2
  <2>2. CASE k = l + 1
    <3>1. k > 1 => l \in 1..l /\ output # <<>> /\ k - 1 = l
      <4>1. Len(<<>>) = 0
        OBVIOUS
      <4> QED
        BY <1>5, <2>2, <4>1
    <3>2. k > 1 => output'[k - 1].nextOffset # <<>>
      BY <1>6, <1>9, <3>1
    <3>3. at(k) = from
      <4>1. CASE k = 1
        <5>1. l = 0 /\ output = <<>>
          BY <1>2, <1>5, <2>2, <4>1
        <5> QED
          BY <1>3, <1>4, <4>1, <5>1 DEF from
      <4>2. CASE k # 1
        <5>1. l \in 1..l /\ output # <<>> /\ k - 1 = l
          BY <2>2, <3>1, <4>2
        <5>2. output'[k - 1] = output[l]
          BY <1>9, <5>1
        <5> QED
          BY <1>5, <4>2, <5>1, <5>2 DEF from
      <4> QED
        BY <4>1, <4>2
    <3>4. output'[k] = page
      BY <1>9, <2>2
    <3> HIDE DEF at
    <3> QED
      BY <3>2, <3>3, <3>4 DEF page
  <2> QED
    BY <2>1, <2>2
<1>11. IsPages'
  <2>1. \A k \in 1..Len(output') :
          /\ k > 1 => output'[k - 1].nextOffset # <<>>
          /\ output'[k] = Paginate(answer, limit, From(k)', MaxBytes)
    BY <1>9, <1>10 DEF From
  <2>2. input' = [kind |-> "pages", answer |-> answer, limit |-> limit,
                  offset |-> offset]
    BY <1>2, <1>4
  <2>3. output' \in Seq({Paginate(answer, limit, x, MaxBytes) : x \in Nat})
    BY <1>9 DEF pages
  <2> QED
    BY <1>2, <2>1, <2>2, <2>3 DEF IsPages
<1> QED
  BY <1>11 DEF Computed

LEMMA ConfigureStep ==
  ASSUME Computed, Configure PROVE Computed'
<1>1. PICK n \in 1..MaxServers :
        \E servers \in [1..n -> Servers], name \in Names :
        /\ input' = [kind |-> "route", servers |-> servers, name |-> name]
        /\ output' = <<Route(servers, name)>>
  BY DEF Configure
<1>2. PICK servers \in [1..n -> Servers], name \in Names :
        /\ input' = [kind |-> "route", servers |-> servers, name |-> name]
        /\ output' = <<Route(servers, name)>>
  BY <1>1
<1>3. n \in Nat \ {0}
  BY ConversionsAssumption
<1> DEFINE route == Route(servers, name)
           routes == {route} \cup {RouteTo(servers, name, k) : k \in 1..n}
<1>4. route \in routes
  OBVIOUS
<1> HIDE DEF route, routes
<1>5. /\ <<route>> \in Seq(routes) /\ Len(<<route>>) = 1
      /\ <<route>>[1] = route
  BY <1>4
<1>6. output' = <<route>>
  BY <1>2 DEF route
<1>7. 2..1 = {} /\ 1 \in 1..(n + 1)
  BY <1>3
<1>8. IsRoute'
  <2>1. /\ output' \in Seq(routes) /\ Len(output') \in 1..(n + 1)
        /\ output'[1] = route
        /\ \A k \in 2..Len(output') :
             output'[k] = RouteTo(servers, name, k - 1)
    BY <1>5, <1>6, <1>7
  <2> QED
    BY <1>2, <1>3, <2>1 DEF IsRoute, route, routes
<1> QED
  BY <1>8 DEF Computed

LEMMA NameServerStep ==
  ASSUME Computed, NameServer PROVE Computed'
<1>1. IsRoute
  BY Kinds DEF NameServer
<1>2. PICK n \in Nat \ {0}, name \in Names : \E servers \in [1..n -> Servers] :
        /\ input = [kind |-> "route", servers |-> servers, name |-> name]
        /\ output \in Seq({Route(servers, name)}
                            \cup {RouteTo(servers, name, k) : k \in 1..n})
        /\ Len(output) \in 1..(n + 1)
        /\ output[1] = Route(servers, name)
        /\ \A k \in 2..Len(output) :
             output[k] = RouteTo(servers, name, k - 1)
  BY <1>1, Zenon DEF IsRoute
<1>3. PICK servers \in [1..n -> Servers] :
        /\ input = [kind |-> "route", servers |-> servers, name |-> name]
        /\ output \in Seq({Route(servers, name)}
                            \cup {RouteTo(servers, name, k) : k \in 1..n})
        /\ Len(output) \in 1..(n + 1)
        /\ output[1] = Route(servers, name)
        /\ \A k \in 2..Len(output) :
             output[k] = RouteTo(servers, name, k - 1)
  BY <1>2, Zenon
<1>4. input.servers = servers /\ input.name = name /\ Len(servers) = n
  BY <1>3
<1>5. PICK l \in 1..(n + 1) : l = Len(output)
  BY <1>3
<1>6. l \in 1..n
  BY <1>4, <1>5 DEF NameServer
<1> DEFINE routes == {Route(servers, name)}
                       \cup {RouteTo(servers, name, k) : k \in 1..n}
           new == RouteTo(servers, name, l)
<1>7. new \in routes
  BY <1>6
<1>8. output' = Append(output, new) /\ input' = input
  BY <1>4, <1>5 DEF NameServer
<1>9. output \in Seq(routes)
  BY <1>3
<1> HIDE DEF routes, new
<1>10. /\ output' \in Seq(routes)
       /\ Len(output') = l + 1
       /\ \A k \in 1..l : output'[k] = output[k]
       /\ output'[l + 1] = new
  <2>1. /\ Append(output, new) \in Seq(routes)
        /\ Len(Append(output, new)) = Len(output) + 1
        /\ \A k \in 1..Len(output) : Append(output, new)[k] = output[k]
        /\ Append(output, new)[Len(output) + 1] = new
    BY <1>7, <1>9, AppendProperties
  <2> QED
    BY <1>5, <1>8, <2>1
<1>11. /\ Len(output') \in 1..(n + 1)
       /\ output'[1] = Route(servers, name)
  <2>1. 1 \in 1..l
    OBVIOUS
  <2> QED
    BY <1>3, <1>6, <1>10, <2>1
<1>12. ASSUME NEW k \in 2..(l + 1)
       PROVE  output'[k] = RouteTo(servers, name, k - 1)
  <2>1. CASE k <= l
    <3>1. k \in 1..l /\ k \in 2..Len(output)
      BY <1>5, <2>1
    <3> QED
      BY <1>3, <1>10, <3>1
  <2>2. CASE k = l + 1
    <3>1. k - 1 = l
      BY <2>2
    <3> QED
      BY <1>10, <2>2, <3>1 DEF new
  <2> QED
    BY <2>1, <2>2
<1>13. IsRoute'
  <2>1. \A k \in 2..Len(output') : output'[k] = RouteTo(servers, name, k - 1)
    BY <1>10, <1>12
  <2>2. input' = [kind |-> "route", servers |-> servers, name |-> name]
    BY <1>3, <1>8
  <2>3. output' \in Seq({Route(servers, name)}
                          \cup {RouteTo(servers, name, k) : k \in 1..n})
    BY <1>10 DEF routes
  <2> QED
    BY <1>11, <2>1, <2>2, <2>3 DEF IsRoute
<1> QED
  BY <1>13 DEF Computed

\* Whatever the output holds has been computed from the input it stands with.
THEOREM AlwaysComputed == Spec => []Computed
<1>1. Init => Computed
  BY DEF Init, Computed, IsNone
<1>2. Computed /\ [Next]_vars => Computed'
  <2> SUFFICES ASSUME Computed, [Next]_vars PROVE Computed'
    OBVIOUS
  <2>1. CASE ReadText
    BY <2>1, ReadTextStep
  <2>2. CASE GivePosition
    BY <2>2, GivePositionStep
  <2>3. CASE ConvertBack
    BY <2>3, ConvertBackStep
  <2>4. CASE GiveEdits
    BY <2>4, GiveEditsStep
  <2>5. CASE Apply
    BY <2>5, ApplyStep
  <2>6. CASE AskServers
    BY <2>6, AskServersStep
  <2>7. CASE Ask
    BY <2>7, AskStep
  <2>8. CASE NextPage
    BY <2>8, NextPageStep
  <2>9. CASE Configure
    BY <2>9, ConfigureStep
  <2>10. CASE NameServer
    BY <2>10, NameServerStep
  <2>11. CASE UNCHANGED vars
    BY <2>11 DEF vars, Computed, IsNone, IsText, IsPosition, IsEdits,
                 IsServers, IsPages, IsRoute, From
  <2> QED
    BY <2>1, <2>2, <2>3, <2>4, <2>5, <2>6, <2>7, <2>8, <2>9, <2>10, <2>11
       DEF Next
<1> QED
  BY <1>1, <1>2, PTL DEF Spec

-----------------------------------------------------------------------------
(* What that means                                                         *)

\* A position was given: the conversion and the place it is of.
LEMMA PositionsAgreeIfComputed ==
  ASSUME Computed PROVE PositionsAgree
<1> SUFFICES ASSUME input.kind = "position" PROVE PositionsAgree
  BY DEF PositionsAgree
<1>1. PICK text \in Texts, p \in PositionsOf,
           s \in Encodings, t \in Encodings :
        LET there == ConvertPosition(text, p, s, t) IN
        /\ input = [kind |-> "position", text |-> text, position |-> p,
                    source |-> s, target |-> t]
        /\ \/ output = <<there>>
           \/ /\ IsOk(there)
              /\ output = <<there, ConvertPosition(text, Value(there), t, s)>>
  BY Kinds, Zenon DEF IsPosition
<1> DEFINE there == ConvertPosition(text, p, s, t)
           back == ConvertPosition(text, Value(there), t, s)
           places == PlacesAt(text, p, s)
<1>2. /\ input.text = text /\ input.position = p
      /\ input.source = s /\ input.target = t
  BY <1>1
<1>3. \A n \in places : /\ n \in Places(text)
                        /\ there = Ok(PositionOf(text, n, t))
                        /\ PositionOf(text, n, s) = p
  BY ConvertPlace DEF PlacesAt
<1>4. IsOk(there) => places # {}
  BY OnlyPlacesConvert DEF PlacesAt
<1>5. \A n \in places : IsOk(there) /\ Value(there) = PositionOf(text, n, t)
  BY <1>3 DEF Ok, IsOk, Value
<1>6. IsOk(there) => back = Ok(p)
  <2> SUFFICES ASSUME IsOk(there) PROVE back = Ok(p)
    OBVIOUS
  <2>1. PICK n \in places : TRUE
    BY <1>4
  <2>2. n \in Places(text) /\ Value(there) = PositionOf(text, n, t)
        /\ PositionOf(text, n, s) = p
    BY <1>3, <1>5
  <2> QED
    BY <2>2, ConvertPlace
<1>7. EndPosition(text, t) = PositionOf(text, Len(text), t)
  BY EndIsLastPlace
<1>8. \/ output = <<there>>
      \/ IsOk(there) /\ output = <<there, back>>
  BY <1>1
<1> HIDE DEF there, back
<1>9. output[1] = there /\ (Len(output) = 2 => IsOk(there) /\ output[2] = back)
  BY <1>8
<1>10. PlacesAt(input.text, input.position, input.source) = places
  BY <1>2
<1> HIDE DEF places
<1>11. /\ IsOk(output[1]) <=> places # {}
       /\ \A n \in places :
            Value(output[1]) = PositionOf(input.text, n, input.target)
       /\ Len(output) = 2 => output[2] = Ok(input.position)
       /\ EndPosition(input.text, input.target)
            = PositionOf(input.text, Len(input.text), input.target)
  BY <1>2, <1>4, <1>5, <1>6, <1>7, <1>9
<1> QED
  BY <1>10, <1>11 DEF PositionsAgree

\* A page was made, or an answer of several servers.
LEMMA PagesCoverIfComputed ==
  ASSUME Computed PROVE PagesCoverTheAnswer
<1>1. ASSUME input.kind = "pages", NEW k \in DOMAIN output
      PROVE  PageIsRight(output[k], input.answer,
                         IF k = 1 THEN input.offset
                         ELSE output[k - 1].nextOffset[1])
  <2>1. IsPages
    BY <1>1, Kinds
  <2>2. PICK answer \in Seq(Symbols), limit \in Nat \ {0}, offset \in Nat :
          /\ input = [kind |-> "pages", answer |-> answer, limit |-> limit,
                      offset |-> offset]
          /\ output \in Seq({Paginate(answer, limit, from, MaxBytes)
                             : from \in Nat})
          /\ \A j \in 1..Len(output) :
               output[j] = Paginate(answer, limit, From(j), MaxBytes)
    BY <2>1 DEF IsPages
  <2>3. input.answer = answer /\ input.limit = limit
    BY <2>2
  <2>4. k \in 1..Len(output)
    BY <2>2
  <2>5. From(k) \in Nat
    BY <2>1, <2>4, FromIs
  <2>6. output[k] = Paginate(answer, limit, From(k), MaxBytes)
    BY <2>2, <2>4
  <2>7. PageIsRight(output[k], answer, From(k))
    BY <2>3, <2>5, <2>6, PaginateIsRight
  <2> QED
    BY <2>3, <2>7 DEF From
<1>2. ASSUME input.kind = "servers", output[1].kind = "Ok"
      PROVE  LET items == output[1].items
                 outcomes == input.outcomes
                 servers == {s \in DOMAIN outcomes : outcomes[s].kind = "Ok"}
             IN /\ \A s \in DOMAIN outcomes : outcomes[s].kind # "Err"
                /\ {items[i] : i \in DOMAIN items}
                     = UNION {{outcomes[s].items[r]
                               : r \in DOMAIN outcomes[s].items}
                              : s \in servers}
                /\ \A i, j \in DOMAIN items :
                     i < j /\ items[i].server = items[j].server =>
                       items[i].rank < items[j].rank
  <2>1. PICK n \in Nat :
          \E outcomes \in [1..n -> UNION {Outcomes(s) : s \in 1..n}] :
            /\ \A s \in 1..n : outcomes[s] \in Outcomes(s)
            /\ input = [kind |-> "servers", outcomes |-> outcomes]
            /\ output = <<Merge(outcomes)>>
    BY <1>2, Kinds DEF IsServers
  <2>2. PICK outcomes \in [1..n -> UNION {Outcomes(s) : s \in 1..n}] :
            /\ \A s \in 1..n : outcomes[s] \in Outcomes(s)
            /\ input = [kind |-> "servers", outcomes |-> outcomes]
            /\ output = <<Merge(outcomes)>>
    BY <2>1
  <2>3. Outcome(outcomes, n) /\ DOMAIN outcomes = 1..n
    BY <2>2 DEF Outcome
  <2>4. output[1] = Merge(outcomes) /\ input.outcomes = outcomes
    BY <2>2
  <2>5. /\ \A s \in 1..n : outcomes[s].kind # "Err"
        /\ \E f : Joins(f, outcomes) /\ Merge(outcomes) = Found(f[n])
    <3>1. Merge(outcomes) # Failed /\ Merge(outcomes) # Unsupported
      BY <1>2, <2>4 DEF Failed, Unsupported
    <3> QED
      BY <2>3, <3>1, MergeIs
  <2>6. PICK f : Joins(f, outcomes) /\ Merge(outcomes) = Found(f[n])
    BY <2>5
  <2>7. JoinOf(f[n], outcomes, n)
    BY <2>3, <2>6, JoinsAll
  <2>8. output[1].items = f[n]
    BY <2>4, <2>6 DEF Found
  <2> DEFINE items == f[n]
             servers == {s \in 1..n : outcomes[s].kind = "Ok"}
  <2>9. /\ {items[i] : i \in DOMAIN items}
             = UNION {{outcomes[s].items[r] : r \in DOMAIN outcomes[s].items}
                      : s \in servers}
        /\ \A i, j \in DOMAIN items :
             i < j /\ items[i].server = items[j].server =>
               items[i].rank < items[j].rank
    <3> HIDE DEF items
    <3>1. JoinOf(items, outcomes, n)
      BY <2>7 DEF items
    <3> QED
      BY <3>1 DEF JoinOf, Said
  <2> HIDE DEF items
  <2>10. output[1].items = items
    BY <2>8 DEF items
  <2>11. \A s \in DOMAIN input.outcomes : input.outcomes[s].kind # "Err"
    BY <2>3, <2>4, <2>5
  <2>12. {output[1].items[i] : i \in DOMAIN output[1].items}
           = {items[i] : i \in DOMAIN items}
    BY <2>10
  <2>13. {s \in DOMAIN input.outcomes : input.outcomes[s].kind = "Ok"}
           = servers
    BY <2>3, <2>4
  <2>14. UNION {{input.outcomes[s].items[r]
                 : r \in DOMAIN input.outcomes[s].items} : s \in servers}
           = UNION {{outcomes[s].items[r] : r \in DOMAIN outcomes[s].items}
                    : s \in servers}
    BY <2>4
  <2>15. \A i, j \in DOMAIN output[1].items :
           i < j /\ output[1].items[i].server = output[1].items[j].server =>
             output[1].items[i].rank < output[1].items[j].rank
    BY <2>9, <2>10
  <2> HIDE DEF servers
  <2> QED
    BY <2>9, <2>11, <2>12, <2>13, <2>14, <2>15
<1> QED
  BY <1>1, <1>2 DEF PagesCoverTheAnswer

\* A file was routed without a name, and then with each.
LEMMA RoutesAgreeIfComputed ==
  ASSUME Computed PROVE RoutesAgree
<1> SUFFICES ASSUME input.kind = "route",
                    Len(output) = Len(input.servers) + 1
             PROVE  RoutesAgree
  BY DEF RoutesAgree
<1>1. PICK n \in Nat \ {0}, name \in Names : \E servers \in [1..n -> Servers] :
        /\ input = [kind |-> "route", servers |-> servers, name |-> name]
        /\ output \in Seq({Route(servers, name)}
                            \cup {RouteTo(servers, name, k) : k \in 1..n})
        /\ Len(output) \in 1..(n + 1)
        /\ output[1] = Route(servers, name)
        /\ \A k \in 2..Len(output) :
             output[k] = RouteTo(servers, name, k - 1)
  BY Kinds, Zenon DEF IsRoute
<1>2. PICK servers \in [1..n -> Servers] :
        /\ input = [kind |-> "route", servers |-> servers, name |-> name]
        /\ output \in Seq({Route(servers, name)}
                            \cup {RouteTo(servers, name, k) : k \in 1..n})
        /\ output[1] = Route(servers, name)
        /\ \A k \in 2..Len(output) :
             output[k] = RouteTo(servers, name, k - 1)
  BY <1>1, Zenon
<1>3. /\ input.servers = servers /\ input.name = name
      /\ Len(servers) = n /\ Len(output) = n + 1
  BY <1>2
<1> DEFINE routes == {Route(servers, name)}
                       \cup {RouteTo(servers, name, k) : k \in 1..n}
           named == Tail(output)
           routed == {k \in DOMAIN named : named[k].kind = "Route"}
           torn == {k \in DOMAIN named : named[k].kind = "AmbiguousLanguages"}
           Stem(e) == {stem \in 1..Len(input.name) :
                         SubSeq(input.name, 1, stem) \o e = input.name}
           fits(k) == {e \in DOMAIN input.servers[k].extensions : Stem(e) # {}}
           patterns(k) == {p \in input.servers[k].patterns :
                             input.name \in p.matches}
<1>4. output \in Seq(routes) /\ output # <<>>
  <2>1. Len(<<>>) = 0
    OBVIOUS
  <2> QED
    BY <1>2, <1>3, <2>1
<1>5. /\ DOMAIN named = 1..n
      /\ \A k \in 1..n : named[k] = RouteTo(servers, name, k)
  <2> HIDE DEF routes
  <2>1. /\ Tail(output) \in Seq(routes)
        /\ Len(Tail(output)) = n
        /\ \A k \in 1..n : Tail(output)[k] = output[k + 1]
    BY <1>3, <1>4, HeadTailProperties
  <2>2. ASSUME NEW k \in 1..n PROVE output[k + 1] = RouteTo(servers, name, k)
    <3>1. PICK j \in 2..Len(output) : j = k + 1 /\ j - 1 = k
      BY <1>3
    <3>2. output[j] = RouteTo(servers, name, j - 1)
      BY <1>2
    <3> QED
      BY <3>1, <3>2
  <2> QED
    BY <2>1, <2>2
<1>6. /\ routed = {k \in 1..n : RouteTo(servers, name, k).kind = "Route"}
      /\ torn = {k \in 1..n : RouteTo(servers, name, k).kind
                                = "AmbiguousLanguages"}
  <2> HIDE DEF named
  <2> QED
    BY <1>5
<1>7. /\ output[1].kind = "AmbiguousLanguages" <=> torn # {}
      /\ output[1].kind = "Route" <=> torn = {} /\ Cardinality(routed) = 1
      /\ output[1].kind = "NoMatch" <=> torn \cup routed = {}
      /\ output[1].kind = "Route" => \E k \in routed : output[1] = named[k]
  <2> DEFINE R == {k \in 1..n : RouteTo(servers, name, k).kind = "Route"}
             T == {k \in 1..n : RouteTo(servers, name, k).kind
                                   = "AmbiguousLanguages"}
             unnamed == Route(servers, name)
  <2>0. /\ unnamed.kind = "AmbiguousLanguages" <=> T # {}
        /\ unnamed.kind = "Route" <=> T = {} /\ Cardinality(R) = 1
        /\ unnamed.kind = "NoMatch" <=> T \cup R = {}
        /\ unnamed.kind = "Route" =>
             \E k \in R : unnamed = RouteTo(servers, name, k)
    BY RouteIs
  <2> HIDE DEF named, routed, torn
  <2>1. /\ output[1].kind = "AmbiguousLanguages" <=> torn # {}
        /\ output[1].kind = "Route" <=> torn = {} /\ Cardinality(routed) = 1
        /\ output[1].kind = "NoMatch" <=> torn \cup routed = {}
        /\ output[1].kind = "Route" =>
             \E k \in routed : output[1] = RouteTo(servers, name, k)
    <3> HIDE DEF R, T, unnamed
    <3>1. routed = R /\ torn = T /\ output[1] = unnamed
      BY <1>2, <1>6 DEF R, T, unnamed
    <3> QED
      BY <2>0, <3>1
  <2>2. routed \in SUBSET (1..n)
    BY <1>6
  <2> QED
    BY <1>5, <2>1, <2>2
<1>8. ASSUME NEW k \in routed
      PROVE  IF patterns(k) # {}
               THEN \A p \in patterns(k) : named[k].language = p.language
               ELSE \E e \in fits(k) :
                      /\ named[k].language = input.servers[k].extensions[e]
                      /\ \A longer \in fits(k) : Len(longer) <= Len(e)
  <2> DEFINE server == servers[k]
             result == LanguageIdForPath(server, name)
  <2>1. k \in 1..n /\ RouteTo(servers, name, k).kind = "Route"
    BY <1>6
  <2>2. server \in Servers
    BY <2>1
  <2>3. result.kind = "Language" /\ named[k].language = result.language
    <3> HIDE DEF named, routed
    <3>1. /\ RouteTo(servers, name, k).kind = "Route"
               <=> Result(servers, name, k).kind = "Language"
          /\ RouteTo(servers, name, k).kind = "Route"
               => RouteTo(servers, name, k).language
                    = Result(servers, name, k).language
      BY <2>1, RouteToIs
    <3> QED
      BY <1>5, <2>1, <3>1 DEF Result
  <2>4. fits(k) = Fits(server, name) /\ patterns(k) = PatternsFor(server, name)
    BY <1>3 DEF Fits, Stems, PatternsFor
  <2>5. IF PatternsFor(server, name) # {}
          THEN \A p \in PatternsFor(server, name) :
                 result.language = p.language
          ELSE \E e \in Fits(server, name) :
                 /\ result.language = server.extensions[e]
                 /\ \A longer \in Fits(server, name) : Len(longer) <= Len(e)
    BY <2>2, <2>3, LanguageIs
  <2> HIDE DEF named, fits, patterns, result
  <2> QED
    BY <1>3, <2>3, <2>4, <2>5
<1> QED
  BY <1>7, <1>8, Zenon DEF RoutesAgree

\* A file's edits were normalized, and perhaps applied.
LEMMA EditsLandIfComputed ==
  ASSUME Computed PROVE EditsLandWhereMeant
<1> SUFFICES ASSUME input.kind = "edits" PROVE EditsLandWhereMeant
  BY DEF EditsLandWhereMeant
<1>1. PICK text \in Texts, edits \in Seq(RawEdits), e \in Encodings :
        LET normal == NormalizeEdits(edits, text, e) IN
        /\ input = [kind |-> "edits", text |-> text, encoding |-> e,
                    edits |-> edits]
        /\ \/ output = <<normal>>
           \/ /\ IsOk(normal)
              /\ output = <<normal, ApplyEdits(text, Value(normal))>>
  BY Kinds, Zenon DEF IsEdits
<1> DEFINE normal == NormalizeEdits(edits, text, e)
           applied == ApplyEdits(text, Value(normal))
           n == Len(edits)
<1>2. /\ input = [kind |-> "edits", text |-> text, encoding |-> e,
                  edits |-> edits]
      /\ input.text = text /\ input.edits = edits
  BY <1>1
<1>3. output[1] = normal /\ (Len(output) = 2 => output[2] = applied)
  <2>1. output = <<normal>> \/ output = <<normal, applied>>
    BY <1>1
  <2> HIDE DEF normal, applied
  <2> QED
    BY <2>1
<1>4. \A plan \in Plans : IsOk(normal)
  <2> TAKE plan \in Plans
  <2>1. /\ RangesFor(plan.ranges, text, e, edits)
        /\ Follow(plan.ranges, plan.order, Len(edits))
    BY <1>2, PlansAre
  <2> QED
    BY <2>1, FollowingAccepted
<1>5. ASSUME IsOk(normal)
      PROVE  \E plan \in Plans :
               /\ \A i \in 1..n :
                    LET range == plan.ranges[plan.order[i]] IN
                    Value(normal)[i].oldText
                      = SubSeq(text, range[1] + 1, range[2])
               /\ applied = Made(plan)
  <2>1. PICK ranges, order :
          /\ RangesFor(ranges, text, e, edits)
          /\ Follow(ranges, order, n)
          /\ Value(normal) = InOrder(Normals(ranges, text, edits), order, n)
    BY <1>5, AcceptedFollow
  <2> DEFINE plan == [ranges |-> ranges, order |-> order]
             sorted == InOrder(Normals(ranges, text, edits), order, n)
  <2>2. plan \in Plans
    BY <1>2, <2>1, PlansAre
  <2>3. /\ \A i \in 1..n :
             sorted[i].oldText = SubSeq(text, ranges[order[i]][1] + 1,
                                        ranges[order[i]][2])
        /\ ApplyEdits(text, sorted) = Made(plan)
    BY <1>2, <2>1, AppliedIsMade
  <2>4. Value(normal) = sorted /\ applied = ApplyEdits(text, sorted)
    BY <2>1
  <2>5. plan.ranges = ranges /\ plan.order = order
    OBVIOUS
  <2> HIDE DEF normal, applied, sorted, plan
  <2>6. \A i \in 1..n :
          LET range == plan.ranges[plan.order[i]] IN
          Value(normal)[i].oldText = SubSeq(text, range[1] + 1, range[2])
    BY <2>3, <2>4, <2>5
  <2> QED
    BY <2>2, <2>3, <2>4, <2>6
<1>6. Plans # {} <=> IsOk(normal)
  <2> HIDE DEF normal, applied, n
  <2> QED
    BY <1>4, <1>5
<1> HIDE DEF normal, applied
<1>7. IsOk(normal) =>
        \E plan \in Plans :
          /\ \A i \in 1..Len(input.edits) :
               LET range == plan.ranges[plan.order[i]] IN
               Value(output[1])[i].oldText
                 = SubSeq(input.text, range[1] + 1, range[2])
          /\ Len(output) = 2 => output[2] = Made(plan)
  <2>1. input.text = text /\ input.edits = edits
    BY <1>2
  <2> SUFFICES ASSUME IsOk(normal)
               PROVE  \E plan \in Plans :
                        /\ \A i \in 1..Len(edits) :
                             LET range == plan.ranges[plan.order[i]] IN
                             Value(normal)[i].oldText
                               = SubSeq(text, range[1] + 1, range[2])
                        /\ Len(output) = 2 => applied = Made(plan)
    BY <1>3, <2>1
  <2>2. PICK plan \in Plans :
          /\ \A i \in 1..n :
               LET range == plan.ranges[plan.order[i]] IN
               Value(normal)[i].oldText
                 = SubSeq(text, range[1] + 1, range[2])
          /\ applied = Made(plan)
    BY <1>5
  <2> QED
    BY <2>2
<1>8. IsOk(output[1]) <=> IsOk(normal)
  BY <1>3
<1> QED
  BY <1>6, <1>7, <1>8 DEF EditsLandWhereMeant

-----------------------------------------------------------------------------
(* The theorems                                                            *)

\* A position is converted exactly when it lies before a character of its
\* line or at the line's end, to the position of the same place in the other
\* encoding, and the way back undoes it; end_position is behind everything.
\* PositionConverter walks to both in a text of any length.
THEOREM PositionsStayTrue == Spec => []PositionsAgree
BY AlwaysComputed, PositionsAgreeIfComputed, PTL

\* A file's edits are accepted exactly when each denotes a range and no two
\* meet but end to end, though reject_overlaps compares neighbours only; each
\* shows what it replaces, and apply_edits, which writes from the front, makes
\* what replacing the ranges from the back does, for any number of edits.
THEOREM EditsStayTrue == Spec => []EditsLandWhereMeant
BY AlwaysComputed, EditsLandIfComputed, PTL

\* Whoever follows nextOffset meets every item of an answer once and in order,
\* no page is over its limit or its bytes, and none but the last one stands
\* still (paginate); the symbols of several servers are merged without loss.
THEOREM PagesStayTrue == Spec => []PagesCoverTheAnswer
BY AlwaysComputed, PagesCoverIfComputed, PTL

\* A file has the same server and language whether or not the caller names the
\* server, and an unnamed route exactly when one server speaks for it
\* (select_server and language_id_for_path), for every configuration.
THEOREM RoutesStayTrue == Spec => []RoutesAgree
BY AlwaysComputed, RoutesAgreeIfComputed, PTL
=============================================================================
