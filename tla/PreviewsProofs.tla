--------------------------- MODULE PreviewsProofs ---------------------------
(***************************************************************************)
(* Proofs about Previews, for every limit and every preview: the store     *)
(* counts the bytes it retains and stays within both limits.  What a store *)
(* retains is a sum over its previews; what is so of all sums is shown by  *)
(* the least length of which it would not be so.                           *)
(***************************************************************************)
EXTENDS Previews, TLAPS, WellFoundedInduction, SequenceTheorems

-----------------------------------------------------------------------------
(* The least of a set of numbers, and sums                                 *)

LEMMA LeastExists ==
  ASSUME NEW S \in SUBSET Nat, S # {}
  PROVE  \E n \in S : \A m \in S : n <= m
<1>1. IsWellFoundedOn(OpToRel(<, Nat), Nat)
  BY NatLessThanWellFounded
<1>2. PICK n \in S : \A m \in S : ~(<<m, n>> \in OpToRel(<, Nat))
  BY <1>1, WFMin
<1>3. \A m \in S : ~(m < n)
  BY <1>2 DEF OpToRel
<1> QED
  BY <1>3

LEMMA LeastIs ==
  ASSUME NEW S \in SUBSET Nat, S # {}
  PROVE  LeastOf(S) \in S /\ \A m \in S : LeastOf(S) <= m
  BY LeastExists DEF LeastOf

\* f[n] is what the first n previews of s retain.
IsSum(f, s) ==
  f = [n \in 0..Len(s) |-> IF n = 0 THEN 0 ELSE f[n - 1] + s[n].size]
SumTo(f, s, m) ==
  f = [n \in 0..m |-> IF n = 0 THEN 0 ELSE f[n - 1] + s[n].size]

LEMMA SumsExist ==
  ASSUME NEW s, Len(s) \in Nat
  PROVE  \E f : IsSum(f, s)
<1> DEFINE Missing == {m \in Nat : ~\E f : SumTo(f, s, m)}
<1>1. Missing = {}
  <2> SUFFICES ASSUME Missing # {} PROVE FALSE
    OBVIOUS
  <2>1. PICK m \in Missing : \A k \in Missing : m <= k
    BY LeastExists
  <2>2. CASE m = 0
    <3> DEFINE f == [n \in 0..0 |-> 0]
    <3>1. SumTo(f, s, 0)
      BY DEF SumTo
    <3> QED
      BY <2>1, <2>2, <3>1
  <2>3. CASE m # 0
    <3>1. m - 1 \in Nat /\ m - 1 \notin Missing
      BY <2>1, <2>3
    <3>2. PICK f : SumTo(f, s, m - 1)
      BY <3>1
    <3> DEFINE g == [n \in 0..m |-> IF n = m THEN f[m - 1] + s[m].size
                                    ELSE f[n]]
    <3>3. ASSUME NEW n \in 0..m
          PROVE  g[n] = IF n = 0 THEN 0 ELSE g[n - 1] + s[n].size
      <4>1. CASE n = m
        <5>1. n - 1 \in 0..m /\ n - 1 # m
          BY <2>3, <4>1
        <5> QED
          BY <2>3, <4>1, <5>1
      <4>2. CASE n # m
        <5>1. n \in 0..(m - 1)
          BY <4>2
        <5>2. f[n] = IF n = 0 THEN 0 ELSE f[n - 1] + s[n].size
          BY <3>2, <5>1 DEF SumTo
        <5>3. n # 0 => n - 1 \in 0..m /\ n - 1 # m
          BY <4>2
        <5> QED
          BY <4>2, <5>2, <5>3
      <4> QED
        BY <4>1, <4>2
    <3>4. DOMAIN g = 0..m
      OBVIOUS
    <3>5. SumTo(g, s, m)
      <4> HIDE DEF g
      <4>1. DEFINE h == [n \in 0..m |-> IF n = 0 THEN 0
                                        ELSE g[n - 1] + s[n].size]
      <4>2. \A n \in 0..m : g[n] = h[n]
        BY <3>3
      <4>3. g = [n \in 0..m |-> g[n]]
        BY DEF g
      <4> QED
        BY <4>2, <4>3 DEF SumTo
    <3> QED
      BY <2>1, <3>5
  <2> QED
    BY <2>2, <2>3
<1> QED
  BY <1>1 DEF IsSum, SumTo

LEMMA RetainedIsSum ==
  ASSUME NEW s, Len(s) \in Nat
  PROVE  \E f : IsSum(f, s) /\ Retained(s) = f[Len(s)]
<1> DEFINE g == CHOOSE f : IsSum(f, s)
<1>1. IsSum(g, s)
  BY SumsExist, Zenon
<1>2. Retained(s) = g[Len(s)]
  BY DEF Retained, IsSum
<1> QED
  BY <1>1, <1>2

LEMMA SumNext ==
  ASSUME NEW s, Len(s) \in Nat, NEW f, IsSum(f, s)
  PROVE  /\ f[0] = 0
         /\ \A n \in 1..Len(s) : f[n] = f[n - 1] + s[n].size
<1>1. \A n \in 0..Len(s) :
        f[n] = IF n = 0 THEN 0 ELSE f[n - 1] + s[n].size
  BY DEF IsSum
<1> QED
  BY <1>1

Sized(s) == Len(s) \in Nat /\ \A n \in 1..Len(s) : s[n].size \in Nat

LEMMA SumInNat ==
  ASSUME NEW s, Sized(s), NEW f, IsSum(f, s)
  PROVE  \A n \in 0..Len(s) : f[n] \in Nat
<1> DEFINE Bad == {n \in 0..Len(s) : f[n] \notin Nat}
<1>1. /\ f[0] = 0
      /\ \A n \in 1..Len(s) : f[n] = f[n - 1] + s[n].size
  BY SumNext DEF Sized
<1> SUFFICES ASSUME Bad # {} PROVE FALSE
  OBVIOUS
<1>2. Bad \in SUBSET Nat
  BY DEF Sized
<1>3. PICK n \in Bad : \A k \in Bad : n <= k
  BY <1>2, LeastExists
<1>4. n # 0 /\ n \in 1..Len(s)
  BY <1>1, <1>3 DEF Sized
<1>5. n - 1 \in 0..Len(s) /\ n - 1 \notin Bad
  BY <1>3, <1>4 DEF Sized
<1> QED
  BY <1>1, <1>3, <1>4, <1>5 DEF Sized

\* A stretch of a sequence retains what the sums differ by at its ends.
LEMMA StretchSum ==
  ASSUME NEW s, Sized(s), NEW f, IsSum(f, s),
         NEW z, Sized(z), NEW g, IsSum(g, z),
         NEW o \in Nat, NEW l \in Nat, o + l <= Len(s), l <= Len(z),
         \A k \in 1..l : z[k] = s[o + k]
  PROVE  f[o + l] = f[o] + g[l]
<1> DEFINE Bad == {n \in 0..l : f[o + n] # f[o] + g[n]}
<1>1. /\ g[0] = 0
      /\ \A n \in 1..Len(s) : f[n] = f[n - 1] + s[n].size
      /\ \A n \in 1..Len(z) : g[n] = g[n - 1] + z[n].size
  BY SumNext DEF Sized
<1>2. /\ \A n \in 0..Len(s) : f[n] \in Nat
      /\ \A n \in 0..Len(z) : g[n] \in Nat
  BY SumInNat
<1>3. Len(s) \in Nat /\ Len(z) \in Nat
      /\ \A n \in 1..Len(z) : z[n].size \in Nat
  BY DEF Sized
<1> SUFFICES ASSUME Bad # {} PROVE FALSE
  OBVIOUS
<1>4. Bad \in SUBSET Nat
  OBVIOUS
<1>5. PICK n \in Bad : \A k \in Bad : n <= k
  BY <1>4, LeastExists
<1>6. CASE n = 0
  <2>1. f[o + 0] = f[o] /\ f[o] \in Nat
    BY <1>2, <1>3
  <2> QED
    BY <1>1, <1>5, <1>6, <2>1
<1>7. CASE n # 0
  <2>1. n - 1 \in 0..l /\ n - 1 \notin Bad /\ n \in 1..l
    BY <1>5, <1>7
  <2>2. f[o + (n - 1)] = f[o] + g[n - 1]
    BY <2>1
  <2>3. o + n \in 1..Len(s) /\ (o + n) - 1 = o + (n - 1) /\ n \in 1..Len(z)
    BY <1>3, <2>1
  <2>4. f[o + n] = f[o + (n - 1)] + s[o + n].size
    BY <1>1, <2>3
  <2>5. g[n] = g[n - 1] + z[n].size /\ z[n] = s[o + n]
    BY <1>1, <2>1, <2>3
  <2>6. f[o] \in Nat
    <3>1. o \in 0..Len(s)
      BY <1>3
    <3> QED
      BY <1>2, <3>1
  <2>7. g[n - 1] \in Nat
    <3>1. n - 1 \in 0..Len(z)
      BY <1>3, <2>3
    <3> QED
      BY <1>2, <3>1
  <2>8. z[n].size \in Nat
    BY <1>3, <2>3
  <2>9. f[o + n] = f[o] + g[n]
    <3> DEFINE a == f[o]
               b == g[n - 1]
               c == z[n].size
    <3>1. f[o + n] = (a + b) + c /\ g[n] = b + c
      BY <2>2, <2>4, <2>5
    <3>2. a \in Nat /\ b \in Nat /\ c \in Nat
      BY <2>6, <2>7, <2>8
    <3> HIDE DEF a, b, c
    <3>3. (a + b) + c = a + (b + c)
      BY <3>2
    <3> QED
      BY <3>1, <3>3 DEF a
  <2> QED
    BY <1>5, <2>9
<1> QED
  BY <1>6, <1>7

-----------------------------------------------------------------------------
(* What a sequence of previews retains                                     *)

LEMMA SequenceSized ==
  ASSUME NEW S, \A p \in S : p.size \in Nat, NEW s \in Seq(S)
  PROVE  Sized(s)
  BY DEF Sized

LEMMA RetainedInNat ==
  ASSUME NEW s, Sized(s)
  PROVE  Retained(s) \in Nat
<1>1. PICK f : IsSum(f, s) /\ Retained(s) = f[Len(s)]
  BY RetainedIsSum DEF Sized
<1> QED
  BY <1>1, SumInNat DEF Sized

LEMMA RetainedNone ==
  ASSUME NEW s, Len(s) = 0
  PROVE  Retained(s) = 0
<1>1. PICK f : IsSum(f, s) /\ Retained(s) = f[Len(s)]
  BY RetainedIsSum
<1> QED
  BY <1>1, SumNext

\* What a sequence retains, its parts retain.
LEMMA RetainedSplit ==
  ASSUME NEW S, \A p \in S : p.size \in Nat, NEW s \in Seq(S),
         NEW n \in 0..Len(s)
  PROVE  Retained(s) = Retained(SubSeq(s, 1, n))
                         + Retained(SubSeq(s, n + 1, Len(s)))
<1> DEFINE a == SubSeq(s, 1, n)
           b == SubSeq(s, n + 1, Len(s))
<1>1. /\ a \in Seq(S) /\ Len(a) = n
      /\ \A k \in 1..n : a[k] = s[0 + k]
  OBVIOUS
<1>2. /\ b \in Seq(S) /\ Len(b) = Len(s) - n
      /\ \A k \in 1..(Len(s) - n) : b[k] = s[n + k]
  OBVIOUS
<1>3. Sized(s) /\ Sized(a) /\ Sized(b)
  BY <1>1, <1>2, SequenceSized
<1> HIDE DEF a, b
<1>4. /\ \E f : IsSum(f, s) /\ Retained(s) = f[Len(s)]
      /\ \E f : IsSum(f, a) /\ Retained(a) = f[Len(a)]
      /\ \E f : IsSum(f, b) /\ Retained(b) = f[Len(b)]
  BY <1>3, RetainedIsSum DEF Sized
<1>5. PICK f : IsSum(f, s) /\ Retained(s) = f[Len(s)]
  BY <1>4
<1>6. PICK g : IsSum(g, a) /\ Retained(a) = g[Len(a)]
  BY <1>4
<1>7. PICK h : IsSum(h, b) /\ Retained(b) = h[Len(b)]
  BY <1>4
<1>8. f[0 + n] = f[0] + g[n]
  BY <1>1, <1>3, <1>5, <1>6, StretchSum
<1>9. f[n + (Len(s) - n)] = f[n] + h[Len(s) - n]
  <2> DEFINE l == Len(s) - n
  <2>1. l \in Nat /\ n \in Nat /\ n + l <= Len(s) /\ l <= Len(b)
    BY <1>2
  <2>2. \A k \in 1..l : b[k] = s[n + k]
    BY <1>2
  <2> HIDE DEF l
  <2>3. f[n + l] = f[n] + h[l]
    BY <1>3, <1>5, <1>7, <2>1, <2>2, StretchSum
  <2> QED
    BY <2>3 DEF l
<1>10. f[0] = 0 /\ 0 + n = n /\ n + (Len(s) - n) = Len(s)
  BY <1>3, <1>5, SumNext DEF Sized
<1>11. Retained(a) \in Nat
  BY <1>3, RetainedInNat
<1>12. f[n] = Retained(a)
  BY <1>1, <1>6, <1>8, <1>10, <1>11
<1> QED
  BY <1>2, <1>5, <1>7, <1>9, <1>10, <1>12 DEF a, b

LEMMA RetainedOne ==
  ASSUME NEW s, Sized(s), Len(s) = 1
  PROVE  Retained(s) = s[1].size
<1>1. PICK f : IsSum(f, s) /\ Retained(s) = f[Len(s)]
  BY RetainedIsSum DEF Sized
<1>2. f[0] = 0 /\ f[1] = f[0] + s[1].size
  <2>1. f[0] = 0 /\ \A n \in 1..Len(s) : f[n] = f[n - 1] + s[n].size
    BY <1>1, SumNext
  <2>2. f[1] = f[1 - 1] + s[1].size
    BY <2>1
  <2> QED
    BY <2>1, <2>2
<1>3. s[1].size \in Nat
  BY DEF Sized
<1> QED
  BY <1>1, <1>2, <1>3

LEMMA RetainedAppend ==
  ASSUME NEW S, \A p \in S : p.size \in Nat, NEW s \in Seq(S), NEW p \in S
  PROVE  Retained(Append(s, p)) = Retained(s) + p.size
<1> DEFINE z == Append(s, p)
<1>1. z \in Seq(S) /\ Len(s) \in 0..Len(z)
  OBVIOUS
<1>2. SubSeq(z, 1, Len(s)) = s
  OBVIOUS
<1>3. /\ SubSeq(z, Len(s) + 1, Len(z)) \in Seq(S)
      /\ Len(SubSeq(z, Len(s) + 1, Len(z))) = 1
      /\ SubSeq(z, Len(s) + 1, Len(z))[1] = p
  OBVIOUS
<1>4. Retained(z) = Retained(SubSeq(z, 1, Len(s)))
                      + Retained(SubSeq(z, Len(s) + 1, Len(z)))
  <2> HIDE DEF z
  <2> QED
    BY <1>1, RetainedSplit
<1>5. Retained(SubSeq(z, Len(s) + 1, Len(z))) = p.size
  <2> HIDE DEF z
  <2>1. Sized(SubSeq(z, Len(s) + 1, Len(z)))
    BY <1>3, SequenceSized
  <2> QED
    BY <1>3, <2>1, RetainedOne
<1> QED
  BY <1>2, <1>4, <1>5

LEMMA RetainedWithout ==
  ASSUME NEW S, \A p \in S : p.size \in Nat, NEW s \in Seq(S),
         NEW n \in 1..Len(s)
  PROVE  LET rest == SubSeq(s, 1, n - 1) \o SubSeq(s, n + 1, Len(s))
         IN /\ rest \in Seq(S)
            /\ Len(rest) = Len(s) - 1
            /\ Retained(rest) = Retained(s) - s[n].size
            /\ s[n].size <= Retained(s)
<1> DEFINE a == SubSeq(s, 1, n - 1)
           b == SubSeq(s, n + 1, Len(s))
           c == SubSeq(s, n, Len(s))
           rest == a \o b
<1>1. /\ a \in Seq(S) /\ b \in Seq(S) /\ c \in Seq(S)
      /\ Len(a) = n - 1 /\ Len(b) = Len(s) - n
      /\ Len(c) = Len(s) - n + 1
      /\ c[1] = s[n]
  OBVIOUS
<1>2. rest \in Seq(S) /\ Len(rest) = Len(s) - 1
  <2> HIDE DEF a, b
  <2> QED
    BY <1>1
<1>3. SubSeq(rest, 1, n - 1) = a /\ SubSeq(rest, n, Len(s) - 1) = b
  <2>1. \A k \in 1..(n - 1) : rest[k] = a[k]
    <3> HIDE DEF a, b
    <3> QED
      BY <1>1
  <2>2. \A k \in 1..(Len(s) - n) : rest[(n - 1) + k] = b[k]
    <3> HIDE DEF a, b
    <3> QED
      BY <1>1
  <2> HIDE DEF a, b, rest
  <2>3. SubSeq(rest, 1, n - 1) = a
    BY <1>1, <1>2, <2>1
  <2>4. SubSeq(rest, n, Len(s) - 1) = b
    <3> DEFINE d == SubSeq(rest, n, Len(s) - 1)
    <3>1. d \in Seq(S) /\ Len(d) = Len(s) - n
          /\ \A k \in 1..(Len(s) - n) : d[k] = rest[(n - 1) + k]
      BY <1>2
    <3> HIDE DEF d
    <3>2. \A k \in 1..Len(b) : d[k] = b[k]
      BY <1>1, <2>2, <3>1
    <3>3. d = b
      BY <1>1, <3>1, <3>2
    <3> QED
      BY <3>3 DEF d
  <2> QED
    BY <2>3, <2>4
<1>4. SubSeq(c, 1, 1) \in Seq(S) /\ Len(SubSeq(c, 1, 1)) = 1
      /\ SubSeq(c, 1, 1)[1] = s[n] /\ SubSeq(c, 2, Len(c)) = b
  OBVIOUS
<1> HIDE DEF a, b, c, rest
<1>5. Retained(rest) = Retained(a) + Retained(b)
  <2>1. n - 1 \in 0..Len(rest) /\ (n - 1) + 1 = n
    BY <1>2
  <2>2. Retained(rest) = Retained(SubSeq(rest, 1, n - 1))
                  + Retained(SubSeq(rest, (n - 1) + 1, Len(rest)))
    BY <1>2, <2>1, RetainedSplit
  <2> QED
    BY <1>2, <1>3, <2>1, <2>2
<1>6. Retained(s) = Retained(a) + Retained(c)
  <2>1. n - 1 \in 0..Len(s) /\ (n - 1) + 1 = n
    OBVIOUS
  <2>2. Retained(s) = Retained(SubSeq(s, 1, n - 1))
                  + Retained(SubSeq(s, (n - 1) + 1, Len(s)))
    BY <2>1, RetainedSplit
  <2> QED
    BY <2>1, <2>2 DEF a, c
<1>7. Retained(c) = s[n].size + Retained(b)
  <2>1. 1 \in 0..Len(c) /\ 1 + 1 = 2
    BY <1>1
  <2>2. Retained(c) = Retained(SubSeq(c, 1, 1))
                        + Retained(SubSeq(c, 1 + 1, Len(c)))
    BY <1>1, <2>1, RetainedSplit
  <2>3. Retained(SubSeq(c, 1, 1)) = s[n].size
    BY <1>4, SequenceSized, RetainedOne
  <2> QED
    BY <1>4, <2>1, <2>2, <2>3
<1>8. Retained(a) \in Nat /\ Retained(b) \in Nat /\ s[n].size \in Nat
  BY <1>1, SequenceSized, RetainedInNat
<1>9. /\ Retained(rest) = Retained(s) - s[n].size
      /\ s[n].size <= Retained(s)
  BY <1>5, <1>6, <1>7, <1>8
<1> QED
  BY <1>2, <1>9 DEF rest, a, b

-----------------------------------------------------------------------------
(* The store                                                               *)

\* A store that counts what it retains, and one within its limits.
Counts(store, S) ==
  /\ store.previews \in Seq(S)
  /\ store.retained = Retained(store.previews)
Within(store) ==
  /\ Len(store.previews) <= MaxPreviews
  /\ store.retained <= MaxBytes

LEMMA CountsInNat ==
  ASSUME NEW S, \A p \in S : p.size \in Nat, NEW store, Counts(store, S)
  PROVE  store.retained \in Nat /\ Len(store.previews) \in Nat
  BY SequenceSized, RetainedInNat DEF Counts

LEMMA DroppedCounts ==
  ASSUME NEW S, \A p \in S : p.size \in Nat, NEW store, Counts(store, S),
         NEW n \in 0..Len(store.previews)
  PROVE  /\ Counts(Dropped(store, n), S)
         /\ Len(Dropped(store, n).previews) = Len(store.previews) - n
         /\ Dropped(store, n).retained <= store.retained
         /\ n = Len(store.previews) => Dropped(store, n).retained = 0
<1> DEFINE s == store.previews
           a == SubSeq(s, 1, n)
           b == SubSeq(s, n + 1, Len(s))
<1>1. s \in Seq(S) /\ store.retained = Retained(s) /\ n \in 0..Len(s)
  BY DEF Counts
<1>2. Dropped(store, n).previews = b
      /\ Dropped(store, n).retained = Retained(s) - Retained(a)
  BY <1>1 DEF Dropped
<1> HIDE DEF s
<1>3. a \in Seq(S) /\ b \in Seq(S) /\ Len(b) = Len(s) - n
  BY <1>1
<1>4. Retained(s) = Retained(a) + Retained(b)
  BY <1>1, RetainedSplit
<1> HIDE DEF a, b
<1>5. Retained(a) \in Nat /\ Retained(b) \in Nat
  BY <1>3, SequenceSized, RetainedInNat
<1>6. n = Len(s) => Retained(b) = 0
  BY <1>3, RetainedNone
<1>7. Dropped(store, n).retained = Retained(b)
  BY <1>2, <1>4, <1>5
<1>8. Retained(b) <= store.retained
  BY <1>1, <1>4, <1>5
<1>9. n = Len(store.previews) => Retained(b) = 0
  BY <1>6 DEF s
<1>10. Len(b) = Len(store.previews) - n
  BY <1>3 DEF s
<1> QED
  BY <1>2, <1>3, <1>7, <1>8, <1>9, <1>10 DEF Counts

LEMMA ExpiredCounts ==
  ASSUME NEW S, \A p \in S : p.size \in Nat, NEW store, Counts(store, S),
         Within(store), NEW now
  PROVE  /\ Counts(RemoveExpired(store, now), S)
         /\ Within(RemoveExpired(store, now))
<1> DEFINE kept == {n \in 0..Len(store.previews) :
                      n < Len(store.previews)
                        => ~Expired(store.previews[n + 1], now)}
           n == LeastOf(kept)
<1>1. Len(store.previews) \in Nat /\ store.retained \in Nat
  BY CountsInNat
<1>2. Len(store.previews) \in kept /\ kept \in SUBSET Nat
  BY <1>1
<1>3. n \in 0..Len(store.previews)
  <2>1. n \in kept
    <3> HIDE DEF kept
    <3> QED
      BY <1>2, LeastIs
  <2> QED
    BY <2>1
<1>4. RemoveExpired(store, now) = Dropped(store, n)
  BY DEF RemoveExpired
<1> HIDE DEF n
<1>5. /\ Counts(Dropped(store, n), S)
      /\ Len(Dropped(store, n).previews) = Len(store.previews) - n
      /\ Dropped(store, n).retained <= store.retained
  BY <1>3, DroppedCounts
<1>6. Dropped(store, n).retained \in Nat
  BY <1>5, CountsInNat
<1>7. Within(Dropped(store, n))
  BY <1>1, <1>3, <1>5, <1>6, PreviewsAssumption DEF Within
<1> QED
  BY <1>4, <1>5, <1>7

LEMMA RoomCounts ==
  ASSUME NEW S, \A p \in S : p.size \in Nat, NEW store, Counts(store, S),
         NEW size \in Nat, size <= MaxBytes
  PROVE  /\ Counts(MakeRoom(store, size), S)
         /\ Len(MakeRoom(store, size).previews) < MaxPreviews
         /\ MakeRoom(store, size).retained + size <= MaxBytes
<1> DEFINE all == Len(store.previews)
           enough == {n \in 0..all : /\ all - n < MaxPreviews
                                     /\ Dropped(store, n).retained + size
                                          <= MaxBytes}
           n == LeastOf(enough)
<1>1. all \in Nat
  BY CountsInNat
<1>2. all \in enough
  <2>1. Dropped(store, all).retained = 0
    <3>1. all \in 0..Len(store.previews) /\ all = Len(store.previews)
      BY <1>1
    <3> HIDE DEF all
    <3> QED
      BY <3>1, DroppedCounts
  <2>2. all - all < MaxPreviews
    BY <1>1, PreviewsAssumption
  <2>3. 0 + size <= MaxBytes
    BY PreviewsAssumption
  <2> QED
    BY <1>1, <2>1, <2>2, <2>3
<1>3. enough \in SUBSET Nat
  BY <1>1
<1>4. n \in enough
  <2> HIDE DEF enough
  <2> QED
    BY <1>2, <1>3, LeastIs
<1>5. MakeRoom(store, size) = Dropped(store, n)
  BY DEF MakeRoom
<1>6. n \in 0..all /\ all - n < MaxPreviews
      /\ Dropped(store, n).retained + size <= MaxBytes
  BY <1>4
<1> HIDE DEF n
<1>7. /\ Counts(Dropped(store, n), S)
      /\ Len(Dropped(store, n).previews) = all - n
  BY <1>6, DroppedCounts
<1> QED
  BY <1>5, <1>6, <1>7

\* Whatever is inserted, the store stays within its limits, and nothing is in
\* it but what was and the new preview.
LEMMA InsertKeeps ==
  ASSUME NEW S, \A p \in S : p.size \in Nat, NEW store, Counts(store, S),
         Within(store), NEW now, NEW preview \in S
  PROVE  /\ Counts(Insert(store, preview, now).store, S)
         /\ Within(Insert(store, preview, now).store)
<1> DEFINE fresh == RemoveExpired(store, now)
           room == MakeRoom(fresh, preview.size)
<1>1. Counts(fresh, S) /\ Within(fresh)
  BY ExpiredCounts
<1> HIDE DEF fresh
<1>2. CASE preview.size > MaxBytes
  BY <1>1, <1>2 DEF Insert, fresh
<1>3. CASE ~(preview.size > MaxBytes)
  <2>1. preview.size \in Nat /\ preview.size <= MaxBytes
    BY <1>3, PreviewsAssumption
  <2>2. /\ Counts(room, S)
        /\ Len(room.previews) < MaxPreviews
        /\ room.retained + preview.size <= MaxBytes
    BY <1>1, <2>1, RoomCounts
  <2>3. Insert(store, preview, now).store = Added(room, preview)
    BY <1>3 DEF Insert, fresh
  <2> HIDE DEF room
  <2>4. /\ Added(room, preview).previews = Append(room.previews, preview)
        /\ Added(room, preview).retained = room.retained + preview.size
    BY DEF Added
  <2>5. /\ Append(room.previews, preview) \in Seq(S)
        /\ Len(Append(room.previews, preview)) = Len(room.previews) + 1
        /\ Len(room.previews) \in Nat
    BY <2>2 DEF Counts
  <2>6. Retained(Append(room.previews, preview))
          = Retained(room.previews) + preview.size
    BY <2>2, RetainedAppend DEF Counts
  <2>7. Counts(Added(room, preview), S)
    BY <2>2, <2>4, <2>5, <2>6 DEF Counts
  <2>8. Within(Added(room, preview))
    BY <2>2, <2>4, <2>5, PreviewsAssumption DEF Within
  <2> QED
    BY <2>3, <2>7, <2>8
<1> QED
  BY <1>2, <1>3

\* One preview is taken, or none.
LEMMA TakeKeeps ==
  ASSUME NEW S, \A p \in S : p.size \in Nat, NEW store, Counts(store, S),
         Within(store), NEW now, NEW id
  PROVE  /\ Counts(Take(store, id, now).store, S)
         /\ Within(Take(store, id, now).store)
         /\ \/ Take(store, id, now).preview = <<>>
            \/ /\ Take(store, id, now).preview # <<>>
               /\ Take(store, id, now).preview[1] \in S
<1> DEFINE fresh == RemoveExpired(store, now)
           found == {n \in DOMAIN fresh.previews : fresh.previews[n].id = id}
           n == LeastOf(found)
<1>1. Counts(fresh, S) /\ Within(fresh)
  BY ExpiredCounts
<1> HIDE DEF fresh
<1>2. CASE found = {}
  BY <1>1, <1>2 DEF Take, fresh
<1>3. CASE found # {}
  <2> DEFINE s == fresh.previews
             rest == SubSeq(s, 1, n - 1) \o SubSeq(s, n + 1, Len(s))
             t == Take(store, id, now)
  <2>1. found \in SUBSET Nat /\ s \in Seq(S)
    BY <1>1 DEF Counts
  <2>2. n \in 1..Len(s)
    <3>1. n \in found
      <4> HIDE DEF found
      <4> QED
        BY <1>3, <2>1, LeastIs
    <3> QED
      BY <2>1, <3>1
  <2>3. /\ t.preview = <<s[n]>>
        /\ t.store = [previews |-> rest,
                      retained |-> fresh.retained - s[n].size]
    BY <1>3 DEF Take, fresh
  <2> HIDE DEF n, t
  <2>4. /\ rest \in Seq(S)
        /\ Len(rest) = Len(s) - 1
        /\ Retained(rest) = Retained(s) - s[n].size
        /\ s[n].size <= Retained(s)
    <3> HIDE DEF s
    <3> QED
      BY <2>1, <2>2, RetainedWithout
  <2>5. t.store.previews = rest
        /\ t.store.retained = fresh.retained - s[n].size
    <3> HIDE DEF rest
    <3> QED
      BY <2>3
  <2>6. fresh.retained = Retained(s) /\ Retained(s) \in Nat
        /\ Len(s) \in Nat /\ s[n] \in S /\ s[n].size \in Nat
    BY <1>1, <2>1, <2>2, CountsInNat DEF Counts
  <2> HIDE DEF rest
  <2>7. Counts(t.store, S)
    BY <2>4, <2>5, <2>6 DEF Counts
  <2>8. Within(t.store)
    BY <1>1, <2>4, <2>5, <2>6, PreviewsAssumption DEF Within
  <2>9. t.preview # <<>> /\ t.preview[1] \in S
    BY <2>3, <2>6
  <2> QED
    BY <2>7, <2>8, <2>9 DEF t
<1> QED
  BY <1>2, <1>3

-----------------------------------------------------------------------------
(* What leaves the store                                                   *)

\* Only previews that are too old go on their own.
LEMMA ExpiredGo ==
  ASSUME NEW S, \A p \in S : p.size \in Nat, NEW store, Counts(store, S),
         NEW now
  PROVE  \E k \in 0..Len(store.previews) :
           /\ RemoveExpired(store, now) = Dropped(store, k)
           /\ \A i \in 1..k : Expired(store.previews[i], now)
<1> DEFINE kept == {n \in 0..Len(store.previews) :
                      n < Len(store.previews)
                        => ~Expired(store.previews[n + 1], now)}
           k == LeastOf(kept)
<1>1. Len(store.previews) \in Nat
  BY CountsInNat
<1>2. k \in kept /\ \A m \in kept : k <= m
  <2>1. Len(store.previews) \in kept /\ kept \in SUBSET Nat
    BY <1>1
  <2> HIDE DEF kept
  <2> QED
    BY <2>1, LeastIs
<1>3. RemoveExpired(store, now) = Dropped(store, k)
  BY DEF RemoveExpired
<1> HIDE DEF k
<1>4. ASSUME NEW i \in 1..k PROVE Expired(store.previews[i], now)
  <2>1. i - 1 \in 0..Len(store.previews) /\ i - 1 < Len(store.previews)
    BY <1>1, <1>2, <1>4
  <2>2. i - 1 \notin kept
    <3>1. k \in Nat
      BY <1>1, <1>2
    <3>2. ~(k <= i - 1)
      BY <1>4, <3>1
    <3> HIDE DEF kept
    <3> QED
      BY <1>2, <3>2
  <2>3. (i - 1) + 1 = i
    BY <1>2, <1>4
  <2> QED
    BY <2>1, <2>2, <2>3
<1> QED
  BY <1>2, <1>3, <1>4

\* Of a stretch that is left, what a part of it retains.
LEMMA DroppedTwice ==
  ASSUME NEW S, NEW s \in Seq(S), NEW k \in 0..Len(s),
         NEW n \in 0..(Len(s) - k)
  PROVE  SubSeq(SubSeq(s, k + 1, Len(s)), n + 1, Len(s) - k)
           = SubSeq(s, k + n + 1, Len(s))
<1> DEFINE b == SubSeq(s, k + 1, Len(s))
           c == SubSeq(b, n + 1, Len(s) - k)
           d == SubSeq(s, k + n + 1, Len(s))
<1>1. /\ b \in Seq(S) /\ Len(b) = Len(s) - k
      /\ \A i \in 1..(Len(s) - k) : b[i] = s[k + i]
  OBVIOUS
<1> HIDE DEF b
<1>2. /\ c \in Seq(S) /\ Len(c) = Len(s) - k - n
      /\ \A i \in 1..(Len(s) - k - n) : c[i] = b[n + i]
  BY <1>1
<1>3. /\ d \in Seq(S) /\ Len(d) = Len(s) - k - n
      /\ \A i \in 1..(Len(s) - k - n) : d[i] = s[k + n + i]
  OBVIOUS
<1> HIDE DEF c, d
<1>4. \A i \in 1..(Len(s) - k - n) : c[i] = d[i]
  <2> TAKE i \in 1..(Len(s) - k - n)
  <2>1. n + i \in 1..(Len(s) - k) /\ k + (n + i) = k + n + i
    OBVIOUS
  <2> QED
    BY <1>1, <1>2, <1>3, <2>1
<1>5. c = d
  <2>1. Len(c) = Len(d) /\ \A i \in 1..Len(c) : c[i] = d[i]
    BY <1>2, <1>3, <1>4
  <2>2. c = [i \in 1..Len(c) |-> c[i]] /\ d = [i \in 1..Len(d) |-> d[i]]
    BY <1>2, <1>3
  <2> QED
    BY <2>1, <2>2
<1> QED
  BY <1>5 DEF b, c, d

\* Room is made by letting go those that do not fit beside the new one.
LEMMA RoomTakes ==
  ASSUME NEW S, \A p \in S : p.size \in Nat, NEW store, Counts(store, S),
         NEW preview \in S, preview.size <= MaxBytes
  PROVE  \E n \in 0..Len(store.previews) :
           /\ MakeRoom(store, preview.size) = Dropped(store, n)
           /\ \A i \in 1..n : CrowdedOut(store.previews, i, preview)
<1> DEFINE s == store.previews
           size == preview.size
           enough == {n \in 0..Len(s) :
                        /\ Len(s) - n < MaxPreviews
                        /\ Dropped(store, n).retained + size <= MaxBytes}
           n == LeastOf(enough)
<1>1. Len(s) \in Nat /\ size \in Nat /\ s \in Seq(S)
  BY CountsInNat DEF Counts
<1>2. n \in enough /\ \A m \in enough : n <= m
  <2>1. Dropped(store, Len(s)).retained = 0
    <3>1. Len(s) \in 0..Len(store.previews) /\ Len(s) = Len(store.previews)
      BY <1>1
    <3> QED
      BY <3>1, DroppedCounts
  <2>2. Len(s) - Len(s) < MaxPreviews /\ 0 + size <= MaxBytes
    BY <1>1, PreviewsAssumption
  <2>3. Len(s) \in enough /\ enough \in SUBSET Nat
    BY <1>1, <2>1, <2>2
  <2> HIDE DEF enough
  <2> QED
    BY <2>3, LeastIs
<1>3. MakeRoom(store, size) = Dropped(store, n)
  BY DEF MakeRoom
<1> HIDE DEF n
<1>4. ASSUME NEW i \in 1..n PROVE CrowdedOut(s, i, preview)
  <2> DEFINE j == i - 1
             rest == SubSeq(s, i, Len(s))
  <2>1. j \in 0..Len(s) /\ j < n /\ j + 1 = i
    BY <1>1, <1>2
  <2>2. /\ Counts(Dropped(store, j), S)
        /\ Len(Dropped(store, j).previews) = Len(s) - j
    BY <2>1, DroppedCounts
  <2>3. Dropped(store, j).previews = rest
    BY <2>1 DEF Dropped
  <2>4. j \notin enough
    BY <1>1, <1>2, <2>1
  <2>5. \/ ~(Len(s) - j < MaxPreviews)
        \/ ~(Dropped(store, j).retained + size <= MaxBytes)
    BY <2>1, <2>4
  <2> HIDE DEF j, rest, s
  <2>6. /\ rest \in Seq(S) /\ Len(rest) = Len(s) - j
        /\ Dropped(store, j).retained = Retained(rest)
    BY <2>2, <2>3 DEF Counts
  <2>7. /\ Len(Append(rest, preview)) = Len(rest) + 1
        /\ Retained(Append(rest, preview)) = Retained(rest) + size
    BY <2>6, RetainedAppend
  <2>8. Retained(rest) \in Nat
    BY <2>6, SequenceSized, RetainedInNat
  <2>9. \/ Len(Append(rest, preview)) > MaxPreviews
        \/ Retained(Append(rest, preview)) > MaxBytes
    BY <1>1, <2>1, <2>5, <2>6, <2>7, <2>8, PreviewsAssumption
  <2> QED
    BY <2>9 DEF CrowdedOut, rest, s
<1> QED
  BY <1>2, <1>3, <1>4

\* One that goes as another is inserted is too old, or does not fit with what
\* is newer; it goes for nothing if the new one is refused.
LEMMA InsertDrops ==
  ASSUME NEW S, \A p \in S : p.size \in Nat, NEW store, Counts(store, S),
         Within(store), NEW now, NEW preview \in S
  PROVE  LET s == store.previews
             after == Insert(store, preview, now).store.previews
             inserted == preview.size <= MaxBytes
         IN /\ inserted => \E m \in DOMAIN after : after[m] = preview
            /\ \A i \in DOMAIN s :
                 \/ Expired(s[i], now)
                 \/ \E m \in DOMAIN after : after[m] = s[i]
                 \/ inserted /\ CrowdedOut(s, i, preview)
<1> DEFINE s == store.previews
           after == Insert(store, preview, now).store.previews
           fresh == RemoveExpired(store, now)
           f == fresh.previews
<1>1. s \in Seq(S) /\ preview.size \in Nat
  BY DEF Counts
<1>2. PICK L \in Nat : L = Len(s)
  BY <1>1
<1>3. DOMAIN s = 1..L
  BY <1>1, <1>2
<1>4. PICK k \in 0..L : /\ fresh = Dropped(store, k)
                        /\ \A i \in 1..k : Expired(s[i], now)
  BY <1>2, ExpiredGo
<1>5. f = SubSeq(s, k + 1, L)
  BY <1>2, <1>4 DEF Dropped
<1>6. Counts(fresh, S)
  <2> HIDE DEF fresh
  <2> QED
    BY <1>2, <1>4, DroppedCounts
<1> HIDE DEF s, fresh, f
<1>7. /\ Len(f) = L - k /\ DOMAIN f = 1..(L - k)
      /\ \A i \in 1..(L - k) : f[i] = s[k + i]
  BY <1>1, <1>2, <1>5
<1>8. CASE preview.size > MaxBytes
  <2>1. after = f /\ ~(preview.size <= MaxBytes)
    BY <1>1, <1>8, PreviewsAssumption DEF Insert, fresh, f
  <2>2. ASSUME NEW i \in (k + 1)..L
        PROVE  \E m \in DOMAIN after : after[m] = s[i]
    <3>1. i - k \in 1..(L - k) /\ k + (i - k) = i
      OBVIOUS
    <3> QED
      BY <1>7, <2>1, <3>1
  <2>3. \A i \in 1..L : i \in 1..k \/ i \in (k + 1)..L
    OBVIOUS
  <2> QED
    BY <1>3, <1>4, <2>1, <2>2, <2>3 DEF s
<1>9. CASE ~(preview.size > MaxBytes)
  <2>1. preview.size <= MaxBytes
    BY <1>1, <1>9, PreviewsAssumption
  <2>2. PICK n \in 0..(L - k) :
          /\ MakeRoom(fresh, preview.size) = Dropped(fresh, n)
          /\ \A i \in 1..n : CrowdedOut(f, i, preview)
    BY <1>6, <1>7, <2>1, RoomTakes DEF f
  <2> DEFINE left == SubSeq(f, n + 1, L - k)
  <2>3. after = Append(left, preview)
    <3>1. Insert(store, preview, now).store
            = Added(Dropped(fresh, n), preview)
      BY <1>9, <2>2 DEF Insert, fresh
    <3>2. Dropped(fresh, n).previews = left
      BY <1>7 DEF Dropped, f
    <3> HIDE DEF left
    <3> QED
      BY <3>1, <3>2 DEF Added
  <2>4. left = SubSeq(s, k + n + 1, L)
    BY <1>1, <1>2, <1>5, DroppedTwice
  <2>5. /\ left \in Seq(S) /\ Len(left) = L - k - n
        /\ \A i \in 1..(L - k - n) : left[i] = s[k + n + i]
    <3>1. k + n + 1 \in 1..(L + 1)
      OBVIOUS
    <3> HIDE DEF left
    <3> QED
      BY <1>1, <1>2, <2>4, <3>1
  <2> HIDE DEF left, after
  <2>6. PICK l \in Nat : l = L - k - n
    OBVIOUS
  <2>7. /\ DOMAIN after = 1..(l + 1)
        /\ \A i \in 1..l : after[i] = left[i]
        /\ after[l + 1] = preview
    BY <2>3, <2>5, <2>6
  <2>8. \E m \in DOMAIN after : after[m] = preview
    <3>1. l + 1 \in 1..(l + 1)
      OBVIOUS
    <3> QED
      BY <2>7, <3>1
  <2>9. ASSUME NEW i \in (k + n + 1)..L
        PROVE  \E m \in DOMAIN after : after[m] = s[i]
    <3>1. /\ i - (k + n) \in 1..l /\ i - (k + n) \in 1..(l + 1)
          /\ k + n + (i - (k + n)) = i
      BY <2>6
    <3>2. after[i - (k + n)] = s[i] /\ i - (k + n) \in DOMAIN after
      BY <2>5, <2>6, <2>7, <3>1
    <3> QED
      BY <3>2
  <2>10. ASSUME NEW i \in (k + 1)..(k + n)
         PROVE  CrowdedOut(s, i, preview)
    <3> DEFINE j == i - k
    <3>1. j \in 1..n /\ j - 1 \in 0..(L - k) /\ (j - 1) + 1 = j
          /\ k + (j - 1) + 1 = i
      OBVIOUS
    <3> HIDE DEF j
    <3>2. CrowdedOut(f, j, preview)
      BY <2>2, <3>1
    <3>3. SubSeq(f, (j - 1) + 1, L - k) = SubSeq(s, k + (j - 1) + 1, L)
      BY <1>1, <1>2, <1>5, <3>1, DroppedTwice
    <3>4. SubSeq(f, j, Len(f)) = SubSeq(s, i, Len(s))
      BY <1>2, <1>7, <3>1, <3>3
    <3> QED
      BY <3>2, <3>4 DEF CrowdedOut
  <2>11. \A i \in 1..L : \/ i \in 1..k \/ i \in (k + 1)..(k + n)
                         \/ i \in (k + n + 1)..L
    OBVIOUS
  <2>12. \A i \in DOMAIN s : \/ Expired(s[i], now)
                             \/ \E m \in DOMAIN after : after[m] = s[i]
                             \/ CrowdedOut(s, i, preview)
    BY <1>3, <1>4, <2>9, <2>10, <2>11
  <2> QED
    BY <2>1, <2>8, <2>12 DEF s, after
<1> QED
  BY <1>8, <1>9

\* One that goes as another is taken is too old or the one that is taken.
LEMMA TakeDrops ==
  ASSUME NEW S, \A p \in S : p.size \in Nat, NEW store, Counts(store, S),
         NEW now, NEW id
  PROVE  LET s == store.previews
             taken == Take(store, id, now)
             after == taken.store.previews
         IN \A i \in DOMAIN s :
              \/ Expired(s[i], now)
              \/ \E m \in DOMAIN after : after[m] = s[i]
              \/ taken.preview = <<s[i]>>
<1> DEFINE s == store.previews
           taken == Take(store, id, now)
           after == taken.store.previews
           fresh == RemoveExpired(store, now)
           f == fresh.previews
           found == {n \in DOMAIN f : f[n].id = id}
<1>1. s \in Seq(S)
  BY DEF Counts
<1>2. PICK L \in Nat : L = Len(s)
  BY <1>1
<1>3. DOMAIN s = 1..L
  BY <1>1, <1>2
<1>4. PICK k \in 0..L : /\ fresh = Dropped(store, k)
                        /\ \A i \in 1..k : Expired(s[i], now)
  BY <1>2, ExpiredGo
<1>5. f = SubSeq(s, k + 1, L)
  BY <1>2, <1>4 DEF Dropped
<1> HIDE DEF s
<1>6. PICK l \in Nat : l = L - k
  OBVIOUS
<1>7. /\ f \in Seq(S) /\ Len(f) = l /\ DOMAIN f = 1..l
      /\ \A i \in 1..l : f[i] = s[k + i]
  <2> HIDE DEF f
  <2> QED
    BY <1>1, <1>2, <1>5, <1>6
<1>8. \A i \in (k + 1)..L : \E j \in 1..l : f[j] = s[i]
  <2> HIDE DEF f
  <2> TAKE i \in (k + 1)..L
  <2>1. i - k \in 1..l /\ k + (i - k) = i
    BY <1>6
  <2> QED
    BY <1>7, <2>1
<1>9. \A i \in 1..L : i \in 1..k \/ i \in (k + 1)..L
  OBVIOUS
<1>10. ASSUME \A j \in 1..l : \/ \E m \in DOMAIN after : after[m] = f[j]
                              \/ taken.preview = <<f[j]>>
       PROVE  \A i \in DOMAIN s :
                \/ Expired(s[i], now)
                \/ \E m \in DOMAIN after : after[m] = s[i]
                \/ taken.preview = <<s[i]>>
  <2> HIDE DEF f, after, taken
  <2> QED
    BY <1>3, <1>4, <1>8, <1>9, <1>10
<1>11. CASE found = {}
  <2>1. after = f
    BY <1>11 DEF Take
  <2> HIDE DEF f, after, taken
  <2> QED
    BY <1>7, <1>10, <2>1 DEF s, after, taken
<1>12. CASE found # {}
  <2> DEFINE n == LeastOf(found)
             a == SubSeq(f, 1, n - 1)
             b == SubSeq(f, n + 1, l)
  <2>1. taken.preview = <<f[n]>>
    BY <1>12 DEF Take
  <2>2. after = a \o b
    <3>1. after = a \o SubSeq(f, n + 1, Len(f))
      BY <1>12 DEF Take
    <3> QED
      BY <1>7, <3>1
  <2>3. n \in 1..l
    <3>1. found \in SUBSET Nat /\ found \subseteq 1..l
      <4> HIDE DEF f
      <4> QED
        BY <1>7
    <3> HIDE DEF found
    <3> QED
      BY <1>12, <3>1, LeastIs
  <2> HIDE DEF n, f, taken, after
  <2>4. /\ a \in Seq(S) /\ Len(a) = n - 1
        /\ \A m \in 1..(n - 1) : a[m] = f[m]
    BY <1>7, <2>3
  <2>5. /\ b \in Seq(S) /\ Len(b) = l - n
        /\ \A m \in 1..(l - n) : b[m] = f[n + m]
    BY <1>7, <2>3
  <2> HIDE DEF a, b
  <2>6. /\ DOMAIN after = 1..(l - 1)
        /\ \A m \in 1..(n - 1) : after[m] = a[m]
        /\ \A m \in 1..(l - n) : after[(n - 1) + m] = b[m]
    <3> DEFINE x == n - 1
               y == l - n
    <3>1. x \in Nat /\ y \in Nat /\ x + y = l - 1
      BY <2>3
    <3> HIDE DEF x, y
    <3>2. a \in Seq(S) /\ b \in Seq(S) /\ Len(a) = x /\ Len(b) = y
      BY <2>4, <2>5 DEF x, y
    <3>3. /\ DOMAIN (a \o b) = 1..(x + y)
          /\ \A m \in 1..x : (a \o b)[m] = a[m]
      <4>1. /\ a \o b \in Seq(S) /\ Len(a \o b) = x + y
            /\ \A m \in 1..(x + y) :
                 (a \o b)[m] = IF m <= x THEN a[m] ELSE b[m - x]
        BY <3>2, ConcatProperties
      <4>2. \A m \in 1..x : m \in 1..(x + y) /\ m <= x
        BY <3>1
      <4>3. DOMAIN (a \o b) = 1..(x + y)
        BY <4>1
      <4>4. \A m \in 1..x : (a \o b)[m] = a[m]
        BY <4>1, <4>2
      <4> QED
        BY <4>3, <4>4
    <3>4. ASSUME NEW m \in 1..y PROVE (a \o b)[x + m] = b[m]
      <4> DEFINE o == x + m
      <4>1. o \in 1..(x + y) /\ ~(o <= x) /\ o - x = m
        BY <3>1
      <4> HIDE DEF o
      <4>2. (a \o b)[o] = b[o - x]
        BY <3>1, <3>2, <4>1, ConcatProperties
      <4> QED
        BY <4>1, <4>2 DEF o
    <3> QED
      BY <2>2, <3>1, <3>3, <3>4 DEF x, y
  <2>7. ASSUME NEW j \in 1..l, j # n
        PROVE  \E m \in DOMAIN after : after[m] = f[j]
    <3>1. CASE j < n
      <4>1. j \in 1..(n - 1) /\ j \in 1..(l - 1)
        BY <2>3, <3>1
      <4> QED
        BY <2>4, <2>6, <4>1
    <3>2. CASE j > n
      <4>1. /\ j - n \in 1..(l - n) /\ n + (j - n) = j
            /\ (n - 1) + (j - n) \in 1..(l - 1)
        BY <2>3, <3>2
      <4> QED
        BY <2>5, <2>6, <4>1
    <3> QED
      BY <2>3, <2>7, <3>1, <3>2
  <2>8. \A j \in 1..l : \/ \E m \in DOMAIN after : after[m] = f[j]
                        \/ taken.preview = <<f[j]>>
    BY <2>1, <2>7
  <2> QED
    BY <1>10, <2>8 DEF s, after, taken
<1> QED
  BY <1>11, <1>12
=============================================================================
