--------------------------- MODULE BootstrapProofs ---------------------------
(***************************************************************************)
(* Proofs about Bootstrap, for any layered curves, any helpers and         *)
(* schedules, and any mix of the three algorithms.                         *)
(*                                                                         *)
(* What a curve promises when its bootstrap is over must be kept while it  *)
(* runs, through the bootstraps nested in it: the invariant says of every  *)
(* bootstrap on the stack which helpers it has fitted and pinned so far,   *)
(* and that the curves those helpers read stand, solved, until it ends     *)
(* (Kept); of every calculated curve that its nodes are laid out for its   *)
(* helpers' present schedules (Laid); and of every curve that stands that  *)
(* all its helpers are pinned (Done).  The stack descends through the      *)
(* layers, so no bootstrap writes what one under it has read.              *)
(***************************************************************************)
EXTENDS Bootstrap, FiniteSetTheorems, SequenceTheorems, TLAPS

-----------------------------------------------------------------------------
(* THE ORDER OF HELPERS AND NODES                                          *)

\* Ordered lists the elements of a finite set, each once, in the order of their keys.
LEMMA OrderedIs ==
  ASSUME NEW I \in SUBSET Int, IsFiniteSet(I), NEW key \in [I -> Int]
  PROVE  /\ Cardinality(I) \in Nat
         /\ Ordered(I, key) \in [1 .. Cardinality(I) -> I]
         /\ \A k \in 1 .. Cardinality(I) : \A j \in 1 .. k - 1 :
              Precedes(Ordered(I, key)[j], Ordered(I, key)[k], key)
         /\ \A i \in I : \E k \in 1 .. Cardinality(I) : Ordered(I, key)[k] = i
<1> DEFINE n == Cardinality(I)
           P(j, i) == Precedes(j, i, key)
           before(i) == {j \in I : P(j, i)}
           rank(i) == Cardinality(before(i))
           r == [i \in I |-> rank(i) + 1]
           t == [k \in 1 .. n |-> CHOOSE i \in I : r[i] = k]
           Sorts(s) == \A k \in 1 .. n : \A j \in 1 .. k - 1 : P(s[j], s[k])
<1>1. n \in Nat /\ IsFiniteSet(1 .. n) /\ Cardinality(1 .. n) = n
  BY FS_CardinalityType, FS_Interval
<1>2. \A i \in I : ~P(i, i)
  BY DEF Precedes
<1>3. \A i, j, k \in I : P(i, j) /\ P(j, k) => P(i, k)
  BY DEF Precedes
<1>4. \A i, j \in I : i # j => P(i, j) \/ P(j, i)
  BY DEF Precedes
<1> HIDE DEF P
<1>5. ASSUME NEW i \in I
      PROVE  IsFiniteSet(before(i)) /\ rank(i) \in 0 .. n - 1
  <2>1. before(i) \subseteq I \ {i}
    BY <1>2
  <2>2. IsFiniteSet(I \ {i}) /\ Cardinality(I \ {i}) = n - 1
    BY FS_RemoveElement
  <2>3. IsFiniteSet(before(i)) /\ rank(i) <= n - 1
    BY <2>1, <2>2, FS_Subset
  <2>4. rank(i) \in Nat
    BY <2>3, FS_CardinalityType
  <2> QED
    BY <1>1, <2>3, <2>4
<1>6. ASSUME NEW i \in I, NEW j \in I, P(j, i)
      PROVE  rank(j) < rank(i)
  <2>1. j \in before(i)
    BY <1>6
  <2>2. before(j) \subseteq before(i) \ {j}
    BY <1>6, <1>2, <1>3
  <2>3. IsFiniteSet(before(i) \ {j}) /\ Cardinality(before(i) \ {j}) = rank(i) - 1
    BY <2>1, <1>5, FS_RemoveElement
  <2>4. rank(j) <= rank(i) - 1
    BY <2>2, <2>3, FS_Subset
  <2> QED
    BY <2>4, <1>5
<1> HIDE DEF before, rank
<1>7. r \in Surjection(I, 1 .. n)
  <2>1. r \in [I -> 1 .. n]
    BY <1>1, <1>5
  <2>2. \A i, j \in I : r[i] = r[j] => i = j
    BY <1>4, <1>5, <1>6
  <2>3. r \in Injection(I, 1 .. n)
    BY <2>1, <2>2 DEF Injection, IsInjective
  <2> QED
    BY <2>3, <1>1, FS_Injection
<1>8. \A k \in 1 .. n : t[k] \in I /\ r[t[k]] = k
  BY <1>7 DEF Surjection
<1>9. t \in [1 .. n -> I] /\ Sorts(t)
  <2>1. t \in [1 .. n -> I]
    BY <1>8
  <2>2. ASSUME NEW k \in 1 .. n, NEW j \in 1 .. k - 1
        PROVE  P(t[j], t[k])
    <3>1. j \in 1 .. n /\ j < k
      BY <1>1
    <3>2. t[j] # t[k]
      BY <3>1, <1>8
    <3>3. ~P(t[k], t[j])
      <4>1. SUFFICES ASSUME P(t[k], t[j]) PROVE FALSE
        OBVIOUS
      <4>2. rank(t[k]) < rank(t[j])
        BY <4>1, <3>1, <1>8, <1>6
      <4>3. r[t[k]] = rank(t[k]) + 1 /\ r[t[j]] = rank(t[j]) + 1
        BY <3>1, <1>8
      <4> QED
        <5>0. \A i \in I : rank(i) \in Int
          BY <1>5, <1>1
        <5>3. t[k] \in I /\ t[j] \in I
          BY <3>1, <1>8
        <5>1. rank(t[k]) \in Int /\ rank(t[j]) \in Int
          BY <5>0, <5>3
        <5>2. rank(t[k]) + 1 = k /\ rank(t[j]) + 1 = j
          BY <4>3, <3>1, <1>8
        <5> QED
          BY <4>2, <5>1, <5>2, <3>1, <1>1
    <3> QED
      BY <3>1, <3>2, <3>3, <1>4, <1>8
  <2> QED
    BY <2>1, <2>2
<1> HIDE DEF r, t, n
<1>10. Ordered(I, key) = CHOOSE s \in [1 .. n -> I] : Sorts(s)
  BY DEF Ordered, P, n
<1>11. Ordered(I, key) \in [1 .. n -> I] /\ Sorts(Ordered(I, key))
  BY <1>9, <1>10
<1> DEFINE o == Ordered(I, key)
<1>12. o \in Surjection(1 .. n, I)
  <2>0. o \in [1 .. n -> I] /\ Sorts(o)
    BY <1>11
  <2> HIDE DEF o
  <2>1. ASSUME NEW j \in 1 .. n, NEW k \in 1 .. n, j < k
        PROVE  o[j] # o[k]
    <3>1. j \in 1 .. k - 1
      BY <1>1, <2>1
    <3>2. P(o[j], o[k])
      BY <2>0, <3>1
    <3>3. o[k] \in I
      BY <2>0
    <3> QED
      BY <3>2, <3>3, <1>2
  <2>2. \A j, k \in 1 .. n : o[j] = o[k] => j = k
    BY <2>1, <1>1
  <2>3. o \in Injection(1 .. n, I)
    BY <2>2, <2>0 DEF Injection, IsInjective
  <2> QED
    BY <2>3, <1>1, FS_Injection DEF n
<1> QED
  BY <1>1, <1>11, <1>12 DEF Surjection, n, P

Typed == /\ algorithm \in [Curves -> {"iterative", "local", "global"}]
         /\ seen \in [Helpers -> EvalDates]

\* The helpers of an arrangement are the chosen ones.
LEMMA ArrangedIs ==
  ASSUME NEW S, NEW hs, NEW I, NEW key,
         hs \in Seq(S), I \subseteq DOMAIN hs, key \in [I -> Int]
  PROVE  /\ Arranged(hs, I, key) \in Seq(S)
         /\ ToSet(Arranged(hs, I, key)) = {hs[i] : i \in I}
<1>1. I \in SUBSET Int /\ IsFiniteSet(I)
  <2>1. IsFiniteSet(DOMAIN hs)
    BY FS_Interval
  <2> QED
    BY <2>1, FS_Subset
<1> DEFINE n == Cardinality(I)
           o == Ordered(I, key)
<1>2. /\ n \in Nat /\ o \in [1 .. n -> I]
      /\ \A i \in I : \E k \in 1 .. n : o[k] = i
  BY <1>1, OrderedIs
<1>3. Arranged(hs, I, key) = [k \in 1 .. n |-> hs[o[k]]]
  BY DEF Arranged
<1> HIDE DEF n, o
<1>4. \A k \in 1 .. n : o[k] \in I /\ hs[o[k]] \in S
  BY <1>2
<1>5. [k \in 1 .. n |-> hs[o[k]]] \in Seq(S)
  BY <1>2, <1>4
<1> DEFINE a == [k \in 1 .. n |-> hs[o[k]]]
<1>6. DOMAIN a = 1 .. n /\ {a[j] : j \in 1 .. n} = {hs[i] : i \in I}
  BY <1>2, <1>4
<1>7. Arranged(hs, I, key) = a /\ a \in Seq(S)
  BY <1>3, <1>5
<1> HIDE DEF a
<1> QED
  BY <1>6, <1>7 DEF ToSet

\* The alive helpers are those that have not expired, and to the local bootstrap
\* they all are.
LEMMA AliveIs ==
  ASSUME Typed, NEW c \in Curves
  PROVE  /\ Alive(c) \in Seq(Helpers)
         /\ ToSet(Alive(c)) =
              {h \in ToSet(Instruments[c]) : algorithm[c] = "local" \/ IsAlive(h)}
<1> DEFINE hs == Instruments[c]
           unexpired == {i \in DOMAIN hs : IsAlive(hs[i])}
<1>1. hs \in Seq(Helpers)
  BY BootstrapTypes
<1>2. \A h \in Helpers : PillarDate(h) \in Int
  BY BootstrapTypes DEF Typed, PillarDate
<1>3. \A i \in DOMAIN hs : i \in Int /\ PillarDate(hs[i]) \in Int
  BY <1>1, <1>2
<1>4. CASE algorithm[c] = "iterative"
  <2> DEFINE key == [i \in unexpired |-> PillarDate(hs[i])]
  <2>1. Alive(c) = Arranged(hs, unexpired, key)
    BY <1>4 DEF Alive, sort_by_pillar_date
  <2>2. key \in [unexpired -> Int]
    BY <1>3
  <2>4. unexpired \subseteq DOMAIN hs
    OBVIOUS
  <2> HIDE DEF key, unexpired, hs
  <2>3. Alive(c) \in Seq(Helpers) /\ ToSet(Alive(c)) = {hs[i] : i \in unexpired}
    BY <1>1, <2>1, <2>2, <2>4, ArrangedIs
  <2> USE DEF unexpired, hs
  <2> QED
    BY <1>4, <2>3 DEF ToSet
<1>5. CASE algorithm[c] = "local"
  <2> DEFINE key == [i \in DOMAIN hs |-> PillarDate(hs[i])]
  <2>1. Alive(c) = Arranged(hs, DOMAIN hs, key)
    BY <1>5 DEF Alive, sort_by_pillar_date
  <2>2. key \in [DOMAIN hs -> Int]
    BY <1>3
  <2> HIDE DEF key, hs
  <2>3. Alive(c) \in Seq(Helpers) /\ ToSet(Alive(c)) = {hs[i] : i \in DOMAIN hs}
    BY <1>1, <2>1, <2>2, ArrangedIs
  <2> USE DEF hs
  <2> QED
    BY <1>5, <2>3 DEF ToSet
<1>6. CASE algorithm[c] = "global"
  <2> DEFINE key == [i \in unexpired |-> i]
  <2>1. Alive(c) = Arranged(hs, unexpired, key)
    BY <1>6 DEF Alive
  <2>2. key \in [unexpired -> Int]
    BY <1>3
  <2>4. unexpired \subseteq DOMAIN hs
    OBVIOUS
  <2> HIDE DEF key, unexpired, hs
  <2>3. Alive(c) \in Seq(Helpers) /\ ToSet(Alive(c)) = {hs[i] : i \in unexpired}
    BY <1>1, <2>1, <2>2, <2>4, ArrangedIs
  <2> USE DEF unexpired, hs
  <2> QED
    BY <1>6, <2>3 DEF ToSet
<1> QED
  BY <1>4, <1>5, <1>6 DEF Typed

\* Dates are integers.
LEMMA DatesAre ==
  ASSUME Typed, NEW h \in Helpers
  PROVE  PillarDate(h) \in Int /\ LatestRelevantDate(h) \in Int /\ Needs(h) \in Int
  BY BootstrapTypes DEF Typed, PillarDate, LatestRelevantDate, Needs, Later

\* The image of a sequence is finite.
LEMMA ImageIsFinite ==
  ASSUME NEW n \in Nat, NEW s, DOMAIN s = 1 .. n
  PROVE  IsFiniteSet(ToSet(s))
<1> DEFINE g == [i \in 1 .. n |-> s[i]]
<1>1. g \in Surjection(1 .. n, ToSet(s))
  BY DEF Surjection, ToSet
<1> QED
  BY <1>1, FS_Interval, FS_Surjection

\* The grid has a node for the first date and, behind it, one at the pillar of
\* each alive helper: the next one, unless the bootstrap is global.
LEMMA GridIs ==
  ASSUME Typed, NEW c \in Curves
  PROVE  /\ Grid(c) \in Seq(Int)
         /\ algorithm[c] # "global" =>
              /\ Len(Grid(c)) = Len(Alive(c)) + 1
              /\ \A i \in DOMAIN Alive(c) : Grid(c)[i + 1] = PillarDate(Alive(c)[i])
         /\ algorithm[c] = "global" =>
              \A h \in ToSet(Alive(c)) : \E k \in 2 .. Len(Grid(c)) : Grid(c)[k] = PillarDate(h)
<1> DEFINE hs == Alive(c)
           pillars == [i \in 1 .. Len(hs) |-> PillarDate(hs[i])]
<1>1. /\ hs \in Seq(Helpers)
      /\ ToSet(hs) = {h \in ToSet(Instruments[c]) : algorithm[c] = "local" \/ IsAlive(h)}
  BY AliveIs
<1> HIDE DEF hs
<1>2. \A i \in 1 .. Len(hs) : hs[i] \in Helpers /\ PillarDate(hs[i]) \in Int
  BY <1>1, DatesAre
<1>3. FirstDate \in Int
  BY BootstrapTypes
<1>4. pillars \in Seq(Int) /\ Len(pillars) = Len(hs)
  BY <1>1, <1>2
<1>5. CASE algorithm[c] # "global"
  <2>1. Grid(c) = <<FirstDate>> \o pillars
    BY <1>5 DEF Grid, hs
  <2>2. /\ <<FirstDate>> \o pillars \in Seq(Int)
        /\ Len(<<FirstDate>> \o pillars) = Len(hs) + 1
        /\ \A i \in 1 .. Len(hs) : (<<FirstDate>> \o pillars)[i + 1] = pillars[i]
    <3> HIDE DEF pillars
    <3>1. Len(hs) \in Nat
      BY <1>1
    <3> QED
      BY <1>3, <1>4, <3>1
  <2>3. DOMAIN hs = 1 .. Len(hs)
    BY <1>1
  <2> QED
    BY <1>5, <2>1, <2>2, <2>3 DEF hs
<1>6. CASE algorithm[c] = "global"
  <2> DEFINE ds == {FirstDate} \cup ToSet(pillars)
             o == Ordered(ds, [d \in ds |-> d])
             n == Cardinality(ds)
  <2>1. ToSet(pillars) = {PillarDate(h) : h \in ToSet(hs)}
    BY <1>1 DEF ToSet
  <2>2. \A h \in ToSet(hs) : PillarDate(h) \in Int /\ PillarDate(h) > FirstDate
    <3>1. \A h \in ToSet(hs) : IsAlive(h)
      BY <1>1, <1>6
    <3>2. ToSet(hs) \subseteq Helpers
      BY <1>1 DEF ToSet
    <3> QED
      BY <3>1, <3>2, DatesAre DEF IsAlive
  <2>3. ds \in SUBSET Int /\ IsFiniteSet(ds)
    <3>1. IsFiniteSet(ToSet(pillars))
      BY <1>4, ImageIsFinite
    <3>2. IsFiniteSet(ToSet(pillars) \cup {FirstDate})
      BY <3>1, FS_AddElement
    <3>3. ToSet(pillars) \cup {FirstDate} = ds
      OBVIOUS
    <3> QED
      BY <2>1, <2>2, <1>3, <3>2, <3>3
  <2> HIDE DEF ds
  <2>4. [d \in ds |-> d] \in [ds -> Int]
    BY <2>3
  <2>5. /\ n \in Nat /\ o \in [1 .. n -> ds]
        /\ \A k \in 1 .. n : \A j \in 1 .. k - 1 : Precedes(o[j], o[k], [d \in ds |-> d])
        /\ \A d \in ds : \E k \in 1 .. n : o[k] = d
    BY <2>3, <2>4, OrderedIs
  <2>6. Grid(c) = o
    BY <1>6 DEF Grid, hs, ds
  <2> HIDE DEF o, n
  <2>7. \A k \in 1 .. n : \A j \in 1 .. k - 1 : o[j] <= o[k]
    <3> SUFFICES ASSUME NEW k \in 1 .. n, NEW j \in 1 .. k - 1
                 PROVE  o[j] <= o[k]
      OBVIOUS
    <3>1. o[j] \in ds /\ o[k] \in ds
      BY <2>5
    <3>2. Precedes(o[j], o[k], [d \in ds |-> d])
      BY <2>5
    <3>3. [d \in ds |-> d][o[j]] = o[j] /\ [d \in ds |-> d][o[k]] = o[k]
      BY <3>1
    <3>4. o[j] < o[k] \/ o[j] = o[k]
      BY <3>2, <3>3 DEF Precedes
    <3>5. o[j] \in Int /\ o[k] \in Int
      BY <3>1, <2>3
    <3> QED
      BY <3>4, <3>5
  <2>8. o \in Seq(Int) /\ Len(o) = n
    <3>1. \A k \in 1 .. n : o[k] \in Int
      BY <2>3, <2>5
    <3>2. o \in [1 .. n -> Int]
      BY <3>1, <2>5
    <3> QED
      BY <3>2, <2>5
  <2>9. ASSUME NEW h \in ToSet(hs)
        PROVE  \E k \in 2 .. Len(o) : o[k] = PillarDate(h)
    <3>1. PICK k \in 1 .. n : o[k] = PillarDate(h)
      BY <2>1, <2>5 DEF ds
    <3>2. PICK m \in 1 .. n : o[m] = FirstDate
      BY <2>5 DEF ds
    <3>3. k # 1
      <4>1. SUFFICES ASSUME k = 1 PROVE FALSE
        OBVIOUS
      <4>2. o[k] > o[m] /\ o[k] \in Int /\ o[m] \in Int
        BY <2>2, <3>1, <3>2, <1>3
      <4>3. CASE m = k
        BY <4>2, <4>3
      <4>4. CASE m # k
        <5>1. k \in 1 .. m - 1
          BY <4>1, <4>4, <2>5
        <5>2. o[k] <= o[m]
          BY <5>1, <2>7
        <5> QED
          BY <4>2, <5>2
      <4> QED
        BY <4>3, <4>4
    <3> QED
      BY <3>1, <3>3, <2>5, <2>8
  <2> QED
    BY <1>6, <2>6, <2>8, <2>9 DEF hs
<1> QED
  BY <1>5, <1>6

\* A nonempty set of natural numbers has a least element.
LEMMA LeastOf ==
  ASSUME NEW T \in SUBSET Nat, T # {}
  PROVE  \E n \in T : \A m \in T : n <= m
<1> DEFINE R == OpToRel(<, Nat)
<1>1. IsWellFoundedOn(R, Nat)
  BY NatLessThanWellFounded
<1>2. \A m, n \in Nat : m < n => <<m, n>> \in R
  BY DEF OpToRel
<1> HIDE DEF R
<1>3. PICK n \in T : \A m \in T : ~(<<m, n>> \in R)
  BY <1>1, WFMin
<1>4. \A m \in T : m \in Nat /\ n \in Nat /\ ~(m < n)
  BY <1>2, <1>3
<1> QED
  BY <1>4

\* A finite set of integers that is not empty has a greatest.
LEMMA GreatestOf ==
  ASSUME NEW S \in SUBSET Int, IsFiniteSet(S), S # {}
  PROVE  Max(S) \in S /\ \A x \in S : Max(S) >= x
<1> DEFINE n == Cardinality(S)
           id == [x \in S |-> x]
           o == Ordered(S, id)
<1>1. id \in [S -> Int]
  OBVIOUS
<1>2. /\ n \in Nat /\ o \in [1 .. n -> S]
      /\ \A k \in 1 .. n : \A j \in 1 .. k - 1 : Precedes(o[j], o[k], id)
      /\ \A x \in S : \E k \in 1 .. n : o[k] = x
  BY <1>1, OrderedIs
<1> HIDE DEF n, o
<1>3. n \in 1 .. n
  <2>1. PICK x \in S : TRUE
    OBVIOUS
  <2>2. PICK k \in 1 .. n : o[k] = x
    BY <1>2
  <2> QED
    BY <1>2, <2>2
<1>4. \A x \in S : o[n] >= x
  <2> SUFFICES ASSUME NEW x \in S PROVE o[n] >= x
    OBVIOUS
  <2>1. PICK k \in 1 .. n : o[k] = x
    BY <1>2
  <2>2. CASE k = n
    BY <2>1, <2>2
  <2>3. CASE k # n
    <3>1. k \in 1 .. n - 1
      BY <2>3, <1>2
    <3>2. Precedes(o[k], o[n], id)
      BY <3>1, <1>2, <1>3
    <3>3. o[k] \in S /\ o[n] \in S
      BY <1>2, <1>3
    <3>4. o[k] < o[n] \/ o[k] = o[n]
      BY <3>2, <3>3 DEF Precedes
    <3>5. o[k] \in Int /\ o[n] \in Int
      BY <3>3
    <3> QED
      BY <2>1, <3>4, <3>5
  <2> QED
    BY <2>2, <2>3
<1>5. o[n] \in S
  BY <1>2, <1>3
<1> QED
  BY <1>4, <1>5 DEF Max

\* The chain of a bootstrap that was accepted: each helper needs more than those
\* before it.
LEMMA NeedsGrow ==
  ASSUME Typed, NEW hs \in Seq(Helpers), hs # <<>>, LatestAdvances(hs)
  PROVE  \A i \in 1 .. Len(hs) : Needs(Last(hs)) >= Needs(hs[i])
<1> DEFINE n == Len(hs)
           T == {k \in Nat : k < n /\ ~(Needs(hs[n]) >= Needs(hs[n - k]))}
<1>1. n \in Nat /\ n >= 1 /\ Last(hs) = hs[n] /\ \A i \in 1 .. n : hs[i] \in Helpers
  BY DEF Last
<1>2. ASSUME NEW i \in 1 .. n - 1
      PROVE  Needs(hs[i + 1]) > Needs(hs[i])
  <2>1. i + 1 \in 1 .. n /\ i + 1 # 1 /\ (i + 1) - 1 = i /\ i \in 1 .. n
    BY <1>1
  <2>2. LatestRelevantDate(hs[i + 1]) > Later(PillarDate(hs[i]), LatestRelevantDate(hs[i]))
    BY <2>1 DEF LatestAdvances
  <2>3. /\ PillarDate(hs[i + 1]) \in Int /\ LatestRelevantDate(hs[i + 1]) \in Int
        /\ Needs(hs[i]) \in Int
    BY <2>1, <1>1, DatesAre
  <2>4. Needs(hs[i + 1]) >= LatestRelevantDate(hs[i + 1])
    BY <2>3 DEF Needs, Later
  <2>5. LatestRelevantDate(hs[i + 1]) > Needs(hs[i])
    BY <2>2 DEF Needs
  <2>6. Needs(hs[i + 1]) \in Int
    BY <2>1, <1>1, DatesAre
  <2> QED
    BY <2>3, <2>4, <2>5, <2>6
<1>3. T = {}
  <2>1. SUFFICES ASSUME T # {} PROVE FALSE
    OBVIOUS
  <2>2. T \in SUBSET Nat
    OBVIOUS
  <2>3. PICK k \in T : \A m \in T : k <= m
    BY <2>1, <2>2, LeastOf
  <2>4. k \in Nat /\ k < n /\ ~(Needs(hs[n]) >= Needs(hs[n - k]))
    BY <2>3
  <2>5. \A i \in 1 .. n : Needs(hs[i]) \in Int
    BY <1>1, DatesAre
  <2>6. k # 0
    BY <2>4, <2>5, <1>1
  <2>7. k - 1 \in Nat /\ k - 1 < n /\ k - 1 \notin T
    BY <2>3, <2>4, <2>6, <1>1
  <2>8. Needs(hs[n]) >= Needs(hs[n - (k - 1)])
    BY <2>7
  <2>9. /\ n - k \in 1 .. n - 1 /\ n - (k - 1) = (n - k) + 1
        /\ n - k \in 1 .. n /\ n - (k - 1) \in 1 .. n
    BY <2>4, <2>6, <1>1
  <2>10. Needs(hs[(n - k) + 1]) > Needs(hs[n - k])
    BY <2>9, <1>2
  <2>11. Needs(hs[n]) >= Needs(hs[(n - k) + 1])
    BY <2>8, <2>9
  <2>12. Needs(hs[n]) \in Int /\ Needs(hs[(n - k) + 1]) \in Int /\ Needs(hs[n - k]) \in Int
    BY <2>5, <2>9, <1>1
  <2> QED
    BY <2>4, <2>10, <2>11, <2>12
<1>4. ASSUME NEW i \in 1 .. n
      PROVE  Needs(hs[n]) >= Needs(hs[i])
  <2>1. n - i \in Nat /\ n - i < n /\ n - (n - i) = i
    BY <1>1
  <2>2. n - i \notin T
    BY <1>3
  <2> QED
    BY <2>1, <2>2
<1> QED
  BY <1>1, <1>4

\* The maximum date is as late as any alive helper needs.
LEMMA MaxCovers ==
  ASSUME Typed, NEW c \in Curves,
         algorithm[c] = "iterative" => Alive(c) # <<>> /\ LatestAdvances(Alive(c))
  PROVE  MaxDate(c) \in Int /\ \A h \in ToSet(Alive(c)) : MaxDate(c) >= Needs(h)
<1> DEFINE hs == Alive(c)
<1>1. hs \in Seq(Helpers)
  BY AliveIs
<1>2. CASE algorithm[c] = "iterative"
  <2>1. MaxDate(c) = Needs(Last(hs)) /\ hs # <<>> /\ LatestAdvances(hs)
    BY <1>2 DEF MaxDate
  <2> HIDE DEF hs
  <2>2. \A i \in 1 .. Len(hs) : Needs(Last(hs)) >= Needs(hs[i])
    BY <1>1, <2>1, NeedsGrow
  <2>3. \A h \in ToSet(hs) : Needs(Last(hs)) >= Needs(h)
    BY <1>1, <2>2 DEF ToSet
  <2>4. Last(hs) \in Helpers
    BY <1>1, <2>1 DEF Last
  <2> QED
    BY <2>1, <2>3, <2>4, DatesAre DEF hs
<1>3. CASE algorithm[c] # "iterative"
  <2> DEFINE needs == [i \in 1 .. Len(hs) |-> Needs(hs[i])]
             S == {FirstDate} \cup {Needs(h) : h \in ToSet(hs)}
  <2>1. MaxDate(c) = Max(S)
    BY <1>3 DEF MaxDate
  <2> HIDE DEF hs
  <2>2. ToSet(needs) = {Needs(h) : h \in ToSet(hs)}
    BY <1>1 DEF ToSet
  <2>3. IsFiniteSet(ToSet(needs))
    <3>1. Len(hs) \in Nat /\ DOMAIN needs = 1 .. Len(hs)
      BY <1>1
    <3> HIDE DEF needs
    <3> QED
      BY <3>1, ImageIsFinite
  <2>4. IsFiniteSet(ToSet(needs) \cup {FirstDate})
    BY <2>3, FS_AddElement
  <2>5. S = ToSet(needs) \cup {FirstDate}
    BY <2>2
  <2>6. \A h \in ToSet(hs) : h \in Helpers
    BY <1>1 DEF ToSet
  <2>7. S \in SUBSET Int /\ S # {}
    BY <2>6, DatesAre, BootstrapTypes
  <2>8. Max(S) \in S /\ \A x \in S : Max(S) >= x
    <3> HIDE DEF S
    <3> QED
      BY <2>4, <2>5, <2>7, GreatestOf
  <2> QED
    BY <2>1, <2>7, <2>8 DEF hs
<1> QED
  BY <1>2, <1>3

-----------------------------------------------------------------------------
(* WHAT THE LAYOUT DEPENDS ON                                              *)

\* What a curve's helpers are, and what is laid out for them, depends on their
\* schedules alone.
LEMMA SameAlive ==
  ASSUME Typed, NEW c \in Curves, algorithm' = algorithm,
         \A h \in ToSet(Instruments[c]) : seen'[h] = seen[h]
  PROVE  /\ Alive(c)' = Alive(c)
         /\ \A h \in ToSet(Alive(c)) : /\ PillarDate(h)' = PillarDate(h)
                                       /\ LatestRelevantDate(h)' = LatestRelevantDate(h)
                                       /\ Needs(h)' = Needs(h)
<1> DEFINE hs == Instruments[c]
<1>1. \A i \in DOMAIN hs : hs[i] \in ToSet(hs)
  BY DEF ToSet
<1>2. \A h \in ToSet(hs) : /\ PillarDate(h)' = PillarDate(h)
                           /\ LatestRelevantDate(h)' = LatestRelevantDate(h)
  BY DEF PillarDate, LatestRelevantDate
<1>3. \A i \in DOMAIN hs : PillarDate(hs[i])' = PillarDate(hs[i])
  BY <1>1, <1>2
<1>4. {i \in DOMAIN hs : IsAlive(hs[i])}' = {i \in DOMAIN hs : IsAlive(hs[i])}
  BY <1>3 DEF IsAlive
<1>5. ASSUME NEW I \in SUBSET DOMAIN hs
      PROVE  sort_by_pillar_date(hs, I)' = sort_by_pillar_date(hs, I)
  <2>1. [i \in I |-> PillarDate(hs[i])]' = [i \in I |-> PillarDate(hs[i])]
    BY <1>3
  <2> QED
    BY <2>1 DEF sort_by_pillar_date
<1> DEFINE unexpired == {i \in DOMAIN hs : IsAlive(hs[i])}
<1>6. unexpired \in SUBSET DOMAIN hs
  OBVIOUS
<1>7. Alive(c)' = Alive(c)
  <2>1. sort_by_pillar_date(hs, unexpired)' = sort_by_pillar_date(hs, unexpired)
    <3>1. [i \in unexpired' |-> PillarDate(hs[i])'] = [i \in unexpired |-> PillarDate(hs[i])]
      BY <1>3, <1>4, <1>6
    <3> QED
      BY <3>1, <1>4 DEF sort_by_pillar_date
  <2>2. Arranged(hs, unexpired, [i \in unexpired |-> i])' =
          Arranged(hs, unexpired, [i \in unexpired |-> i])
    BY <1>4
  <2>3. sort_by_pillar_date(hs, DOMAIN hs)' = sort_by_pillar_date(hs, DOMAIN hs)
    BY <1>5
  <2> QED
    BY <2>1, <2>2, <2>3 DEF Alive, Typed
<1>8. ToSet(Alive(c)) \subseteq ToSet(hs)
  BY AliveIs
<1>9. \A h \in ToSet(hs) : Needs(h)' = Needs(h)
  BY <1>2 DEF Needs
<1> QED
  BY <1>2, <1>7, <1>8, <1>9

\* So do the nodes, the passes and the reach.
LEMMA SameLayout ==
  ASSUME Typed, NEW c \in Curves, algorithm' = algorithm,
         \A h \in ToSet(Instruments[c]) : seen'[h] = seen[h]
  PROVE  /\ Grid(c)' = Grid(c)
         /\ LoopRequired(c)' = LoopRequired(c)
         /\ algorithm[c] # "iterative" \/ Alive(c) # <<>> => MaxDate(c)' = MaxDate(c)
         /\ LatestAdvances(Alive(c))' = LatestAdvances(Alive(c))
<1> DEFINE hs == Alive(c)
<1>1. /\ hs' = hs /\ hs \in Seq(Helpers)
      /\ \A h \in ToSet(hs) : /\ PillarDate(h)' = PillarDate(h)
                              /\ LatestRelevantDate(h)' = LatestRelevantDate(h)
                              /\ Needs(h)' = Needs(h)
  BY SameAlive, AliveIs
<1>2. DOMAIN hs = 1 .. Len(hs) /\ Len(hs) \in Nat
  BY <1>1
<1>3. \A i \in 1 .. Len(hs) : hs[i] \in ToSet(hs)
  BY <1>2 DEF ToSet
<1> DEFINE pillars == [i \in 1 .. Len(hs) |-> PillarDate(hs[i])]
<1>4. Grid(c)' = Grid(c)
  <2>1. Grid(c) = IF algorithm[c] = "global"
                  THEN LET ds == {FirstDate} \cup ToSet(pillars) IN Ordered(ds, [d \in ds |-> d])
                  ELSE <<FirstDate>> \o pillars
    BY DEF Grid
  <2>2. Grid(c)' = IF algorithm'[c] = "global"
                   THEN LET ds == {FirstDate} \cup ToSet(pillars') IN Ordered(ds, [d \in ds |-> d])
                   ELSE <<FirstDate>> \o pillars'
    BY DEF Grid
  <2>3. pillars' = pillars
    <3> HIDE DEF hs
    <3>1. \A i \in 1 .. Len(hs) : PillarDate(hs[i])' = PillarDate(hs[i])
      BY <1>1, <1>3
    <3> QED
      BY <1>1, <3>1
  <2> HIDE DEF pillars
  <2> QED
    BY <2>1, <2>2, <2>3
<1>5. LoopRequired(c)' = LoopRequired(c)
  <2>1. (\E h \in ToSet(hs) : PillarDate(h) < LatestRelevantDate(h))' =
           (\E h \in ToSet(hs) : PillarDate(h) < LatestRelevantDate(h))
    BY <1>1
  <2> QED
    BY <2>1 DEF LoopRequired
<1>6. algorithm[c] # "iterative" \/ hs # <<>> => MaxDate(c)' = MaxDate(c)
  <2>1. CASE algorithm[c] = "iterative" /\ hs # <<>>
    <3>1. Last(hs) \in ToSet(hs)
      BY <2>1, <1>1, <1>3 DEF Last
    <3>2. Needs(Last(hs))' = Needs(Last(hs))
      BY <1>1, <3>1
    <3> QED
      BY <2>1, <3>2 DEF MaxDate
  <2>2. CASE algorithm[c] # "iterative"
    <3>1. {Needs(h) : h \in ToSet(hs)}' = {Needs(h) : h \in ToSet(hs)}
      BY <1>1
    <3> QED
      BY <2>2, <3>1 DEF MaxDate
  <2> QED
    BY <2>1, <2>2
<1>7. LatestAdvances(hs)' = LatestAdvances(hs)
  <2> DEFINE Adv(i) == LatestRelevantDate(hs[i]) >
      IF i = 1 THEN FirstDate
               ELSE Later(PillarDate(hs[i - 1]), LatestRelevantDate(hs[i - 1]))
  <2>1. ASSUME NEW i \in 1 .. Len(hs)
        PROVE  Adv(i)' = Adv(i)
    <3> HIDE DEF hs
    <3>1. /\ hs' = hs
          /\ PillarDate(hs[i])' = PillarDate(hs[i])
          /\ LatestRelevantDate(hs[i])' = LatestRelevantDate(hs[i])
      BY <1>1, <1>3
    <3>2. CASE i = 1
      BY <3>1, <3>2
    <3>3. CASE i # 1
      <4>1. i - 1 \in 1 .. Len(hs)
        BY <1>2, <3>3
      <4>2. hs[i - 1] \in ToSet(hs)
        BY <4>1, <1>3
      <4>3. /\ PillarDate(hs[i - 1])' = PillarDate(hs[i - 1])
            /\ LatestRelevantDate(hs[i - 1])' = LatestRelevantDate(hs[i - 1])
        BY <1>1, <4>2
      <4> QED
        BY <3>1, <3>3, <4>3 DEF Later
    <3> QED
      BY <3>2, <3>3
  <2>2. LatestAdvances(hs) = \A i \in 1 .. Len(hs) : Adv(i)
    BY DEF LatestAdvances
  <2>3. LatestAdvances(hs)' = \A i \in 1 .. Len(hs') : Adv(i)'
    BY DEF LatestAdvances
  <2> HIDE DEF Adv
  <2> QED
    BY <2>1, <2>2, <2>3, <1>1
<1> QED
  BY <1>4, <1>5, <1>6, <1>7

-----------------------------------------------------------------------------
(* THE INDUCTIVE INVARIANT                                                 *)

\* Layers of curves that respect what they read.
Below == CHOOSE below \in [Curves -> SUBSET Curves] : Layered(below)

\* A curve that answers without a calculation of its own under way.
Standing(b) == calculated[b] /\ ~Solving(b)

Shaped(r) ==
  /\ r = [dates |-> r.dates, data |-> r.data, upto |-> r.upto, maxDate |-> r.maxDate,
          valid |-> r.valid]
  /\ r.data = [i \in 1 .. Len(r.dates) |-> r.data[i]]
  /\ r.upto <= Len(r.dates)

Shapes == \A c \in Curves : Shaped(cd[c])

\* A relative helper that is not waiting for the date has a schedule of the date.
Told == \A h \in Relative \ untold : seen[h] = date

\* The nodes that the solve of helper number i writes last.
NodesOf(c, i) == IF algorithm[c] = "global" THEN 2 .. Len(cd[c].dates) ELSE {i + 1}

Fits(v, h, c) ==
  /\ v.kind = "fit"
  /\ h \in DOMAIN v.helpers
  /\ v.helpers[h] = [quote |-> quote[h], seen |-> seen[h], on |-> c,
                     others |-> [b \in Reads[h] |-> cd[b].data]]

\* Helper h of c, its number i, is fitted, over the whole grid if need be, and what
\* it reads stands.
Pinned(c, h, i, whole) ==
  /\ \A b \in Reads[h] : Standing(b)
  /\ \A k \in NodesOf(c, i) : /\ Fits(cd[c].data[k], h, c)
                              /\ whole => cd[c].data[k].upto = Len(cd[c].dates)

StepsOf(F) == CASE algorithm[F.curve] = "iterative" -> Len(F.alive)
                [] algorithm[F.curve] = "local"     -> Len(F.alive) - Localisation + 1
                [] algorithm[F.curve] = "global"    -> 1

\* The helpers a bootstrap has fitted in its pass, by number.
PinnedBy(F) ==
  CASE algorithm[F.curve] = "iterative" -> 1 .. F.step - 1
    [] algorithm[F.curve] = "local" ->
         IF F.tried \/ F.step = 1 THEN 1 .. F.step - 1 ELSE 1 .. F.step + Localisation - 2
    [] algorithm[F.curve] = "global" -> IF F.step = 1 THEN {} ELSE DOMAIN F.alive

\* The nodes it has interpolated over.
ReachedBy(F) ==
  CASE algorithm[F.curve] = "iterative" -> IF F.tried THEN F.step + 1 ELSE F.step
    [] algorithm[F.curve] = "local" ->
         IF F.tried THEN F.step + Localisation
                    ELSE IF F.step = 1 THEN 0 ELSE F.step + Localisation - 1
    [] algorithm[F.curve] = "global" ->
         IF F.tried \/ F.step = 2 THEN Len(cd[F.curve].dates) ELSE 0

Rising(s, n) == \A i \in 1 .. n - 1 : s[i] < s[i + 1]

\* What a bootstrap on the stack can count on.
Kept(F) ==
  /\ calculated[F.curve]
  /\ F.alive = Alive(F.curve)
  /\ F.loop = LoopRequired(F.curve)
  /\ F.step \in 1 .. StepsOf(F) + 1
  /\ F.tried => F.step <= StepsOf(F)
  /\ \A i \in DOMAIN F.alive : on[F.alive[i]] = F.curve
  /\ \A i \in PinnedBy(F) : Pinned(F.curve, F.alive[i], i, F.loop /\ F.valid)
  /\ Rising(cd[F.curve].dates, ReachedBy(F))

\* What was accepted, and what is installed for it.
Laid(c) ==
  /\ cd[c].dates = Grid(c)
  /\ cd[c].maxDate = MaxDate(c)
  /\ algorithm[c] = "iterative" => Alive(c) # <<>> /\ LatestAdvances(Alive(c))
  /\ algorithm[c] = "local" => Len(Alive(c)) > Localisation

Done(c) == /\ \A i \in DOMAIN Alive(c) : Pinned(c, Alive(c)[i], i, LoopRequired(c))
           /\ Rising(cd[c].dates, Len(cd[c].dates))

\* The bootstraps on the stack are of curves in ever lower layers.
Descending ==
  \A j \in DOMAIN stack : \A i \in 1 .. j - 1 : stack[i].curve \in Below[stack[j].curve]

IInv ==
  /\ TypeOK
  /\ Shapes
  /\ Told
  /\ Descending
  /\ \A n \in DOMAIN stack : Kept(stack[n])
  /\ \A c \in Curves : calculated[c] => Laid(c)
  /\ \A c \in Curves : Standing(c) => Done(c)

LEMMA TypesGive ==
  ASSUME TypeOK
  PROVE  Typed
  BY DEF TypeOK, Typed

\* The layers chosen are layers.
LEMMA BelowIs == Below \in [Curves -> SUBSET Curves] /\ Layered(Below)
  BY CurvesAreLayered DEF Below

\* At first nothing is calculated and no bootstrap is under way.
LEMMA InitKeeps == Init => IInv
<1> SUFFICES ASSUME Init PROVE IInv
  OBVIOUS
<1>1. TypeOK
  <2>1. algorithm \in [Curves -> {"iterative", "local", "global"}]
    BY BootstrapTypes DEF Init
  <2>2. \A c \in Curves : /\ cd[c].dates \in Seq(Int) /\ cd[c].maxDate \in Int
                          /\ cd[c].upto \in Nat /\ cd[c].valid \in BOOLEAN
    <3> SUFFICES ASSUME NEW c \in Curves
                 PROVE  /\ cd[c].dates \in Seq(Int) /\ cd[c].maxDate \in Int
                        /\ cd[c].upto \in Nat /\ cd[c].valid \in BOOLEAN
      OBVIOUS
    <3>1. cd[c] = EmptyData
      BY DEF Init
    <3>2. <<>> \in Seq(Int) /\ FirstDate \in Int
      BY BootstrapTypes
    <3> QED
      BY <3>1, <3>2 DEF EmptyData
  <2> QED
    BY <2>1, <2>2 DEF Init, TypeOK
<1>2. Shapes
  <2> SUFFICES ASSUME NEW c \in Curves PROVE Shaped(cd[c])
    BY DEF Shapes
  <2>1. cd[c] = EmptyData
    BY DEF Init
  <2>2. <<>> = [i \in 1 .. Len(<<>>) |-> <<>>[i]]
    OBVIOUS
  <2> QED
    BY <2>1, <2>2 DEF Shaped, EmptyData
<1>3. Told
  BY BootstrapTypes DEF Init, Told
<1> QED
  BY <1>1, <1>2, <1>3 DEF Init, IInv, Descending, Standing

\* Nodes and dates go together.
LEMMA ShapedGives ==
  ASSUME NEW r, r.dates \in Seq(Int), Shaped(r)
  PROVE  Len(r.data) = Len(r.dates) /\ DOMAIN r.data = 1 .. Len(r.dates)
<1> DEFINE n == Len(r.dates)
           s == r.data
<1>1. n \in Nat /\ s = [i \in 1 .. n |-> s[i]]
  BY DEF Shaped
<1> HIDE DEF n, s
<1>2. [i \in 1 .. n |-> s[i]] \in Seq({s[i] : i \in 1 .. n})
  BY <1>1
<1> QED
  BY <1>1, <1>2 DEF n, s

\* From the invariant, the three properties.
LEMMA IInvShapes == IInv => ShapesMatch
<1> SUFFICES ASSUME IInv, NEW c \in Curves
             PROVE  Len(cd[c].data) = Len(cd[c].dates) /\ cd[c].upto <= Len(cd[c].dates)
  BY DEF ShapesMatch
<1>1. cd[c].dates \in Seq(Int) /\ Shaped(cd[c])
  BY DEF IInv, TypeOK, Shapes
<1> QED
  BY <1>1, ShapedGives DEF Shaped

LEMMA IInvRange == IInv => RangeCoversHelpers
<1> SUFFICES ASSUME IInv, NEW c \in Curves, calculated[c]
             PROVE  /\ \A h \in ToSet(Alive(c)) : cd[c].maxDate >= Needs(h)
                    /\ Solving(c) \/ Increasing(cd[c].dates)
  BY DEF RangeCoversHelpers
<1>1. Typed /\ Laid(c)
  BY TypesGive DEF IInv
<1>2. \A h \in ToSet(Alive(c)) : cd[c].maxDate >= Needs(h)
  BY <1>1, MaxCovers DEF Laid
<1>3. ~Solving(c) => Increasing(cd[c].dates)
  BY DEF IInv, Standing, Done, Rising, Increasing
<1> QED
  BY <1>2, <1>3

LEMMA IInvSolved == IInv => CalculatedIsSolved
<1> SUFFICES ASSUME IInv, NEW c \in Curves, calculated[c], ~Solving(c),
                    NEW h \in ToSet(Instruments[c]), IsAlive(h) \/ algorithm[c] = "local"
             PROVE  \E k \in DOMAIN cd[c].data :
                      /\ cd[c].dates[k] = PillarDate(h)
                      /\ FitsNow(cd[c].data[k], h, c)
                      /\ LoopRequired(c) => cd[c].data[k].upto = Len(cd[c].data)
  BY DEF CalculatedIsSolved
<1>1. Typed /\ Laid(c) /\ Done(c) /\ Told
  BY TypesGive DEF IInv, Standing
<1>2. /\ Alive(c) \in Seq(Helpers)
      /\ h \in ToSet(Alive(c))
  BY <1>1, AliveIs
<1>3. PICK i \in DOMAIN Alive(c) : Alive(c)[i] = h
  BY <1>2 DEF ToSet
<1>4. Pinned(c, h, i, LoopRequired(c))
  BY <1>1, <1>3 DEF Done
<1>5. cd[c].dates \in Seq(Int) /\ Shaped(cd[c])
  BY DEF IInv, TypeOK, Shapes
<1>6. Len(cd[c].data) = Len(cd[c].dates) /\ DOMAIN cd[c].data = 1 .. Len(cd[c].dates)
  BY <1>5, ShapedGives
<1>7. cd[c].dates = Grid(c)
  BY <1>1 DEF Laid
<1>8. PICK k \in NodesOf(c, i) : k \in 1 .. Len(cd[c].dates) /\ cd[c].dates[k] = PillarDate(h)
  <2>1. CASE algorithm[c] = "global"
    <3>1. PICK k \in 2 .. Len(Grid(c)) : Grid(c)[k] = PillarDate(h)
      BY <1>1, <1>2, <2>1, GridIs
    <3>2. k \in 1 .. Len(cd[c].dates)
      BY <3>1, <1>5, <1>7
    <3> QED
      BY <3>1, <3>2, <2>1, <1>7 DEF NodesOf
  <2>2. CASE algorithm[c] # "global"
    <3>1. Len(Grid(c)) = Len(Alive(c)) + 1 /\ Grid(c)[i + 1] = PillarDate(h)
      BY <1>1, <1>3, <2>2, GridIs
    <3>2. i + 1 \in 1 .. Len(cd[c].dates)
      BY <3>1, <1>2, <1>3, <1>7
    <3> QED
      BY <3>1, <3>2, <2>2, <1>7 DEF NodesOf
  <2> QED
    BY <2>1, <2>2
<1>9. Fits(cd[c].data[k], h, c) /\ (LoopRequired(c) => cd[c].data[k].upto = Len(cd[c].dates))
  BY <1>4, <1>8 DEF Pinned
<1>10. FitsNow(cd[c].data[k], h, c)
  <2>1. h \in Helpers
    BY <1>2 DEF ToSet
  <2>2. (IF h \in untold THEN seen[h] ELSE IF h \in Relative THEN date ELSE seen[h]) = seen[h]
    BY <1>1 DEF Told
  <2> QED
    BY <1>9, <2>2 DEF Fits, FitsNow
<1> QED
  BY <1>6, <1>8, <1>9, <1>10

-----------------------------------------------------------------------------
(* STEPS OF A CALCULATION                                                  *)

\* What a calculation leaves alone.
Quiet == UNCHANGED <<algorithm, market>>

\* The curves that stand stay as they are.
Stays == \A b \in Curves : Standing(b) => Standing(b)' /\ cd'[b] = cd[b]

\* Nodes stay laid out for helpers whose schedules stay.
LEMMA LaidStays ==
  ASSUME Typed, NEW c \in Curves, algorithm' = algorithm,
         \A h \in ToSet(Instruments[c]) : seen'[h] = seen[h],
         Laid(c), cd'[c].dates = cd[c].dates, cd'[c].maxDate = cd[c].maxDate
  PROVE  Laid(c)'
<1>1. Alive(c)' = Alive(c)
  BY SameAlive
<1>2. Grid(c)' = Grid(c) /\ LatestAdvances(Alive(c))' = LatestAdvances(Alive(c))
  BY SameLayout
<1>3. MaxDate(c)' = MaxDate(c)
  BY SameLayout DEF Laid
<1> QED
  BY <1>1, <1>2, <1>3 DEF Laid

\* A helper stays pinned while its quote and schedule, its nodes and the curves it
\* reads stay.
LEMMA PinnedStays ==
  ASSUME NEW c \in Curves, NEW h \in Helpers, NEW i, NEW whole,
         algorithm' = algorithm, seen'[h] = seen[h], quote'[h] = quote[h],
         \A b \in Reads[h] : Standing(b)' /\ cd'[b] = cd[b],
         cd'[c].dates = cd[c].dates,
         \A k \in NodesOf(c, i) : cd'[c].data[k] = cd[c].data[k],
         Pinned(c, h, i, whole)
  PROVE  Pinned(c, h, i, whole)'
<1>1. NodesOf(c, i)' = NodesOf(c, i)
  BY DEF NodesOf
<1>2. [b \in Reads[h] |-> cd[b].data]' = [b \in Reads[h] |-> cd[b].data]
  OBVIOUS
<1>4. ASSUME NEW k \in NodesOf(c, i)
      PROVE  /\ Fits(cd[c].data[k], h, c)'
             /\ whole => cd'[c].data[k].upto = Len(cd'[c].dates)
  <2>1. Fits(cd[c].data[k], h, c) /\ (whole => cd[c].data[k].upto = Len(cd[c].dates))
    BY DEF Pinned
  <2>2. Fits(cd[c].data[k], h, c)'
    BY <2>1, <1>2 DEF Fits
  <2> QED
    BY <2>1, <2>2
<1>5. \A b \in Reads[h] : Standing(b)'
  OBVIOUS
<1> QED
  BY <1>1, <1>4, <1>5 DEF Pinned

\* The helpers a bootstrap counts as fitted are alive.
LEMMA PinnedAre ==
  ASSUME NEW F \in Frames, F.step \in 1 .. StepsOf(F) + 1, F.tried => F.step <= StepsOf(F),
         algorithm \in [Curves -> {"iterative", "local", "global"}]
  PROVE  PinnedBy(F) \subseteq DOMAIN F.alive
<1>1. F.alive \in Seq(Helpers) /\ F.curve \in Curves /\ F.step \in Nat
  BY DEF Frames
<1>2. Localisation \in Nat /\ Localisation # 0
  BY BootstrapTypes
<1>3. DOMAIN F.alive = 1 .. Len(F.alive) /\ Len(F.alive) \in Nat
  BY <1>1
<1>4. CASE algorithm[F.curve] = "iterative"
  BY <1>1, <1>3, <1>4 DEF PinnedBy, StepsOf
<1>5. CASE algorithm[F.curve] = "local"
  <2>1. F.step <= Len(F.alive) - Localisation + 2
    BY <1>5, <1>3, <1>2 DEF StepsOf
  <2>2. F.tried => F.step <= Len(F.alive) - Localisation + 1
    BY <1>5 DEF StepsOf
  <2>3. CASE F.tried \/ F.step = 1
    <3>1. PinnedBy(F) = 1 .. F.step - 1
      BY <1>5, <2>3 DEF PinnedBy
    <3> QED
      BY <3>1, <2>1, <2>2, <2>3, <1>1, <1>2, <1>3
  <2>4. CASE ~(F.tried \/ F.step = 1)
    <3>1. PinnedBy(F) = 1 .. F.step + Localisation - 2
      BY <1>5, <2>4 DEF PinnedBy
    <3> QED
      BY <3>1, <2>1, <1>1, <1>2, <1>3
  <2> QED
    BY <2>3, <2>4
<1>6. CASE algorithm[F.curve] = "global"
  BY <1>6 DEF PinnedBy
<1> QED
  BY <1>1, <1>4, <1>5, <1>6

\* A bootstrap that is not at work keeps what it counts on.
LEMMA KeptStays ==
  ASSUME Typed, Quiet, Stays, NEW F \in Frames, Kept(F), calculated'[F.curve],
         cd'[F.curve].dates = cd[F.curve].dates, cd'[F.curve].data = cd[F.curve].data,
         \A i \in DOMAIN F.alive : on'[F.alive[i]] = on[F.alive[i]]
  PROVE  Kept(F)'
<1> DEFINE c == F.curve
<1>1. c \in Curves /\ F.alive \in Seq(Helpers)
  BY DEF Frames
<1>2. algorithm' = algorithm /\ seen' = seen /\ quote' = quote
  BY DEF Quiet, market
<1>3. Alive(c)' = Alive(c) /\ LoopRequired(c)' = LoopRequired(c)
  BY <1>1, <1>2, SameAlive, SameLayout
<1>4. StepsOf(F)' = StepsOf(F) /\ PinnedBy(F)' = PinnedBy(F) /\ ReachedBy(F)' = ReachedBy(F)
  BY <1>2 DEF StepsOf, PinnedBy, ReachedBy
<1>5. PinnedBy(F) \subseteq DOMAIN F.alive
  BY PinnedAre DEF Typed, Kept
<1>6. ASSUME NEW i \in PinnedBy(F)
      PROVE  Pinned(c, F.alive[i], i, F.loop /\ F.valid)'
  <2>1. Pinned(c, F.alive[i], i, F.loop /\ F.valid)
    BY DEF Kept
  <2>2. F.alive[i] \in Helpers
    BY <1>1, <1>5
  <2>3. \A b \in Reads[F.alive[i]] : Standing(b)' /\ cd'[b] = cd[b]
    BY <2>1, <2>2, BootstrapTypes DEF Stays, Pinned
  <2> QED
    BY <1>1, <1>2, <2>1, <2>2, <2>3, PinnedStays
<1>7. Rising(cd[c].dates, ReachedBy(F))'
  BY <1>4 DEF Kept, Rising
<1> QED
  BY <1>3, <1>4, <1>6, <1>7 DEF Kept

\* The frames agree in all that is counted on.
Alike(F, G) == /\ F.curve = G.curve /\ F.alive = G.alive /\ F.loop = G.loop
               /\ F.valid = G.valid /\ F.step = G.step /\ F.tried = G.tried

\* Losing a nested bootstrap changes nothing a bootstrap counts on.
LEMMA KeptAlike ==
  ASSUME NEW F, NEW G, Alike(F, G), Kept(F)'
  PROVE  Kept(G)'
<1>1. /\ StepsOf(F)' = StepsOf(G)' /\ PinnedBy(F)' = PinnedBy(G)'
      /\ ReachedBy(F)' = ReachedBy(G)'
  BY DEF Alike, StepsOf, PinnedBy, ReachedBy
<1> QED
  BY <1>1 DEF Alike, Kept

\* A curve that stands stays done.
LEMMA DoneStays ==
  ASSUME Typed, Quiet, Stays, NEW c \in Curves, Standing(c), Done(c)
  PROVE  Done(c)'
<1>1. algorithm' = algorithm /\ seen' = seen /\ quote' = quote
  BY DEF Quiet, market
<1>2. /\ Alive(c)' = Alive(c) /\ LoopRequired(c)' = LoopRequired(c)
      /\ Alive(c) \in Seq(Helpers)
  BY <1>1, SameAlive, SameLayout, AliveIs
<1>3. cd'[c] = cd[c]
  BY DEF Stays
<1>4. ASSUME NEW i \in DOMAIN Alive(c)
      PROVE  Pinned(c, Alive(c)[i], i, LoopRequired(c))'
  <2> DEFINE h == Alive(c)[i]
             whole == LoopRequired(c)
  <2>1. Pinned(c, h, i, whole)
    BY DEF Done
  <2>2. h \in Helpers /\ h' = h /\ whole' = whole
    BY <1>2
  <2>3. \A b \in Reads[h] : Standing(b)' /\ cd'[b] = cd[b]
    BY <2>1, <2>2, BootstrapTypes DEF Stays, Pinned
  <2>4. \A g, w : g = h /\ w = whole => Pinned(c, g, i, w)'
    <3> HIDE DEF h, whole
    <3> SUFFICES ASSUME NEW g, NEW w, g = h, w = whole PROVE Pinned(c, g, i, w)'
      OBVIOUS
    <3>1. /\ g \in Helpers /\ Pinned(c, g, i, w)
          /\ \A b \in Reads[g] : Standing(b)' /\ cd'[b] = cd[b]
      BY <2>1, <2>2, <2>3
    <3> QED
      BY <1>1, <1>3, <3>1, PinnedStays
  <2> QED
    BY <2>2, <2>4
<1>5. Rising(cd'[c].dates, Len(cd'[c].dates))
  BY <1>3 DEF Done
<1> QED
  BY <1>2, <1>4, <1>5 DEF Done, Rising

\* A step of a calculation keeps the invariant if it keeps its bootstraps, and what
\* it newly calls calculated or leaves standing is so.
LEMMA QuietKeeps ==
  ASSUME IInv, Quiet, Stays, TypeOK', Shapes', Descending',
         \A n \in DOMAIN stack' : Kept(stack[n])',
         \A c \in Curves : calculated'[c] /\ ~calculated[c] => Laid(c)',
         \A c \in Curves : /\ calculated'[c] /\ calculated[c] =>
                                /\ cd'[c].dates = cd[c].dates
                                /\ cd'[c].maxDate = cd[c].maxDate
                           /\ Standing(c)' /\ ~Standing(c) => Done(c)'
  PROVE  IInv'
<1>1. Typed
  BY TypesGive DEF IInv
<1>2. Told'
  BY DEF IInv, Told, Quiet, market
<1>3. ASSUME NEW c \in Curves, calculated'[c]
      PROVE  Laid(c)'
  <2>1. algorithm' = algorithm /\ seen' = seen
    BY DEF Quiet, market
  <2>2. CASE calculated[c]
    <3>1. Laid(c) /\ cd'[c].dates = cd[c].dates /\ cd'[c].maxDate = cd[c].maxDate
      BY <1>3, <2>2 DEF IInv
    <3> QED
      BY <1>1, <2>1, <3>1, LaidStays
  <2>3. CASE ~calculated[c]
    BY <1>3, <2>3
  <2> QED
    BY <2>2, <2>3
<1>4. ASSUME NEW c \in Curves, Standing(c)'
      PROVE  Done(c)'
  <2>1. CASE Standing(c)
    BY <1>1, <2>1, DoneStays DEF IInv
  <2>2. CASE ~Standing(c)
    BY <1>4, <2>2
  <2> QED
    BY <2>1, <2>2
<1> QED
  BY <1>2, <1>3, <1>4 DEF IInv

-----------------------------------------------------------------------------
(* THE STACK OF BOOTSTRAPS                                                 *)

\* The stack

\* What the stack holds.
LEMMA FramesAre ==
  ASSUME TypeOK
  PROVE  /\ stack \in Seq(Frames) /\ Len(stack) \in Nat /\ DOMAIN stack = 1 .. Len(stack)
         /\ stack # <<>> => 1 \in DOMAIN stack /\ f = stack[1]
         /\ \A n \in DOMAIN stack : stack[n] \in Frames /\ stack[n].curve \in Curves
<1>1. stack \in Seq(Frames)
  BY DEF TypeOK
<1>2. \A n \in DOMAIN stack : stack[n] \in Frames
  BY <1>1
<1>3. \A F \in Frames : F.curve \in Curves
  BY DEF Frames
<1> QED
  BY <1>1, <1>2, <1>3 DEF f

\* Lost marks the first frame and leaves the others.
LEMMA LostIs ==
  ASSUME NEW s \in Seq(Frames)
  PROVE  /\ Lost(s) \in Seq(Frames) /\ DOMAIN Lost(s) = DOMAIN s
         /\ \A n \in DOMAIN s : Alike(s[n], Lost(s)[n])
<1>1. CASE s = <<>>
  BY <1>1 DEF Lost
<1>2. CASE s # <<>>
  <2> DEFINE G == [Head(s) EXCEPT !.lost = TRUE]
  <2>1. /\ s[1] \in Frames /\ Head(s) = s[1]
        /\ Tail(s) \in Seq(Frames) /\ Len(Tail(s)) = Len(s) - 1
    BY <1>2
  <2>2. G \in Frames /\ Alike(s[1], G)
    BY <2>1 DEF Frames, Alike
  <2>3. Lost(s) = <<G>> \o Tail(s)
    BY <1>2 DEF Lost
  <2> HIDE DEF G
  <2>4. /\ <<G>> \o Tail(s) \in Seq(Frames) /\ Len(<<G>> \o Tail(s)) = Len(s)
        /\ (<<G>> \o Tail(s))[1] = G
        /\ \A n \in 2 .. Len(s) : (<<G>> \o Tail(s))[n] = s[n]
    BY <1>2, <2>1, <2>2
  <2>5. \A n \in 1 .. Len(s) : n = 1 \/ n \in 2 .. Len(s)
    OBVIOUS
  <2> QED
    BY <2>2, <2>3, <2>4, <2>5 DEF Alike
<1> QED
  BY <1>1, <1>2

\* After a failure inside, the same bootstraps are under way.
LEMMA LostKeeps ==
  ASSUME TypeOK, Descending, stack' = Lost(stack)
  PROVE  /\ stack' \in Seq(Frames) /\ DOMAIN stack' = DOMAIN stack
         /\ \A n \in DOMAIN stack : Alike(stack[n], stack'[n])
         /\ \A b : Solving(b)' <=> Solving(b)
         /\ Descending'
<1>1. /\ stack' \in Seq(Frames) /\ DOMAIN stack' = DOMAIN stack
      /\ \A n \in DOMAIN stack : Alike(stack[n], stack'[n])
  BY LostIs DEF TypeOK
<1>2. \A n \in DOMAIN stack : stack'[n].curve = stack[n].curve
  BY <1>1 DEF Alike
<1>3. \A j \in DOMAIN stack : \A i \in 1 .. j - 1 : i \in DOMAIN stack
  BY DEF TypeOK
<1> QED
  BY <1>1, <1>2, <1>3 DEF Solving, Descending

\* A curve of a lower layer is another one, with other helpers.
LEMMA Apart ==
  ASSUME TypeOK, Descending, NEW n \in DOMAIN stack, NEW b \in Below[stack[n].curve]
  PROVE  /\ b # stack[n].curve /\ b \in Curves
         /\ ToSet(Instruments[b]) \cap ToSet(Instruments[stack[n].curve]) = {}
<1>1. stack[n].curve \in Curves
  BY FramesAre
<1> QED
  BY <1>1, BelowIs DEF Layered

\* What the innermost bootstrap may read is not being bootstrapped.
LEMMA ReadsRest ==
  ASSUME TypeOK, Descending, stack # <<>>, NEW b \in Below[stack[1].curve]
  PROVE  /\ ~Solving(b)
         /\ \A n \in DOMAIN stack : b \in Below[stack[n].curve]
<1>1. 1 \in DOMAIN stack /\ \A n \in DOMAIN stack : stack[n].curve \in Curves
  BY FramesAre
<1>2. ASSUME NEW n \in DOMAIN stack
      PROVE  b \in Below[stack[n].curve]
  <2>1. CASE n = 1
    BY <2>1
  <2>2. CASE n # 1
    <3>1. 1 \in 1 .. n - 1
      BY <2>2 DEF TypeOK
    <3>2. stack[1].curve \in Below[stack[n].curve]
      BY <3>1 DEF Descending
    <3> QED
      BY <1>1, <3>2, BelowIs DEF Layered
  <2> QED
    BY <2>1, <2>2
<1>3. \A n \in DOMAIN stack : stack[n].curve # b
  BY <1>2, Apart
<1> QED
  BY <1>2, <1>3 DEF Solving

\* The innermost bootstrap ends.
LEMMA PopIs ==
  ASSUME TypeOK, Descending, stack # <<>>, stack' = Tail(stack) \/ stack' = Lost(Tail(stack))
  PROVE  /\ stack' \in Seq(Frames)
         /\ \A n \in DOMAIN stack' : n + 1 \in DOMAIN stack /\ Alike(stack[n + 1], stack'[n])
         /\ \A b : Solving(b)' <=> Solving(b) /\ b # f.curve
         /\ Descending'
<1> DEFINE s == Tail(stack)
<1>1. /\ s \in Seq(Frames) /\ DOMAIN s = 1 .. Len(stack) - 1 /\ DOMAIN stack = 1 .. Len(stack)
      /\ \A n \in DOMAIN s : s[n] = stack[n + 1]
      /\ Len(stack) \in Nat /\ Len(stack) >= 1
  BY DEF TypeOK
<1>2. f = stack[1]
  BY DEF f, TypeOK
<1> HIDE DEF s
<1>3. /\ stack' \in Seq(Frames) /\ DOMAIN stack' = DOMAIN s
      /\ \A n \in DOMAIN s : Alike(s[n], stack'[n])
  <2>1. CASE stack' = s
    BY <1>1, <2>1 DEF Alike
  <2>2. CASE stack' = Lost(s)
    BY <1>1, <2>2, LostIs
  <2> QED
    BY <2>1, <2>2 DEF s
<1>4. \A n \in DOMAIN stack' : n + 1 \in DOMAIN stack /\ Alike(stack[n + 1], stack'[n])
  BY <1>1, <1>3
<1>5. \A n \in DOMAIN stack' : stack'[n].curve = stack[n + 1].curve
  BY <1>4 DEF Alike
<1>6. ASSUME NEW n \in DOMAIN stack, n # 1
      PROVE  /\ n - 1 \in DOMAIN stack' /\ stack[n].curve = stack'[n - 1].curve
             /\ stack[n].curve # f.curve
  <2>1. n - 1 \in DOMAIN stack' /\ (n - 1) + 1 = n /\ 1 \in 1 .. n - 1
    BY <1>1, <1>3, <1>6
  <2>2. stack[1].curve \in Below[stack[n].curve]
    BY <2>1 DEF Descending
  <2>3. stack[1].curve # stack[n].curve
    BY <2>2, Apart
  <2> QED
    BY <1>2, <1>5, <2>1, <2>3
<1>7. ASSUME NEW b
      PROVE  Solving(b)' <=> Solving(b) /\ b # f.curve
  <2>1. ASSUME Solving(b)'
        PROVE  Solving(b) /\ b # f.curve
    <3>1. PICK n \in DOMAIN stack' : stack'[n].curve = b
      BY <2>1 DEF Solving
    <3>2. n + 1 \in DOMAIN stack /\ stack[n + 1].curve = b /\ n + 1 # 1
      BY <1>1, <1>3, <1>4, <1>5, <3>1
    <3> QED
      BY <3>2, <1>6 DEF Solving
  <2>2. ASSUME Solving(b), b # f.curve
        PROVE  Solving(b)'
    <3>1. PICK n \in DOMAIN stack : stack[n].curve = b
      BY <2>2 DEF Solving
    <3>2. n # 1
      BY <3>1, <2>2, <1>2
    <3> QED
      BY <3>1, <3>2, <1>6 DEF Solving
  <2> QED
    BY <2>1, <2>2
<1>8. Descending'
  <2> SUFFICES ASSUME NEW j \in DOMAIN stack', NEW i \in 1 .. j - 1
               PROVE  stack'[i].curve \in Below[stack'[j].curve]
    BY DEF Descending
  <2>1. i \in DOMAIN stack' /\ j + 1 \in DOMAIN stack /\ i + 1 \in 1 .. (j + 1) - 1
    BY <1>1, <1>3, <1>4
  <2>2. stack[i + 1].curve \in Below[stack[j + 1].curve]
    BY <2>1 DEF Descending
  <2> QED
    BY <1>5, <2>1, <2>2
<1> QED
  BY <1>3, <1>4, <1>7, <1>8

\* A bootstrap begins inside those under way.
LEMMA PushIs ==
  ASSUME TypeOK, Descending, NEW F \in Frames, stack' = <<F>> \o stack,
         \A n \in DOMAIN stack : F.curve \in Below[stack[n].curve]
  PROVE  /\ stack' \in Seq(Frames) /\ stack'[1] = F
         /\ \A n \in DOMAIN stack' : n # 1 => n - 1 \in DOMAIN stack /\ stack'[n] = stack[n - 1]
         /\ \A b : Solving(b)' <=> Solving(b) \/ b = F.curve
         /\ Descending'
<1>1. /\ stack \in Seq(Frames) /\ Len(stack) \in Nat /\ DOMAIN stack = 1 .. Len(stack)
  BY DEF TypeOK
<1>2. /\ stack' \in Seq(Frames) /\ DOMAIN stack' = 1 .. Len(stack) + 1 /\ stack'[1] = F
      /\ \A n \in DOMAIN stack' : n # 1 => n - 1 \in DOMAIN stack /\ stack'[n] = stack[n - 1]
  BY <1>1
<1>3. \A n \in DOMAIN stack : n + 1 \in DOMAIN stack' /\ stack'[n + 1] = stack[n]
  BY <1>1, <1>2
<1>4. ASSUME NEW b
      PROVE  Solving(b)' <=> Solving(b) \/ b = F.curve
  <2>1. ASSUME Solving(b)'
        PROVE  Solving(b) \/ b = F.curve
    <3>1. PICK n \in DOMAIN stack' : stack'[n].curve = b
      BY <2>1 DEF Solving
    <3> QED
      BY <3>1, <1>2 DEF Solving
  <2>2. ASSUME Solving(b)
        PROVE  Solving(b)'
    BY <2>2, <1>3 DEF Solving
  <2>3. 1 \in DOMAIN stack'
    BY <1>1, <1>2
  <2>4. b = F.curve => Solving(b)'
    BY <2>3, <1>2 DEF Solving
  <2> QED
    BY <2>1, <2>2, <2>4
<1>5. Descending'
  <2> SUFFICES ASSUME NEW j \in DOMAIN stack', NEW i \in 1 .. j - 1
               PROVE  stack'[i].curve \in Below[stack'[j].curve]
    BY DEF Descending
  <2>1. i \in DOMAIN stack' /\ j # 1 /\ j - 1 \in DOMAIN stack /\ stack'[j] = stack[j - 1]
    BY <1>1, <1>2
  <2>2. CASE i = 1
    BY <2>1, <2>2, <1>2
  <2>3. CASE i # 1
    <3>1. stack'[i] = stack[i - 1] /\ i - 1 \in 1 .. (j - 1) - 1
      BY <1>1, <1>2, <2>1, <2>3
    <3> QED
      BY <2>1, <3>1 DEF Descending
  <2> QED
    BY <2>2, <2>3
<1> QED
  BY <1>2, <1>4, <1>5

\* The innermost bootstrap goes on.
LEMMA TopIs ==
  ASSUME TypeOK, Descending, stack # <<>>, NEW G \in Frames, G.curve = f.curve,
         stack' = [stack EXCEPT ![1] = G]
  PROVE  /\ stack' \in Seq(Frames) /\ DOMAIN stack' = DOMAIN stack /\ stack'[1] = G
         /\ \A n \in DOMAIN stack : n # 1 => stack'[n] = stack[n]
         /\ \A b : Solving(b)' <=> Solving(b)
         /\ Descending'
<1>1. f = stack[1] /\ 1 \in DOMAIN stack
  BY DEF f, TypeOK
<1>2. /\ stack' \in Seq(Frames) /\ DOMAIN stack' = DOMAIN stack /\ stack'[1] = G
      /\ \A n \in DOMAIN stack : n # 1 => stack'[n] = stack[n]
  BY <1>1 DEF TypeOK
<1>3. \A n \in DOMAIN stack : stack'[n].curve = stack[n].curve
  BY <1>1, <1>2
<1>4. \A j \in DOMAIN stack : \A i \in 1 .. j - 1 : i \in DOMAIN stack
  BY DEF TypeOK
<1> QED
  BY <1>2, <1>3, <1>4 DEF Solving, Descending

-----------------------------------------------------------------------------
(* STARTING A CALCULATION                                                  *)

\* The parts of CurveData.
LEMMA DataAre ==
  ASSUME TypeOK, Shapes, NEW c \in Curves
  PROVE  /\ cd[c].dates \in Seq(Int) /\ cd[c].maxDate \in Int /\ cd[c].upto \in Nat
         /\ cd[c].valid \in BOOLEAN
         /\ Shaped(cd[c]) /\ DOMAIN cd = Curves
         /\ Len(cd[c].data) = Len(cd[c].dates) /\ DOMAIN cd[c].data = 1 .. Len(cd[c].dates)
<1>1. /\ cd[c].dates \in Seq(Int) /\ cd[c].maxDate \in Int /\ cd[c].upto \in Nat
      /\ cd[c].valid \in BOOLEAN /\ DOMAIN cd = Curves /\ Shaped(cd[c])
  BY DEF TypeOK, Shapes
<1> QED
  BY <1>1, ShapedGives

\* Types, when the stack, the nodes, the flags and the hand-overs change.
LEMMA TypesAfter ==
  ASSUME TypeOK, Quiet, DOMAIN cd' = Curves,
         \A c \in Curves : /\ cd'[c].dates \in Seq(Int) /\ cd'[c].maxDate \in Int
                           /\ cd'[c].upto \in Nat /\ cd'[c].valid \in BOOLEAN,
         on' \in [Helpers -> Curves \cup {Nobody}],
         calculated' \in [Curves -> BOOLEAN],
         stack' \in Seq(Frames)
  PROVE  TypeOK'
  BY DEF TypeOK, Quiet, market

\* A set-up that was accepted has what Laid says.
LEMMA AcceptedIs ==
  ASSUME Typed, NEW c \in Curves, Accepted(c)
  PROVE  /\ algorithm[c] = "iterative" => Alive(c) # <<>> /\ LatestAdvances(Alive(c))
         /\ algorithm[c] = "local" => Len(Alive(c)) > Localisation
<1>1. Alive(c) \in Seq(Helpers)
  BY AliveIs
<1>2. algorithm[c] = "iterative" => Len(Alive(c)) > 0 /\ LatestAdvances(Alive(c))
  BY DEF Accepted
<1>3. algorithm[c] = "local" => Len(Alive(c)) > Localisation
  BY DEF Accepted
<1> QED
  BY <1>1, <1>2, <1>3

\* The helpers handed a curve are alive helpers of that curve.
LEMMA HandedAre ==
  ASSUME Typed, NEW c \in Curves
  PROVE  /\ HandedTo(c) \subseteq ToSet(Alive(c))
         /\ ToSet(Alive(c)) \subseteq ToSet(Instruments[c])
<1>1. Alive(c) \in Seq(Helpers) /\ ToSet(Alive(c)) \subseteq ToSet(Instruments[c])
  BY AliveIs
<1>2. HandedTo(c) \subseteq {Alive(c)[i] : i \in 1 .. Len(Alive(c))}
  BY DEF HandedTo
<1> QED
  BY <1>1, <1>2 DEF ToSet

\* What a set-up installs.
LEMMA InstalledIs ==
  ASSUME TypeOK, Shapes, NEW c \in Curves, Accepted(c)
  PROVE  /\ Installed(c).dates = Grid(c) /\ Installed(c).maxDate = MaxDate(c)
         /\ Installed(c).dates \in Seq(Int) /\ Installed(c).maxDate \in Int
         /\ Installed(c).upto \in Nat /\ Installed(c).valid \in BOOLEAN
         /\ Shaped(Installed(c))
<1>1. Typed
  BY TypesGive
<1>2. Grid(c) \in Seq(Int)
  BY <1>1, GridIs
<1>3. MaxDate(c) \in Int
  BY <1>1, AcceptedIs, MaxCovers
<1>4. /\ cd[c].valid \in BOOLEAN /\ Len(cd[c].data) = Len(cd[c].dates) /\ Shaped(cd[c])
  BY DataAre
<1>5. Reuse(c) \in BOOLEAN
  BY DEF Reuse
<1> DEFINE d == IF Reuse(c) THEN cd[c].data ELSE [i \in 1 .. Len(Grid(c)) |-> Seed]
<1>6. Installed(c) =
        [dates |-> Grid(c), data |-> d, upto |-> 0, maxDate |-> MaxDate(c), valid |-> Reuse(c)]
  BY DEF Installed
<1>7. d = [i \in 1 .. Len(Grid(c)) |-> d[i]]
  <2>1. CASE Reuse(c)
    <3>1. Len(cd[c].data) = Len(Grid(c))
      BY <2>1 DEF Reuse
    <3>2. cd[c].data = [i \in 1 .. Len(cd[c].dates) |-> cd[c].data[i]]
      BY <1>4 DEF Shaped
    <3> QED
      BY <2>1, <3>1, <3>2, <1>4
  <2>2. CASE ~Reuse(c)
    BY <2>2
  <2> QED
    BY <2>1, <2>2
<1> HIDE DEF d
<1>8. Len(Grid(c)) >= 0
  BY <1>2
<1> QED
  BY <1>2, <1>3, <1>5, <1>6, <1>7, <1>8 DEF Shaped

\* A new frame is a frame.
LEMMA FrameIs ==
  ASSUME TypeOK, NEW c \in Curves
  PROVE  Frame(c) \in Frames
<1>1. Alive(c) \in Seq(Helpers)
  BY TypesGive, AliveIs
<1>2. Reuse(c) \in BOOLEAN
  BY DEF Reuse, TypeOK
<1>3. LoopRequired(c) \in BOOLEAN
  BY DEF LoopRequired
<1> QED
  BY <1>1, <1>2, <1>3 DEF Frame, Frames

\* A set-up, whether it fails or goes on, of a curve below those under way.
LEMMA BeginKeeps ==
  ASSUME IInv, NEW c \in Curves, Begin(c),
         \A n \in DOMAIN stack : c \in Below[stack[n].curve]
  PROVE  IInv'
<1>1. TypeOK /\ Shapes /\ Descending /\ Typed
  BY TypesGive DEF IInv
<1>2. /\ stack \in Seq(Frames) /\ DOMAIN stack = 1 .. Len(stack)
      /\ \A n \in DOMAIN stack : stack[n] \in Frames /\ stack[n].curve \in Curves
  BY <1>1, FramesAre
<1>3. Quiet /\ ~calculated[c]
  BY DEF Begin, Quiet
<1>4. ~Standing(c) /\ ~Solving(c)
  BY <1>3 DEF Standing, Solving, IInv, Kept
<1>5. \A b \in Curves : /\ cd[b].dates \in Seq(Int) /\ cd[b].maxDate \in Int
                        /\ cd[b].upto \in Nat /\ cd[b].valid \in BOOLEAN /\ Shaped(cd[b])
  BY <1>1, DataAre
<1>6. /\ DOMAIN cd = Curves /\ on \in [Helpers -> Curves \cup {Nobody}]
      /\ calculated \in [Curves -> BOOLEAN]
  BY <1>1 DEF TypeOK
<1>7. CASE ~Accepted(c)
  <2>1. stack' = Lost(stack) /\ UNCHANGED <<on, cd, calculated>>
    BY <1>7 DEF Begin
  <2>2. /\ stack' \in Seq(Frames) /\ DOMAIN stack' = DOMAIN stack
        /\ \A n \in DOMAIN stack : Alike(stack[n], stack'[n])
        /\ \A b : Solving(b)' <=> Solving(b)
        /\ Descending'
    BY <1>1, <2>1, LostKeeps
  <2>3. Stays
    BY <2>1, <2>2 DEF Stays, Standing
  <2>4. ASSUME NEW n \in DOMAIN stack'
        PROVE  Kept(stack[n])'
    <3>1. PICK F \in Frames : F = stack[n] /\ Kept(F)
      BY <1>2, <2>2 DEF IInv
    <3>2. Kept(F)'
      BY <1>1, <1>3, <2>1, <2>3, <3>1, KeptStays DEF Kept
    <3>3. Alike(F, stack'[n])
      BY <2>2, <3>1
    <3> QED
      BY <3>2, <3>3, KeptAlike
  <2>5. TypeOK' /\ Shapes'
    BY <1>1, <1>3, <1>5, <1>6, <2>1, <2>2, TypesAfter DEF Shapes
  <2>6. \A b \in Curves : Standing(b)' <=> Standing(b)
    BY <2>1, <2>2 DEF Standing
  <2> QED
    BY <1>3, <2>1, <2>2, <2>3, <2>4, <2>5, <2>6, QuietKeeps
<1>8. CASE Accepted(c)
  <2>1. /\ cd' = [cd EXCEPT ![c] = Installed(c)]
        /\ on' = [h \in Helpers |-> IF h \in HandedTo(c) THEN c ELSE on[h]]
    BY <1>8 DEF Begin
  <2>2. \A b \in Curves : b # c => cd'[b] = cd[b]
    BY <1>6, <2>1
  <2>3. cd'[c] = Installed(c) /\ DOMAIN cd' = Curves
    BY <1>6, <2>1
  <2>4. \A b \in Curves : /\ cd'[b].dates \in Seq(Int) /\ cd'[b].maxDate \in Int
                          /\ cd'[b].upto \in Nat /\ cd'[b].valid \in BOOLEAN /\ Shaped(cd'[b])
    BY <1>1, <1>5, <1>8, <2>2, <2>3, InstalledIs
  <2>5. on' \in [Helpers -> Curves \cup {Nobody}]
    BY <1>6, <2>1
  <2>6. ASSUME NEW n \in DOMAIN stack, NEW F \in Frames, F = stack[n], Stays,
               calculated'[F.curve]
        PROVE  Kept(F)'
    <3>1. Kept(F)
      BY <2>6 DEF IInv
    <3>2. /\ F.curve # c /\ F.curve \in Curves
          /\ ToSet(Instruments[c]) \cap ToSet(Instruments[F.curve]) = {}
      BY <1>1, <1>2, <2>6, Apart
    <3>3. \A i \in DOMAIN F.alive : /\ F.alive[i] \in ToSet(Instruments[F.curve])
                                    /\ F.alive[i] \in Helpers
      <4>1. F.alive = Alive(F.curve) /\ F.alive \in Seq(Helpers)
        BY <3>1 DEF Kept, Frames
      <4> QED
        BY <4>1, <1>1, <3>2, HandedAre DEF ToSet
    <3>4. \A i \in DOMAIN F.alive : on'[F.alive[i]] = on[F.alive[i]]
      BY <1>1, <2>1, <3>2, <3>3, HandedAre
    <3>5. cd'[F.curve] = cd[F.curve]
      BY <2>2, <3>2
    <3> QED
      BY <1>1, <1>3, <2>6, <3>1, <3>4, <3>5, KeptStays
  <2>7. CASE ~QuotesRead(c)
    <3>1. stack' = Lost(stack) /\ UNCHANGED calculated
      BY <1>8, <2>7 DEF Begin
    <3>2. /\ stack' \in Seq(Frames) /\ DOMAIN stack' = DOMAIN stack
          /\ \A n \in DOMAIN stack : Alike(stack[n], stack'[n])
          /\ \A b : Solving(b)' <=> Solving(b)
          /\ Descending'
      BY <1>1, <3>1, LostKeeps
    <3>3. Stays
      BY <1>4, <2>2, <3>1, <3>2 DEF Stays, Standing
    <3>4. ASSUME NEW n \in DOMAIN stack'
          PROVE  Kept(stack[n])'
      <4>1. PICK F \in Frames : F = stack[n] /\ Kept(F)
        BY <1>2, <3>2 DEF IInv
      <4>2. Kept(F)'
        BY <2>6, <3>1, <3>2, <3>3, <4>1 DEF Kept
      <4>3. Alike(F, stack'[n])
        BY <3>2, <4>1
      <4> QED
        BY <4>2, <4>3, KeptAlike
    <3>5. TypeOK' /\ Shapes'
      BY <1>1, <1>3, <1>6, <2>3, <2>4, <2>5, <3>1, <3>2, TypesAfter DEF Shapes
    <3>6. \A b \in Curves : Standing(b)' <=> Standing(b)
      BY <3>1, <3>2 DEF Standing
    <3> QED
      BY <1>3, <2>2, <3>1, <3>2, <3>3, <3>4, <3>5, <3>6, QuietKeeps
  <2>8. CASE QuotesRead(c)
    <3>1. stack' = <<Frame(c)>> \o stack /\ calculated' = [calculated EXCEPT ![c] = TRUE]
      BY <1>8, <2>8 DEF Begin
    <3>2. PICK F \in Frames : F = Frame(c)
      BY <1>1, FrameIs
    <3>3. F.curve = c
      BY <3>2 DEF Frame
    <3>4. /\ stack' \in Seq(Frames) /\ stack'[1] = F
          /\ \A n \in DOMAIN stack' : n # 1 => n - 1 \in DOMAIN stack /\ stack'[n] = stack[n - 1]
          /\ \A b : Solving(b)' <=> Solving(b) \/ b = F.curve
          /\ Descending'
      BY <1>1, <3>1, <3>2, <3>3, PushIs
    <3>5. /\ calculated' \in [Curves -> BOOLEAN] /\ calculated'[c]
          /\ \A b \in Curves : b # c => calculated'[b] = calculated[b]
      BY <1>6, <3>1
    <3>6. Stays
      BY <1>4, <2>2, <3>3, <3>4, <3>5 DEF Stays, Standing
    <3>7. algorithm' = algorithm /\ seen' = seen
      BY <1>3 DEF Quiet, market
    <3>8. /\ Alive(c)' = Alive(c) /\ Alive(c) \in Seq(Helpers)
          /\ LoopRequired(c)' = LoopRequired(c) /\ Grid(c)' = Grid(c)
      BY <1>1, <3>7, SameAlive, SameLayout, AliveIs
    <3>9. Laid(c)'
      <4>1. /\ algorithm[c] = "iterative" => Alive(c) # <<>> /\ LatestAdvances(Alive(c))
            /\ algorithm[c] = "local" => Len(Alive(c)) > Localisation
        BY <1>1, <1>8, AcceptedIs
      <4>2. LatestAdvances(Alive(c))' = LatestAdvances(Alive(c)) /\ MaxDate(c)' = MaxDate(c)
        BY <1>1, <3>7, <4>1, SameLayout
      <4>3. cd'[c].dates = Grid(c) /\ cd'[c].maxDate = MaxDate(c)
        BY <1>1, <1>8, <2>3, InstalledIs
      <4> QED
        BY <3>7, <3>8, <4>1, <4>2, <4>3 DEF Laid
    <3>10. Kept(F)'
      <4>1. /\ F.alive = Alive(c) /\ F.loop = LoopRequired(c) /\ F.step = 1 /\ ~F.tried
        BY <3>2 DEF Frame
      <4>2. F.step \in 1 .. StepsOf(F)' + 1
        <5>1. algorithm[c] = "local" => Len(Alive(c)) > Localisation
          BY <1>1, <1>8, AcceptedIs
        <5>2. StepsOf(F)' = StepsOf(F)
          BY <3>7 DEF StepsOf
        <5>3. StepsOf(F) \in Nat
          BY <1>1, <3>3, <3>8, <4>1, <5>1, BootstrapTypes DEF StepsOf, Typed
        <5> QED
          BY <4>1, <5>2, <5>3
      <4>3. \A i \in DOMAIN F.alive : on'[F.alive[i]] = c
        <5>1. HandedTo(c) = ToSet(Alive(c))
          BY <2>8 DEF QuotesRead
        <5>2. \A i \in DOMAIN F.alive : F.alive[i] \in HandedTo(c) /\ F.alive[i] \in Helpers
          BY <3>8, <4>1, <5>1 DEF ToSet
        <5> QED
          BY <2>1, <5>2
      <4>4. PinnedBy(F)' = {}
        BY <1>1, <3>3, <3>7, <4>1 DEF PinnedBy, Typed
      <4>5. Rising(cd[F.curve].dates, ReachedBy(F))'
        <5>1. ReachedBy(F)' \in 0 .. 1
          BY <1>1, <3>3, <3>7, <4>1 DEF ReachedBy, Typed
        <5> QED
          BY <5>1 DEF Rising
      <4> QED
        BY <3>3, <3>5, <3>8, <4>1, <4>2, <4>3, <4>4, <4>5 DEF Kept
    <3>11. ASSUME NEW n \in DOMAIN stack'
           PROVE  Kept(stack[n])'
      <4>1. CASE n = 1
        BY <3>4, <3>10, <4>1
      <4>2. CASE n # 1
        <5>1. n - 1 \in DOMAIN stack /\ stack'[n] = stack[n - 1]
          BY <3>4, <4>2
        <5>2. PICK G \in Frames : G = stack[n - 1]
          BY <1>2, <5>1
        <5>3. Kept(G) /\ G.curve \in Curves
          BY <1>2, <5>1, <5>2 DEF IInv
        <5>4. calculated'[G.curve]
          BY <1>3, <3>5, <5>3 DEF Kept
        <5>5. Kept(G)'
          BY <2>6, <3>6, <5>1, <5>2, <5>4
        <5> QED
          BY <5>1, <5>2, <5>5
      <4> QED
        BY <4>1, <4>2
    <3>12. TypeOK' /\ Shapes'
      BY <1>1, <1>3, <2>3, <2>4, <2>5, <3>4, <3>5, TypesAfter DEF Shapes
    <3>13. \A b \in Curves : Standing(b)' => Standing(b)
      BY <3>3, <3>4, <3>5 DEF Standing
    <3>14. \A b \in Curves : calculated[b] => cd'[b] = cd[b]
      BY <1>3, <2>2
    <3>15. \A b \in Curves : calculated'[b] /\ ~calculated[b] => Laid(b)'
      BY <3>5, <3>9
    <3> QED
      BY <1>3, <3>4, <3>6, <3>11, <3>12, <3>13, <3>14, <3>15, QuietKeeps
  <2> QED
    BY <2>7, <2>8
<1> QED
  BY <1>7, <1>8

-----------------------------------------------------------------------------
(* THE INNERMOST BOOTSTRAP                                                 *)

\* The innermost bootstrap, and what it works on.
LEMMA WorkIs ==
  ASSUME IInv, stack # <<>>
  PROVE  /\ 1 \in DOMAIN stack /\ f = stack[1] /\ f \in Frames /\ f.curve \in Curves
         /\ Kept(f) /\ Laid(f.curve) /\ Solving(f.curve)
         /\ f.alive \in Seq(Helpers) /\ f.step \in Nat /\ f.step # 0
         /\ algorithm[f.curve] \in {"iterative", "local", "global"}
         /\ \A i \in DOMAIN f.alive : /\ f.alive[i] \in ToSet(Instruments[f.curve])
                                      /\ f.alive[i] \in Helpers
                                      /\ Reads[f.alive[i]] \subseteq Below[f.curve]
<1>1. TypeOK /\ Typed
  BY TypesGive DEF IInv
<1>2. 1 \in DOMAIN stack /\ f = stack[1] /\ f \in Frames /\ f.curve \in Curves
  BY <1>1, FramesAre
<1>3. Kept(f) /\ Solving(f.curve)
  BY <1>2 DEF IInv, Solving
<1>4. Laid(f.curve)
  BY <1>2, <1>3 DEF IInv, Kept
<1>5. f.alive \in Seq(Helpers) /\ f.step \in Nat
  BY <1>2 DEF Frames
<1>6. f.step # 0
  BY <1>3 DEF Kept
<1>7. algorithm[f.curve] \in {"iterative", "local", "global"}
  BY <1>1, <1>2 DEF Typed
<1>8. ASSUME NEW i \in DOMAIN f.alive
      PROVE  /\ f.alive[i] \in ToSet(Instruments[f.curve])
             /\ f.alive[i] \in Helpers
             /\ Reads[f.alive[i]] \subseteq Below[f.curve]
  <2>1. f.alive[i] \in ToSet(Alive(f.curve))
    BY <1>3 DEF Kept, ToSet
  <2>2. f.alive[i] \in ToSet(Instruments[f.curve])
    BY <2>1, <1>1, <1>2, HandedAre
  <2>3. f.alive[i] \in Helpers
    BY <1>5
  <2> QED
    BY <2>2, <2>3, <1>2, BelowIs DEF Layered
<1> QED
  BY <1>2, <1>3, <1>4, <1>5, <1>6, <1>7, <1>8

\* A step stays within the helpers and the nodes.
LEMMA StepIs ==
  ASSUME IInv, stack # <<>>
  PROVE  /\ Steps = StepsOf(f)
         /\ f.step <= Steps => Fitted \subseteq DOMAIN f.alive
         /\ f.step <= Steps => Upto \in Nat /\ Upto <= Len(cd[f.curve].dates)
         /\ f.step <= Steps => \A i \in Fitted : NodesOf(f.curve, i) \subseteq Written
         /\ \A k \in Written : k # 1
         /\ algorithm[f.curve] # "global" => Len(cd[f.curve].dates) = Len(f.alive) + 1
<1> DEFINE c == f.curve
<1>1. /\ c \in Curves /\ Kept(f) /\ Laid(c) /\ f.alive \in Seq(Helpers)
      /\ f.step \in Nat /\ f.step # 0 /\ algorithm[c] \in {"iterative", "local", "global"}
  BY WorkIs
<1>2. Typed /\ cd[c].dates \in Seq(Int)
  BY <1>1, TypesGive DEF IInv, TypeOK
<1>3. Steps = StepsOf(f)
  BY DEF Steps, StepsOf
<1>4. Localisation \in Nat /\ Localisation # 0
  BY BootstrapTypes
<1>5. DOMAIN f.alive = 1 .. Len(f.alive) /\ Len(f.alive) \in Nat /\ Len(cd[c].dates) \in Nat
  BY <1>1, <1>2
<1>6. algorithm[c] # "global" => Len(cd[c].dates) = Len(f.alive) + 1
  BY <1>1, <1>2, GridIs DEF Laid, Kept
<1> HIDE DEF c
<1>7. ASSUME f.step <= Steps
      PROVE  /\ Fitted \subseteq DOMAIN f.alive
             /\ Upto \in Nat /\ Upto <= Len(cd[c].dates)
             /\ \A i \in Fitted : NodesOf(c, i) \subseteq Written
             /\ \A k \in Written : k # 1
  <2>1. CASE algorithm[c] = "iterative"
    <3>1. /\ Fitted = {f.step} /\ Upto = IF f.valid THEN Len(cd[c].dates) ELSE f.step + 1
          /\ Steps = Len(f.alive) /\ Written = {k + 1 : k \in Fitted}
      BY <2>1 DEF Fitted, Upto, Steps, Written, c
    <3>2. \A i \in Fitted : NodesOf(c, i) = {i + 1}
      BY <2>1 DEF NodesOf
    <3> QED
      BY <3>1, <3>2, <2>1, <1>1, <1>5, <1>6, <1>7
  <2>2. CASE algorithm[c] = "local"
    <3>1. /\ Fitted = f.step .. f.step + Localisation - 1 /\ Upto = f.step + Localisation
          /\ Steps = Len(f.alive) - Localisation + 1 /\ Written = {k + 1 : k \in Fitted}
      BY <2>2 DEF Fitted, Upto, Steps, Written, c
    <3>2. \A i \in Fitted : NodesOf(c, i) = {i + 1}
      BY <2>2 DEF NodesOf
    <3>3. Fitted \subseteq DOMAIN f.alive
      BY <3>1, <1>1, <1>4, <1>5, <1>7
    <3>4. Upto \in Nat /\ Upto <= Len(cd[c].dates)
      BY <3>1, <2>2, <1>1, <1>4, <1>5, <1>6, <1>7
    <3>5. \A k \in Written : k # 1
      BY <3>1, <1>1, <1>4
    <3>6. \A i \in Fitted : NodesOf(c, i) \subseteq Written
      BY <3>1, <3>2
    <3> QED
      BY <3>3, <3>4, <3>5, <3>6
  <2>3. CASE algorithm[c] = "global"
    <3>1. /\ Fitted = DOMAIN f.alive /\ Upto = Len(cd[c].dates)
          /\ Written = 2 .. Len(cd[c].dates)
      BY <2>3 DEF Fitted, Upto, Written, c
    <3>2. \A i \in Fitted : NodesOf(c, i) = 2 .. Len(cd[c].dates)
      BY <2>3 DEF NodesOf
    <3> QED
      BY <3>1, <3>2, <1>5
  <2> QED
    BY <2>1, <2>2, <2>3, <1>1
<1>8. \A k \in Written : k # 1
  <2>1. \A k \in Fitted : algorithm[c] # "global" => k \in Int /\ k # 0
    BY <1>1, <1>4 DEF Fitted, c
  <2>2. algorithm[c] # "global" => Written = {k + 1 : k \in Fitted}
    BY DEF Written, c
  <2>3. algorithm[c] = "global" => Written = 2 .. Len(cd[c].dates)
    BY DEF Written, c
  <2>4. algorithm[c] # "global" => \A k \in Written : k # 1
    BY <2>1, <2>2
  <2>5. algorithm[c] = "global" => \A k \in Written : k # 1
    BY <2>3
  <2> QED
    BY <2>4, <2>5
<1> QED
  BY <1>3, <1>6, <1>7, <1>8 DEF c

\* A caller's read begins on an empty stack.
LEMMA ReadKeeps ==
  ASSUME IInv, NEW c \in Curves, Read(c)
  PROVE  IInv'
<1>1. stack = <<>> /\ Begin(c)
  BY DEF Read
<1>2. \A n \in DOMAIN stack : c \in Below[stack[n].curve]
  BY <1>1
<1> QED
  BY <1>1, <1>2, BeginKeeps

\* What a fit reads lies below every bootstrap under way.
LEMMA ReadOtherKeeps ==
  ASSUME IInv, NEW c \in Curves, ReadOther(c)
  PROVE  IInv'
<1>1. stack # <<>> /\ Begin(c) /\ f.tried
  BY DEF ReadOther
<1>2. f.step <= Steps /\ Fitted \subseteq DOMAIN f.alive
  BY <1>1, WorkIs, StepIs DEF Kept
<1>3. PICK i \in Fitted : c \in Reads[f.alive[i]]
  BY DEF ReadOther
<1>4. c \in Below[stack[1].curve]
  BY <1>1, <1>2, <1>3, WorkIs
<1>5. \A n \in DOMAIN stack : c \in Below[stack[n].curve]
  BY <1>1, <1>4, ReadsRest DEF IInv
<1> QED
  BY <1>1, <1>5, BeginKeeps

\* The bootstraps under the innermost one keep what they count on.
LEMMA OthersKept ==
  ASSUME IInv, Quiet, Stays, stack # <<>>, on' = on,
         \A b \in Curves : b # f.curve => cd'[b] = cd[b] /\ calculated'[b] = calculated[b],
         NEW n \in DOMAIN stack, n # 1, NEW F \in Frames, F = stack[n]
  PROVE  Kept(F)'
<1>1. TypeOK /\ Typed /\ Descending /\ f = stack[1] /\ Kept(F) /\ n \in Nat
  BY TypesGive, FramesAre, WorkIs DEF IInv
<1>2. f.curve \in Below[F.curve]
  BY <1>1 DEF Descending, TypeOK
<1>3. F.curve # f.curve /\ F.curve \in Curves
  BY <1>1, <1>2, Apart, FramesAre
<1>4. cd'[F.curve] = cd[F.curve] /\ calculated'[F.curve]
  BY <1>1, <1>3 DEF Kept
<1> QED
  BY <1>1, <1>4, KeptStays

\* CurveData with two of its fields replaced.
LEMMA DataWritten ==
  ASSUME NEW r, r = [dates |-> r.dates, data |-> r.data, upto |-> r.upto,
                     maxDate |-> r.maxDate, valid |-> r.valid],
         NEW d, NEW u
  PROVE  [r EXCEPT !.data = d, !.upto = u] =
           [dates |-> r.dates, data |-> d, upto |-> u, maxDate |-> r.maxDate, valid |-> r.valid]
<1> DEFINE e == [r EXCEPT !.data = d, !.upto = u]
<1>1. DOMAIN r = {"dates", "data", "upto", "maxDate", "valid"}
  OBVIOUS
<1>2. e = [x \in DOMAIN r |-> e[x]]
  OBVIOUS
<1>3. /\ e.dates = r.dates /\ e.maxDate = r.maxDate /\ e.valid = r.valid
      /\ e.data = d /\ e.upto = u
  BY <1>1
<1> HIDE DEF e
<1>4. e = [dates |-> e.dates, data |-> e.data, upto |-> e.upto, maxDate |-> e.maxDate,
           valid |-> e.valid]
  BY <1>1, <1>2
<1> QED
  BY <1>3, <1>4 DEF e

\* What a write leaves of the nodes.
LEMMA WriteIs ==
  ASSUME IInv, stack # <<>>, f.step <= Steps, NEW v, Write(v)
  PROVE  /\ DOMAIN cd' = Curves
         /\ \A b \in Curves : b # f.curve => cd'[b] = cd[b]
         /\ cd'[f.curve].dates = cd[f.curve].dates
         /\ cd'[f.curve].maxDate = cd[f.curve].maxDate
         /\ cd'[f.curve].valid = cd[f.curve].valid
         /\ cd'[f.curve].upto = Upto
         /\ \A k \in 1 .. Len(cd[f.curve].dates) :
              cd'[f.curve].data[k] = IF k \in Written THEN v ELSE cd[f.curve].data[k]
         /\ Shaped(cd'[f.curve])
<1> DEFINE c == f.curve
           r == cd[c]
           d == [i \in DOMAIN r.data |-> IF i \in Written THEN v ELSE r.data[i]]
<1>1. c \in Curves /\ Upto \in Nat /\ Upto <= Len(r.dates)
  BY WorkIs, StepIs
<1>2. /\ DOMAIN cd = Curves /\ Shaped(r) /\ DOMAIN r.data = 1 .. Len(r.dates)
      /\ r.dates \in Seq(Int)
  BY <1>1, DataAre DEF IInv
<1>3. r = [dates |-> r.dates, data |-> r.data, upto |-> r.upto, maxDate |-> r.maxDate,
           valid |-> r.valid]
  BY <1>2 DEF Shaped
<1>4. cd' = [cd EXCEPT ![c] = [r EXCEPT !.data = d, !.upto = Upto]]
  BY DEF Write
<1>5. [r EXCEPT !.data = d, !.upto = Upto] =
        [dates |-> r.dates, data |-> d, upto |-> Upto, maxDate |-> r.maxDate, valid |-> r.valid]
  <2> HIDE DEF d, r
  <2> QED
    BY <1>3, DataWritten
<1>6. cd'[c] = [dates |-> r.dates, data |-> d, upto |-> Upto, maxDate |-> r.maxDate,
                valid |-> r.valid]
  BY <1>1, <1>2, <1>4, <1>5
<1>7. DOMAIN cd' = Curves /\ \A b \in Curves : b # c => cd'[b] = cd[b]
  BY <1>2, <1>4
<1>8. DOMAIN d = 1 .. Len(r.dates) /\ d = [i \in 1 .. Len(r.dates) |-> d[i]]
  BY <1>2
<1>9. \A k \in 1 .. Len(r.dates) : d[k] = IF k \in Written THEN v ELSE r.data[k]
  BY <1>2
<1> HIDE DEF d
<1>10. Shaped(cd'[c])
  BY <1>1, <1>6, <1>8 DEF Shaped
<1> QED
  BY <1>6, <1>7, <1>9, <1>10

\* A write keeps the types and the shapes.
LEMMA WriteTypes ==
  ASSUME IInv, stack # <<>>, f.step <= Steps, NEW v, Write(v), Quiet,
         on' = on, calculated' = calculated, stack' \in Seq(Frames)
  PROVE  TypeOK' /\ Shapes'
<1>1. TypeOK /\ f.curve \in Curves /\ Upto \in Nat
  BY WorkIs, StepIs DEF IInv
<1>2. \A b \in Curves : /\ cd[b].dates \in Seq(Int) /\ cd[b].maxDate \in Int
                        /\ cd[b].upto \in Nat /\ cd[b].valid \in BOOLEAN
                        /\ Shaped(cd[b])
  BY DataAre DEF IInv
<1>3. \A b \in Curves : /\ cd'[b].dates \in Seq(Int) /\ cd'[b].maxDate \in Int
                        /\ cd'[b].upto \in Nat /\ cd'[b].valid \in BOOLEAN
                        /\ Shaped(cd'[b])
  <2>1. \A b \in Curves : b # f.curve => cd'[b] = cd[b]
    BY WriteIs
  <2>2. /\ cd'[f.curve].dates \in Seq(Int) /\ cd'[f.curve].maxDate \in Int
        /\ cd'[f.curve].upto \in Nat /\ cd'[f.curve].valid \in BOOLEAN
        /\ Shaped(cd'[f.curve])
    BY <1>1, <1>2, WriteIs
  <2> QED
    BY <2>1, <2>2, <1>2
<1>4. DOMAIN cd' = Curves
  BY WriteIs
<1>5. on' \in [Helpers -> Curves \cup {Nobody}] /\ calculated' \in [Curves -> BOOLEAN]
  BY <1>1 DEF TypeOK
<1> QED
  BY <1>1, <1>3, <1>4, <1>5, TypesAfter DEF Shapes

\* A write does not touch a curve that stands.
LEMMA WriteStays ==
  ASSUME IInv, stack # <<>>, f.step <= Steps, NEW v, Write(v), calculated' = calculated,
         \A b : Solving(b)' <=> Solving(b)
  PROVE  Stays /\ \A b \in Curves : Standing(b)' <=> Standing(b)
<1>1. Solving(f.curve)
  BY WorkIs
<1>2. \A b \in Curves : b # f.curve => cd'[b] = cd[b]
  BY WriteIs
<1>3. \A b \in Curves : Standing(b)' <=> Standing(b)
  BY DEF Standing
<1>4. \A b \in Curves : Standing(b) => b # f.curve
  BY <1>1 DEF Standing
<1> QED
  BY <1>2, <1>3, <1>4 DEF Stays

\* What was pinned stays pinned when the nodes written are others.
LEMMA PinnedAside ==
  ASSUME IInv, stack # <<>>, f.step <= Steps, NEW v, Write(v), Quiet,
         calculated' = calculated, \A b : Solving(b)' <=> Solving(b),
         NEW i \in DOMAIN f.alive, NEW whole,
         \A k \in NodesOf(f.curve, i) : k \notin Written /\ k \in 1 .. Len(cd[f.curve].dates),
         NEW c, c = f.curve, NEW h, h = f.alive[i], Pinned(c, h, i, whole)
  PROVE  Pinned(c, h, i, whole)'
<1>1. c \in Curves /\ h \in Helpers
  BY WorkIs
<1>2. \A b \in Curves : (Standing(b)' <=> Standing(b)) /\ (Standing(b) => cd'[b] = cd[b])
  BY WriteStays DEF Stays
<1>3. \A b \in Reads[h] : Standing(b)' /\ cd'[b] = cd[b]
  BY <1>1, <1>2, BootstrapTypes DEF Pinned
<1>4. cd'[c].dates = cd[c].dates /\ \A k \in NodesOf(c, i) : cd'[c].data[k] = cd[c].data[k]
  BY WriteIs
<1>5. algorithm' = algorithm /\ seen' = seen /\ quote' = quote
  BY DEF Quiet, market
<1> QED
  BY <1>1, <1>3, <1>4, <1>5, PinnedStays

\* A step that writes nodes keeps the invariant if its own bootstrap is kept.
LEMMA WriteKeeps ==
  ASSUME IInv, stack # <<>>, f.step <= Steps, NEW v, Write(v), Quiet,
         on' = on, calculated' = calculated, NEW G \in Frames, G.curve = f.curve,
         stack' = [stack EXCEPT ![1] = G], Stays => Kept(G)'
  PROVE  IInv'
<1>1. TypeOK /\ Descending
  BY DEF IInv
<1>2. /\ stack' \in Seq(Frames) /\ DOMAIN stack' = DOMAIN stack /\ stack'[1] = G
      /\ \A n \in DOMAIN stack : n # 1 => stack'[n] = stack[n]
      /\ \A b : Solving(b)' <=> Solving(b)
      /\ Descending'
  BY <1>1, TopIs
<1>3. Stays /\ \A b \in Curves : Standing(b)' <=> Standing(b)
  BY <1>2, WriteStays
<1>4. TypeOK' /\ Shapes'
  BY <1>2, WriteTypes
<1>5. \A b \in Curves : b # f.curve => cd'[b] = cd[b] /\ calculated'[b] = calculated[b]
  BY WriteIs
<1>6. ASSUME NEW n \in DOMAIN stack'
      PROVE  Kept(stack[n])'
  <2>1. CASE n = 1
    BY <1>2, <1>3, <2>1
  <2>2. CASE n # 1
    <3>1. PICK F \in Frames : F = stack[n]
      BY <1>1, <1>2, FramesAre
    <3>2. Kept(F)'
      BY <1>2, <1>3, <1>5, <2>2, <3>1, OthersKept
    <3> QED
      BY <1>2, <2>2, <3>1, <3>2
  <2> QED
    BY <2>1, <2>2
<1>7. \A b \in Curves : cd'[b].dates = cd[b].dates /\ cd'[b].maxDate = cd[b].maxDate
  BY WriteIs
<1> QED
  BY <1>2, <1>3, <1>4, <1>6, <1>7, QuietKeeps

\* What is as it was for the bootstrap at work, whatever is written.
LEMMA WorkSame ==
  ASSUME IInv, stack # <<>>, f.step <= Steps, NEW v, Write(v), Quiet, on' = on,
         calculated' = calculated, NEW c, c = f.curve
  PROVE  /\ calculated'[c] /\ cd'[c].dates = cd[c].dates /\ algorithm'[c] = algorithm[c]
         /\ Alive(c)' = f.alive /\ LoopRequired(c)' = f.loop
         /\ \A i \in DOMAIN f.alive : on'[f.alive[i]] = c
<1>1. Typed /\ c \in Curves /\ Kept(f) /\ algorithm' = algorithm /\ seen' = seen
  BY WorkIs, TypesGive DEF Quiet, market, IInv
<1>2. Alive(c)' = Alive(c) /\ LoopRequired(c)' = LoopRequired(c)
  BY <1>1, SameAlive, SameLayout
<1>3. cd'[c].dates = cd[c].dates
  BY WriteIs
<1> QED
  BY <1>1, <1>2, <1>3 DEF Kept

\* A trial overwrites only nodes its own step has not pinned.
LEMMA TryKeeps ==
  ASSUME IInv, Try
  PROVE  IInv'
<1>1. /\ stack # <<>> /\ f.step <= Steps /\ ~f.tried /\ Interpolable /\ Write(Trial)
      /\ stack' = [stack EXCEPT ![1].tried = TRUE]
      /\ Quiet /\ on' = on /\ calculated' = calculated
  BY DEF Try, Quiet
<1>2. PICK F \in Frames : F = f
  BY <1>1, WorkIs
<1>3. PICK c \in Curves : c = F.curve
  BY <1>1, <1>2, WorkIs
<1>4. PICK G \in Frames : G = [F EXCEPT !.tried = TRUE]
  <2>1. [F EXCEPT !.tried = TRUE] \in Frames
    BY DEF Frames
  <2> QED
    BY <2>1
<1>5. /\ G.curve = c /\ G.alive = F.alive /\ G.step = F.step /\ G.valid = F.valid
      /\ G.loop = F.loop /\ G.tried
  BY <1>3, <1>4 DEF Frames
<1>6. stack' = [stack EXCEPT ![1] = G]
  BY <1>1, <1>2, <1>4, WorkIs
<1>7. /\ TypeOK /\ Kept(F) /\ F.step \in Nat /\ F.step # 0 /\ F.alive \in Seq(Helpers)
      /\ algorithm[c] \in {"iterative", "local", "global"}
      /\ F.step <= StepsOf(F)
  BY <1>1, <1>2, <1>3, WorkIs, StepIs DEF IInv
<1>8. /\ Localisation \in Nat /\ Localisation # 0
      /\ DOMAIN F.alive = 1 .. Len(F.alive) /\ Len(F.alive) \in Nat
  BY <1>7, BootstrapTypes
<1>9. /\ calculated'[c] /\ cd'[c].dates = cd[c].dates /\ algorithm'[c] = algorithm[c]
      /\ Alive(c)' = F.alive /\ LoopRequired(c)' = F.loop
      /\ \A i \in DOMAIN F.alive : on'[F.alive[i]] = c
  BY <1>1, <1>2, <1>3, WorkSame
<1>10. StepsOf(G)' = StepsOf(F)
  BY <1>3, <1>5, <1>9 DEF StepsOf
<1>11. F.step \in 1 .. StepsOf(F) + 1
  BY <1>7 DEF Kept
<1>12. Rising(cd[c].dates, ReachedBy(G))'
  <2>1. Rising(cd[c].dates, Upto)
    <3>1. cd[c].dates \in Seq(Int) /\ Upto \in Nat /\ Upto <= Len(cd[c].dates)
      BY <1>1, <1>2, <1>3, <1>7, StepIs DEF TypeOK
    <3> DEFINE s == cd[c].dates
               n == Upto
    <3>2. Increasing(SubSeq(s, 1, n))
      BY <1>1, <1>2, <1>3 DEF Interpolable
    <3> HIDE DEF s, n
    <3>3. /\ Len(SubSeq(s, 1, n)) = n
          /\ \A i \in 1 .. n : SubSeq(s, 1, n)[i] = s[i]
      BY <3>1 DEF s, n
    <3>4. \A i \in 1 .. n - 1 : i \in 1 .. n /\ i + 1 \in 1 .. n
      BY <3>1 DEF n
    <3>5. \A i \in 1 .. n - 1 : s[i] < s[i + 1]
      BY <3>2, <3>3, <3>4 DEF Increasing
    <3> QED
      BY <3>5 DEF Rising, s, n
  <2>2. ReachedBy(G)' = Upto \/ (algorithm[c] = "iterative" /\ ReachedBy(G)' = F.step + 1)
    BY <1>2, <1>3, <1>5, <1>7, <1>9 DEF ReachedBy, Upto
  <2>3. CASE ReachedBy(G)' = Upto
    <3>1. \A i \in 1 .. ReachedBy(G)' - 1 : cd[c].dates[i] < cd[c].dates[i + 1]
      BY <2>1, <2>3 DEF Rising
    <3> QED
      BY <1>9, <3>1 DEF Rising
  <2>4. CASE algorithm[c] = "iterative" /\ ReachedBy(G)' = F.step + 1
    <3>1. F.step + 1 <= Upto
      <4>1. F.step <= Len(F.alive)
        BY <1>3, <1>7, <2>4 DEF StepsOf
      <4>2. Len(cd[c].dates) = Len(F.alive) + 1
        BY <1>1, <1>2, <1>3, <2>4, StepIs
      <4>3. Upto = IF F.valid THEN Len(cd[c].dates) ELSE F.step + 1
        BY <1>2, <1>3, <2>4 DEF Upto
      <4> QED
        BY <4>1, <4>2, <4>3, <1>7, <1>8
    <3>2. Upto \in Nat
      BY <1>1, StepIs
    <3>3. \A i \in 1 .. F.step + 1 - 1 : i \in 1 .. Upto - 1
      BY <1>7, <3>1, <3>2
    <3>4. \A i \in 1 .. ReachedBy(G)' - 1 : i \in 1 .. Upto - 1
      BY <1>7, <2>4, <3>3
    <3>5. \A i \in 1 .. ReachedBy(G)' - 1 : cd[c].dates[i] < cd[c].dates[i + 1]
      BY <2>1, <3>4 DEF Rising
    <3> QED
      BY <1>9, <3>5 DEF Rising
  <2> QED
    BY <2>2, <2>3, <2>4
<1>13. ASSUME Stays, NEW i \in PinnedBy(G)'
       PROVE  Pinned(c, F.alive[i], i, F.loop /\ F.valid)'
  <2>1. /\ i \in PinnedBy(F)
        /\ algorithm[c] # "global" /\ i \in Nat /\ i < F.step
    <3>1. CASE algorithm[c] = "iterative"
      BY <1>3, <1>5, <1>7, <1>9, <1>13, <3>1 DEF PinnedBy
    <3>2. CASE algorithm[c] = "local"
      <4>1. i \in 1 .. F.step - 1
        BY <1>5, <1>9, <1>13, <3>2 DEF PinnedBy
      <4>2. PinnedBy(F) = IF F.step = 1 THEN 1 .. F.step - 1 ELSE 1 .. F.step + Localisation - 2
        BY <1>1, <1>2, <1>3, <3>2 DEF PinnedBy
      <4>3. i \in PinnedBy(F)
        BY <4>1, <4>2, <1>7, <1>8
      <4> QED
        BY <4>1, <4>3, <1>7, <3>2
    <3>3. CASE algorithm[c] = "global"
      <4>1. F.step = 1
        BY <1>3, <1>7, <3>3 DEF StepsOf
      <4> QED
        BY <1>5, <1>9, <1>13, <3>3, <4>1 DEF PinnedBy
    <3> QED
      BY <3>1, <3>2, <3>3, <1>7
  <2>2. i \in DOMAIN F.alive
    BY <2>1, <1>1, <1>2, <1>7, PinnedAre, <1>11, TypesGive DEF Typed
  <2>3. \A k \in Fitted : k \in Nat /\ k >= F.step
    BY <1>2, <1>3, <1>7, <1>8, <2>1 DEF Fitted
  <2>4. \A k \in NodesOf(c, i) : k \notin Written /\ k \in 1 .. Len(cd[c].dates)
    <3>1. NodesOf(c, i) = {i + 1} /\ Written = {k + 1 : k \in Fitted}
      BY <1>2, <1>3, <2>1 DEF NodesOf, Written
    <3>2. Len(cd[c].dates) = Len(F.alive) + 1
      BY <1>1, <1>2, <1>3, <2>1, StepIs
    <3>3. i + 1 \notin Written
      BY <3>1, <2>1, <2>3, <1>7
    <3>4. i + 1 \in 1 .. Len(cd[c].dates)
      BY <3>2, <2>1, <2>2, <1>8
    <3> QED
      BY <3>1, <3>3, <3>4
  <2>5. Pinned(c, F.alive[i], i, F.loop /\ F.valid)
    BY <1>3, <1>7, <2>1 DEF Kept
  <2>6. \A b : Solving(b)' <=> Solving(b)
    BY <1>1, <1>2, <1>3, <1>5, <1>6, <1>7, TopIs DEF IInv
  <2> DEFINE h == F.alive[i]
             whole == F.loop /\ F.valid
  <2> HIDE DEF whole
  <2> QED
    BY <1>1, <1>2, <1>3, <2>2, <2>4, <2>5, <2>6, PinnedAside DEF whole
<1>14. Stays => Kept(G)'
  BY <1>5, <1>7, <1>9, <1>10, <1>11, <1>12, <1>13 DEF Kept
<1> QED
  BY <1>1, <1>2, <1>3, <1>5, <1>6, <1>14, WriteKeeps

\* A helper that the solve has just fitted is pinned.
LEMMA FitPins ==
  ASSUME IInv, stack # <<>>, f.step <= Steps, Write(Fit), Quiet,
         calculated' = calculated, \A b : Solving(b)' <=> Solving(b),
         \A j \in Fitted : \A b \in Reads[f.alive[j]] : calculated[b],
         NEW i \in Fitted, NEW whole, whole => f.loop /\ f.valid,
         NEW c, c = f.curve, NEW h, h = f.alive[i]
  PROVE  Pinned(c, h, i, whole)'
<1>1. /\ c \in Curves /\ i \in DOMAIN f.alive /\ h \in Helpers /\ Reads[h] \subseteq Below[c]
      /\ Kept(f) /\ algorithm[c] \in {"iterative", "local", "global"} /\ f = stack[1]
      /\ on[h] = c /\ f.alive \in Seq(Helpers)
  BY WorkIs, StepIs DEF Kept
<1>2. algorithm' = algorithm /\ seen' = seen /\ quote' = quote
  BY DEF Quiet, market
<1>3. \A b \in Reads[h] : b \in Curves /\ b # c /\ Standing(b)' /\ cd'[b] = cd[b]
  <2> SUFFICES ASSUME NEW b \in Reads[h]
               PROVE  b \in Curves /\ b # c /\ Standing(b)' /\ cd'[b] = cd[b]
    OBVIOUS
  <2>1. b \in Below[stack[1].curve] /\ calculated[b] /\ b \in Curves
    BY <1>1, BootstrapTypes
  <2>2. ~Solving(b)
    BY <2>1, ReadsRest DEF IInv
  <2>3. b # c
    BY <2>2, WorkIs
  <2> QED
    BY <2>1, <2>2, <2>3, WriteIs DEF Standing
<1>4. NodesOf(c, i)' = NodesOf(c, i) /\ cd'[c].dates = cd[c].dates
  BY <1>2, WriteIs DEF NodesOf
<1>5. ASSUME NEW k \in NodesOf(c, i)
      PROVE  cd'[c].data[k] = Fit
  <2>1. k \in Written
    BY StepIs
  <2>2. k \in 1 .. Len(cd[c].dates)
    <3>1. CASE algorithm[c] = "global"
      <4>1. k \in 2 .. Len(cd[c].dates)
        BY <3>1 DEF NodesOf
      <4> QED
        BY <4>1
    <3>2. CASE algorithm[c] # "global"
      <4>1. Len(cd[c].dates) = Len(f.alive) + 1
        BY <3>2, StepIs
      <4>2. k = i + 1
        BY <3>2 DEF NodesOf
      <4>3. i \in 1 .. Len(f.alive) /\ Len(f.alive) \in Nat
        BY <1>1
      <4> QED
        BY <4>1, <4>2, <4>3
    <3> QED
      BY <3>1, <3>2
  <2> QED
    BY <2>1, <2>2, WriteIs
<1>6. /\ Fit.kind = "fit" /\ Fit.upto = Upto
      /\ h \in DOMAIN Fit.helpers /\ Fit.helpers[h] = Price(h)
  BY DEF Fit
<1>7. Price(h) = [quote |-> quote'[h], seen |-> seen'[h], on |-> c,
                  others |-> [b \in Reads[h] |-> cd'[b].data]]
  <2>1. [b \in Reads[h] |-> cd[b].data] = [b \in Reads[h] |-> cd'[b].data]
    BY <1>3
  <2> QED
    BY <1>1, <1>2, <2>1 DEF Price
<1>8. whole => Upto = Len(cd[c].dates)
  <2>1. whole => algorithm[c] = "iterative" /\ f.valid
    BY <1>1 DEF Kept, LoopRequired
  <2> QED
    BY <2>1 DEF Upto
<1>9. ASSUME NEW k \in NodesOf(c, i)
      PROVE  /\ Fits(cd[c].data[k], h, c)'
             /\ whole => cd'[c].data[k].upto = Len(cd'[c].dates)
  <2>1. cd'[c].data[k] = Fit
    BY <1>5
  <2>2. Fits(cd[c].data[k], h, c)'
    BY <2>1, <1>6, <1>7 DEF Fits
  <2>3. whole => cd'[c].data[k].upto = Len(cd'[c].dates)
    BY <2>1, <1>4, <1>6, <1>8
  <2> QED
    BY <2>2, <2>3
<1>10. \A b \in Reads[h] : Standing(b)'
  BY <1>3
<1> QED
  BY <1>4, <1>9, <1>10 DEF Pinned

\* Which helpers a solve adds to those fitted.
LEMMA FittedAdds ==
  ASSUME IInv, stack # <<>>, f.tried, algorithm' = algorithm,
         NEW F, F = f, NEW G \in Frames, G.curve = F.curve, G.alive = F.alive, ~G.tried,
         G.step = F.step + 1,
         cd'[F.curve].dates = cd[F.curve].dates
  PROVE  /\ PinnedBy(G)' = PinnedBy(F) \cup Fitted
         /\ ReachedBy(G)' = ReachedBy(F)
         /\ StepsOf(G)' = StepsOf(F)
         /\ F.step <= StepsOf(F)
         /\ \A i \in PinnedBy(F) : /\ i \in DOMAIN F.alive
                                   /\ \A k \in NodesOf(F.curve, i) :
                                        k \notin Written /\ k \in 1 .. Len(cd[F.curve].dates)
<1> DEFINE c == F.curve
<1>1. /\ c \in Curves /\ algorithm[c] \in {"iterative", "local", "global"} /\ F.step \in Nat
      /\ F.step # 0 /\ F.alive \in Seq(Helpers) /\ Kept(F) /\ F.tried /\ F \in Frames
  BY WorkIs
<1>2. /\ Localisation \in Nat /\ Localisation # 0
      /\ DOMAIN F.alive = 1 .. Len(F.alive) /\ Len(F.alive) \in Nat
  BY <1>1, BootstrapTypes
<1>3. F.step <= StepsOf(F) /\ StepsOf(G)' = StepsOf(F)
  BY <1>1 DEF Kept, StepsOf
<1>4. PinnedBy(F) \subseteq DOMAIN F.alive
  BY <1>1, PinnedAre, TypesGive DEF Kept, Typed, IInv
<1>5. algorithm[c] # "global" => Len(cd[c].dates) = Len(F.alive) + 1
  BY StepIs
<1> HIDE DEF c
<1>6. CASE algorithm[c] = "iterative"
  <2>1. PinnedBy(F) = 1 .. F.step - 1 /\ Fitted = {F.step} /\ PinnedBy(G)' = 1 .. G.step - 1
    BY <1>6 DEF PinnedBy, Fitted, c
  <2>2. PinnedBy(G)' = PinnedBy(F) \cup Fitted
    BY <2>1, <1>1
  <2>3. ReachedBy(G)' = ReachedBy(F)
    BY <1>1, <1>6 DEF ReachedBy, c
  <2>4. ASSUME NEW i \in PinnedBy(F)
        PROVE  \A k \in NodesOf(c, i) : k \notin Written /\ k \in 1 .. Len(cd[c].dates)
    <3>1. NodesOf(c, i) = {i + 1} /\ Written = {k + 1 : k \in Fitted}
      BY <1>6 DEF NodesOf, Written, c
    <3>2. i + 1 \notin Written /\ i + 1 \in 1 .. Len(cd[c].dates)
      BY <2>1, <3>1, <1>1, <1>2, <1>4, <1>5, <1>6
    <3> QED
      BY <3>1, <3>2
  <2> QED
    BY <1>3, <1>4, <2>2, <2>3, <2>4 DEF c
<1>7. CASE algorithm[c] = "local"
  <2>1. /\ PinnedBy(F) = 1 .. F.step - 1 /\ Fitted = F.step .. F.step + Localisation - 1
    BY <1>1, <1>7 DEF PinnedBy, Fitted, c
  <2>2. PinnedBy(G)' = 1 .. F.step + Localisation - 1
    <3>1. ~(G.tried \/ G.step = 1) /\ G.step + Localisation - 2 = F.step + Localisation - 1
      BY <1>1, <1>2
    <3> QED
      BY <1>7, <3>1 DEF PinnedBy, c
  <2>3. PinnedBy(G)' = PinnedBy(F) \cup Fitted
    BY <2>1, <2>2, <1>1, <1>2
  <2>4. ReachedBy(G)' = ReachedBy(F)
    <3>1. ~G.tried /\ G.step # 1 /\ G.step + Localisation - 1 = F.step + Localisation
      BY <1>1, <1>2
    <3> QED
      BY <1>1, <1>7, <3>1 DEF ReachedBy, c
  <2>5. ASSUME NEW i \in PinnedBy(F)
        PROVE  \A k \in NodesOf(c, i) : k \notin Written /\ k \in 1 .. Len(cd[c].dates)
    <3>1. NodesOf(c, i) = {i + 1} /\ Written = {k + 1 : k \in Fitted}
      BY <1>7 DEF NodesOf, Written, c
    <3>2. i + 1 \in 1 .. Len(cd[c].dates)
      BY <1>2, <1>4, <1>5, <1>7
    <3>3. i + 1 \notin Written
      BY <2>1, <3>1, <1>1, <1>2
    <3> QED
      BY <3>1, <3>2, <3>3
  <2> QED
    BY <1>3, <1>4, <2>3, <2>4, <2>5 DEF c
<1>8. CASE algorithm[c] = "global"
  <2>1. F.step = 1 /\ G.step = 2
    BY <1>1, <1>3, <1>8 DEF StepsOf, c
  <2>2. PinnedBy(F) = {} /\ Fitted = DOMAIN F.alive /\ PinnedBy(G)' = DOMAIN F.alive
    BY <1>8, <2>1 DEF PinnedBy, Fitted, c
  <2>3. ReachedBy(G)' = ReachedBy(F)
    BY <1>1, <1>8, <2>1 DEF ReachedBy, c
  <2> QED
    BY <1>3, <2>2, <2>3 DEF c
<1> QED
  BY <1>1, <1>6, <1>7, <1>8 DEF c

\* A solve pins the helpers of its step and moves on.
LEMMA SolveKeeps ==
  ASSUME IInv, Solve
  PROVE  IInv'
<1>1. /\ stack # <<>> /\ f.tried /\ Write(Fit)
      /\ \A j \in Fitted : \A b \in Reads[f.alive[j]] : calculated[b]
      /\ stack' = [stack EXCEPT ![1].tried = FALSE, ![1].step = @ + 1]
      /\ Quiet /\ on' = on /\ calculated' = calculated
  BY DEF Solve, Quiet
<1>2. PICK F \in Frames : F = f
  BY <1>1, WorkIs
<1>3. PICK c \in Curves : c = F.curve
  BY <1>1, <1>2, WorkIs
<1>4. F.step \in Nat /\ stack[1] = F /\ 1 \in DOMAIN stack
  BY <1>1, <1>2, WorkIs
<1>5. PICK G \in Frames : G = [F EXCEPT !.tried = FALSE, !.step = F.step + 1]
  <2>1. PICK G \in Frames : G = [F EXCEPT !.tried = FALSE]
    <3>1. [F EXCEPT !.tried = FALSE] \in Frames
      BY DEF Frames
    <3> QED
      BY <3>1
  <2>2. [G EXCEPT !.step = F.step + 1] \in Frames
    <3>1. ASSUME NEW m \in Nat PROVE [G EXCEPT !.step = m] \in Frames
      BY DEF Frames
    <3>2. F.step + 1 \in Nat
      BY <1>4
    <3> QED
      BY <3>1, <3>2
  <2>3. [F EXCEPT !.tried = FALSE, !.step = F.step + 1] = [G EXCEPT !.step = F.step + 1]
    BY <2>1
  <2> QED
    BY <2>2, <2>3
<1>6. /\ G.curve = c /\ G.alive = F.alive /\ G.step = F.step + 1 /\ G.valid = F.valid
      /\ G.loop = F.loop /\ ~G.tried
  BY <1>3, <1>5 DEF Frames
<1>7. stack' = [stack EXCEPT ![1] = G]
  <2>1. stack' = [stack EXCEPT ![1] = [stack[1] EXCEPT !.tried = FALSE,
                                                         !.step = stack[1].step + 1]]
    BY <1>1, <1>4
  <2> QED
    BY <1>4, <1>5, <2>1
<1>8. TypeOK /\ Kept(F) /\ f.step <= Steps /\ F.step # 0
  BY <1>1, <1>2, WorkIs, StepIs DEF IInv, Kept
<1>9. /\ calculated'[c] /\ cd'[c].dates = cd[c].dates /\ algorithm'[c] = algorithm[c]
      /\ Alive(c)' = F.alive /\ LoopRequired(c)' = F.loop
      /\ \A i \in DOMAIN F.alive : on'[F.alive[i]] = c
  BY <1>1, <1>2, <1>3, <1>8, WorkSame
<1>10. algorithm' = algorithm
  BY <1>1 DEF Quiet
<1>11. /\ PinnedBy(G)' = PinnedBy(F) \cup Fitted
       /\ ReachedBy(G)' = ReachedBy(F)
       /\ StepsOf(G)' = StepsOf(F)
       /\ F.step <= StepsOf(F)
       /\ \A i \in PinnedBy(F) : /\ i \in DOMAIN F.alive
                                 /\ \A k \in NodesOf(c, i) :
                                      k \notin Written /\ k \in 1 .. Len(cd[c].dates)
  BY <1>1, <1>2, <1>3, <1>6, <1>9, <1>10, FittedAdds
<1>12. \A b : Solving(b)' <=> Solving(b)
  BY <1>1, <1>2, <1>3, <1>6, <1>7, <1>8, TopIs DEF IInv
<1>13. ASSUME NEW i \in PinnedBy(G)'
       PROVE  Pinned(c, F.alive[i], i, F.loop /\ F.valid)'
  <2> DEFINE whole == F.loop /\ F.valid
  <2>1. i \in PinnedBy(F) \/ i \in Fitted
    BY <1>11
  <2>2. whole => f.loop /\ f.valid
    BY <1>2
  <2> HIDE DEF whole
  <2>3. CASE i \in Fitted
    BY <1>1, <1>2, <1>3, <1>8, <1>12, <2>2, <2>3, FitPins DEF whole
  <2>4. CASE i \in PinnedBy(F)
    <3>1. Pinned(c, F.alive[i], i, whole)
      BY <1>3, <1>8, <2>4 DEF Kept, whole
    <3> QED
      BY <1>1, <1>2, <1>3, <1>8, <1>11, <1>12, <2>4, <3>1, PinnedAside DEF whole
  <2> QED
    BY <2>1, <2>3, <2>4
<1>14. G.step \in 1 .. StepsOf(G)' + 1
  <2>1. StepsOf(F) \in Int
    <3>1. algorithm[c] \in {"iterative", "local", "global"} /\ Len(F.alive) \in Nat
      BY <1>1, <1>2, <1>3, WorkIs
    <3> QED
      BY <1>3, <3>1, BootstrapTypes DEF StepsOf
  <2> QED
    BY <1>4, <1>6, <1>8, <1>11, <2>1
<1>15. Rising(cd[c].dates, ReachedBy(G))'
  BY <1>3, <1>8, <1>9, <1>11 DEF Kept, Rising
<1>16. Kept(G)'
  BY <1>6, <1>9, <1>13, <1>14, <1>15 DEF Kept
<1> QED
  BY <1>1, <1>2, <1>3, <1>6, <1>7, <1>8, <1>16, WriteKeeps

\* CurveData with its flag replaced.
LEMMA ValidWritten ==
  ASSUME NEW r, r = [dates |-> r.dates, data |-> r.data, upto |-> r.upto,
                     maxDate |-> r.maxDate, valid |-> r.valid],
         NEW d
  PROVE  [r EXCEPT !.valid = d] =
           [dates |-> r.dates, data |-> r.data, upto |-> r.upto, maxDate |-> r.maxDate,
            valid |-> d]
<1> DEFINE e == [r EXCEPT !.valid = d]
<1>1. DOMAIN r = {"dates", "data", "upto", "maxDate", "valid"}
  OBVIOUS
<1>2. e = [x \in DOMAIN r |-> e[x]]
  OBVIOUS
<1>3. /\ e.dates = r.dates /\ e.maxDate = r.maxDate /\ e.valid = d
      /\ e.data = r.data /\ e.upto = r.upto
  BY <1>1
<1> HIDE DEF e
<1>4. e = [dates |-> e.dates, data |-> e.data, upto |-> e.upto, maxDate |-> e.maxDate,
           valid |-> e.valid]
  BY <1>1, <1>2
<1> QED
  BY <1>3, <1>4 DEF e

\* A bootstrap that ends keeps the invariant if its curve, when it still says it is
\* calculated, is done.
LEMMA PopKeeps ==
  ASSUME IInv, Quiet, stack # <<>>, stack' = Tail(stack) \/ stack' = Lost(Tail(stack)),
         on' = on, calculated' \in [Curves -> BOOLEAN], DOMAIN cd' = Curves,
         \A b \in Curves : b # f.curve => cd'[b] = cd[b] /\ calculated'[b] = calculated[b],
         cd'[f.curve].dates = cd[f.curve].dates, cd'[f.curve].maxDate = cd[f.curve].maxDate,
         cd'[f.curve].upto = cd[f.curve].upto, cd'[f.curve].valid \in BOOLEAN,
         Shaped(cd'[f.curve]),
         NEW c, c = f.curve, Stays /\ calculated'[c] => Done(c)'
  PROVE  IInv'
<1>1. TypeOK /\ Descending /\ c \in Curves /\ Solving(c) /\ calculated[c]
  BY WorkIs DEF IInv, Kept
<1>2. /\ stack' \in Seq(Frames)
      /\ \A n \in DOMAIN stack' : n + 1 \in DOMAIN stack /\ Alike(stack[n + 1], stack'[n])
      /\ \A b : Solving(b)' <=> Solving(b) /\ b # f.curve
      /\ Descending'
  BY <1>1, PopIs
<1>3. Stays
  BY <1>1, <1>2 DEF Stays, Standing
<1>4. \A b \in Curves : Standing(b)' /\ ~Standing(b) => b = c /\ calculated'[c]
  BY <1>2 DEF Standing
<1>5. ASSUME NEW n \in DOMAIN stack'
      PROVE  Kept(stack[n])'
  <2>1. n + 1 \in DOMAIN stack /\ n + 1 # 1
    BY <1>2
  <2>2. PICK F \in Frames : F = stack[n + 1]
    BY <1>1, <2>1, FramesAre
  <2>3. Kept(F)'
    BY <1>3, <2>1, <2>2, OthersKept
  <2>4. Alike(F, stack'[n])
    BY <1>2, <2>2
  <2> QED
    BY <2>3, <2>4, KeptAlike
<1>6. \A b \in Curves : /\ cd[b].dates \in Seq(Int) /\ cd[b].maxDate \in Int
                        /\ cd[b].upto \in Nat /\ cd[b].valid \in BOOLEAN
                        /\ Shaped(cd[b])
  BY DataAre DEF IInv
<1>7. \A b \in Curves : /\ cd'[b].dates \in Seq(Int) /\ cd'[b].maxDate \in Int
                        /\ cd'[b].upto \in Nat /\ cd'[b].valid \in BOOLEAN
                        /\ Shaped(cd'[b])
  BY <1>6
<1>8. TypeOK' /\ Shapes'
  BY <1>1, <1>2, <1>7, TypesAfter DEF Shapes, TypeOK
<1>9. \A b \in Curves : cd'[b].dates = cd[b].dates /\ cd'[b].maxDate = cd[b].maxDate
  OBVIOUS
<1>10. \A b \in Curves : calculated'[b] => calculated[b]
  BY <1>1
<1> QED
  BY <1>2, <1>3, <1>4, <1>5, <1>8, <1>9, <1>10, QuietKeeps

\* A bootstrap that fails leaves its curve uncalculated.
LEMMA AbandonKeeps ==
  ASSUME IInv, stack # <<>>, Abandon
  PROVE  IInv'
<1>1. /\ calculated' = [calculated EXCEPT ![f.curve] = FALSE]
      /\ stack' = Lost(Tail(stack)) /\ Quiet /\ on' = on /\ cd' = cd
  BY DEF Abandon, Quiet
<1>2. f.curve \in Curves /\ calculated \in [Curves -> BOOLEAN]
  BY WorkIs DEF IInv, TypeOK
<1>3. /\ DOMAIN cd = Curves /\ cd[f.curve].valid \in BOOLEAN /\ Shaped(cd[f.curve])
  BY <1>2, DataAre DEF IInv
<1>4. calculated' \in [Curves -> BOOLEAN] /\ ~calculated'[f.curve]
  BY <1>1, <1>2
<1> QED
  BY <1>1, <1>2, <1>3, <1>4, PopKeeps

LEMMA FailKeeps ==
  ASSUME IInv, Fail
  PROVE  IInv'
BY AbandonKeeps DEF Fail

\* After its last step a bootstrap has fitted every helper, over all its nodes.
LEMMA PassIs ==
  ASSUME IInv, stack # <<>>, f.step > Steps
  PROVE  /\ ~f.tried /\ f.step = StepsOf(f) + 1 /\ StepsOf(f) \in Nat
         /\ PinnedBy(f) = DOMAIN f.alive
         /\ ReachedBy(f) = Len(cd[f.curve].dates)
<1>1. PICK F \in Frames : F = f
  BY WorkIs
<1>2. PICK c \in Curves : c = F.curve
  BY <1>1, WorkIs
<1>3. /\ algorithm[c] \in {"iterative", "local", "global"} /\ F.step \in Nat
      /\ F.step # 0 /\ F.alive \in Seq(Helpers) /\ Kept(F) /\ Laid(c)
  BY <1>1, <1>2, WorkIs
<1>4. /\ Localisation \in Nat /\ Localisation # 0
      /\ DOMAIN F.alive = 1 .. Len(F.alive) /\ Len(F.alive) \in Nat
  BY <1>3, BootstrapTypes
<1>5. StepsOf(F) \in Int
  BY <1>2, <1>3, <1>4 DEF StepsOf
<1>6. F.step = StepsOf(F) + 1 /\ ~F.tried
  BY <1>1, <1>3, <1>5, StepIs DEF Kept
<1>7. algorithm[c] # "global" => Len(cd[c].dates) = Len(F.alive) + 1
  BY <1>1, <1>2, StepIs
<1>8. algorithm[c] = "local" => Len(F.alive) > Localisation
  BY <1>2, <1>3 DEF Laid, Kept
<1>9. PinnedBy(F) = DOMAIN F.alive /\ ReachedBy(F) = Len(cd[c].dates)
  <2>1. CASE algorithm[c] = "iterative"
    <3>1. F.step = Len(F.alive) + 1
      BY <1>2, <1>6, <2>1 DEF StepsOf
    <3>2. PinnedBy(F) = 1 .. F.step - 1 /\ ReachedBy(F) = F.step
      BY <1>2, <1>6, <2>1 DEF PinnedBy, ReachedBy
    <3> QED
      BY <1>4, <1>7, <2>1, <3>1, <3>2
  <2>2. CASE algorithm[c] = "local"
    <3>1. F.step = Len(F.alive) - Localisation + 2
      BY <1>2, <1>4, <1>6, <2>2 DEF StepsOf
    <3>2. /\ F.step # 1 /\ F.step + Localisation - 2 = Len(F.alive)
          /\ F.step + Localisation - 1 = Len(F.alive) + 1
      BY <3>1, <1>4, <1>8, <2>2
    <3>3. PinnedBy(F) = 1 .. F.step + Localisation - 2 /\ ReachedBy(F) = F.step + Localisation - 1
      BY <1>2, <1>6, <2>2, <3>2 DEF PinnedBy, ReachedBy
    <3> QED
      BY <1>4, <1>7, <2>2, <3>2, <3>3
  <2>3. CASE algorithm[c] = "global"
    <3>1. F.step = 2
      BY <1>2, <1>6, <2>3 DEF StepsOf
    <3> QED
      BY <1>2, <2>3, <3>1 DEF PinnedBy, ReachedBy
  <2> QED
    BY <1>3, <2>1, <2>2, <2>3
<1>10. StepsOf(F) \in Nat
  BY <1>3, <1>5, <1>6
<1> QED
  BY <1>1, <1>2, <1>6, <1>9, <1>10

\* A bootstrap that succeeds leaves every helper pinned, and over all the nodes when
\* passes were needed: MayStop waits for a pass that started from valid data.
LEMMA SucceedKeeps ==
  ASSUME IInv, stack # <<>>, f.step > Steps, MayStop, Succeed
  PROVE  IInv'
<1>1. /\ cd' = [cd EXCEPT ![f.curve].valid = @ \/ algorithm[f.curve] # "local"]
      /\ stack' = Tail(stack) /\ Quiet /\ on' = on /\ calculated' = calculated
  BY DEF Succeed, Quiet
<1>2. PICK c \in Curves : c = f.curve
  BY WorkIs
<1>3. /\ TypeOK /\ Typed /\ Kept(f) /\ f.alive \in Seq(Helpers)
      /\ calculated \in [Curves -> BOOLEAN] /\ Solving(c)
      /\ f.loop = LoopRequired(c)
  BY <1>2, WorkIs, TypesGive DEF IInv, TypeOK, Kept
<1>4. /\ DOMAIN cd = Curves /\ cd[c].valid \in BOOLEAN /\ Shaped(cd[c])
  BY DataAre DEF IInv
<1>5. /\ DOMAIN cd' = Curves /\ \A b \in Curves : b # c => cd'[b] = cd[b]
      /\ cd'[c].dates = cd[c].dates /\ cd'[c].maxDate = cd[c].maxDate
      /\ cd'[c].upto = cd[c].upto /\ cd'[c].data = cd[c].data
      /\ cd'[c].valid \in BOOLEAN /\ Shaped(cd'[c])
  <2> DEFINE r == cd[c]
             d == r.valid \/ algorithm[c] # "local"
  <2>1. cd' = [cd EXCEPT ![c] = [r EXCEPT !.valid = d]]
    BY <1>1, <1>2
  <2>2. [r EXCEPT !.valid = d] = [dates |-> r.dates, data |-> r.data, upto |-> r.upto,
                                  maxDate |-> r.maxDate, valid |-> d]
    <3> HIDE DEF r, d
    <3> QED
      BY <1>4, ValidWritten DEF Shaped, r
  <2>3. d \in BOOLEAN
    BY <1>4
  <2> HIDE DEF d
  <2>4. cd'[c] = [dates |-> r.dates, data |-> r.data, upto |-> r.upto,
                  maxDate |-> r.maxDate, valid |-> d]
    BY <1>4, <2>1, <2>2
  <2>5. DOMAIN cd' = Curves /\ \A b \in Curves : b # c => cd'[b] = cd[b]
    BY <1>4, <2>1
  <2>6. /\ r.data = [i \in 1 .. Len(r.dates) |-> r.data[i]]
        /\ r.upto <= Len(r.dates)
    BY <1>4 DEF Shaped
  <2> HIDE DEF r
  <2>7. Shaped(cd'[c])
    BY <2>4, <2>6 DEF Shaped
  <2> QED
    BY <2>3, <2>4, <2>5, <2>7 DEF r
<1>6. algorithm' = algorithm /\ seen' = seen /\ quote' = quote
  BY <1>1 DEF Quiet, market
<1>7. ASSUME Stays
      PROVE  Done(c)'
  <2>1. Alive(c)' = f.alive /\ LoopRequired(c)' = f.loop
    BY <1>2, <1>3, <1>6, SameAlive, SameLayout DEF Kept
  <2>2. PinnedBy(f) = DOMAIN f.alive /\ ReachedBy(f) = Len(cd[c].dates)
    BY <1>2, PassIs
  <2>3. f.loop => f.valid
    BY DEF MayStop
  <2>4. f.loop \in BOOLEAN
    BY <1>3 DEF LoopRequired
  <2>5. PICK whole : whole = f.loop
    OBVIOUS
  <2>6. ASSUME NEW i \in DOMAIN f.alive, NEW h, h = f.alive[i]
        PROVE  Pinned(c, h, i, whole)'
    <3>1. (f.loop /\ f.valid) = whole
      BY <2>3, <2>4, <2>5
    <3>2. Pinned(c, h, i, whole)
      BY <1>2, <1>3, <2>2, <2>6, <3>1 DEF Kept
    <3>3. h \in Helpers
      BY <1>3, <2>6
    <3>4. \A b \in Reads[h] : Standing(b)' /\ cd'[b] = cd[b]
      BY <1>7, <3>2, <3>3, BootstrapTypes DEF Stays, Pinned
    <3> QED
      BY <1>5, <1>6, <3>2, <3>3, <3>4, PinnedStays
  <2>7. Rising(cd[c].dates, Len(cd[c].dates))'
    BY <1>2, <1>3, <1>5, <2>2 DEF Kept, Rising
  <2>8. ASSUME NEW i \in DOMAIN Alive(c)'
        PROVE  Pinned(c, Alive(c)[i], i, LoopRequired(c))'
    BY <2>1, <2>5, <2>6
  <2> QED
    BY <2>7, <2>8 DEF Done
<1> QED
  BY <1>1, <1>2, <1>3, <1>5, <1>7, PopKeeps

\* A pass ends: the bootstrap succeeds, gives up, or starts over from valid data.
LEMMA EndPassKeeps ==
  ASSUME IInv, EndPass
  PROVE  IInv'
<1>1. stack # <<>> /\ f.step > Steps
  BY DEF EndPass
<1>2. CASE MayStop /\ Succeed
  BY <1>1, <1>2, SucceedKeeps
<1>3. CASE Abandon
  BY <1>1, <1>3, AbandonKeeps
<1>4. CASE /\ f.loop
           /\ stack' = [stack EXCEPT ![1].step = 1, ![1].pass = @ + 1, ![1].valid = TRUE]
           /\ UNCHANGED <<algorithm, on, cd, calculated, market>>
  <2>1. PICK F \in Frames : F = f
    BY <1>1, WorkIs
  <2>2. PICK c \in Curves : c = F.curve
    BY <1>1, <2>1, WorkIs
  <2>3. F.pass \in Nat /\ stack[1] = F /\ 1 \in DOMAIN stack /\ Kept(F)
    BY <1>1, <2>1, WorkIs DEF Frames
  <2>4. PICK G \in Frames : G = [F EXCEPT !.step = 1, !.pass = F.pass + 1, !.valid = TRUE]
    <3>1. PICK G1 \in Frames : G1 = [F EXCEPT !.step = 1]
      <4>1. [F EXCEPT !.step = 1] \in Frames
        BY DEF Frames
      <4> QED
        BY <4>1
    <3>2. PICK G2 \in Frames : G2 = [G1 EXCEPT !.pass = F.pass + 1]
      <4>1. ASSUME NEW m \in Nat PROVE [G1 EXCEPT !.pass = m] \in Frames
        BY DEF Frames
      <4>2. F.pass + 1 \in Nat
        BY <2>3
      <4> QED
        BY <4>1, <4>2
    <3>3. [G2 EXCEPT !.valid = TRUE] \in Frames
      BY DEF Frames
    <3>4. [F EXCEPT !.step = 1, !.pass = F.pass + 1, !.valid = TRUE] = [G2 EXCEPT !.valid = TRUE]
      BY <3>1, <3>2
    <3> QED
      BY <3>3, <3>4
  <2>5. /\ G.curve = c /\ G.alive = F.alive /\ G.step = 1 /\ G.valid
        /\ G.loop = F.loop /\ G.tried = F.tried
    BY <2>2, <2>4 DEF Frames
  <2>6. stack' = [stack EXCEPT ![1] = G]
    <3>1. stack' = [stack EXCEPT ![1] = [stack[1] EXCEPT !.step = 1, !.pass = stack[1].pass + 1,
                                                         !.valid = TRUE]]
      BY <1>4, <2>3
    <3> QED
      BY <2>3, <2>4, <3>1
  <2>7. TypeOK /\ Descending /\ Shapes /\ Typed
    BY TypesGive DEF IInv
  <2>8. /\ stack' \in Seq(Frames) /\ DOMAIN stack' = DOMAIN stack /\ stack'[1] = G
        /\ \A n \in DOMAIN stack : n # 1 => stack'[n] = stack[n]
        /\ \A b : Solving(b)' <=> Solving(b)
        /\ Descending'
    BY <1>1, <2>1, <2>2, <2>5, <2>6, <2>7, TopIs
  <2>9. Quiet /\ on' = on /\ cd' = cd /\ calculated' = calculated
    BY <1>4 DEF Quiet
  <2>10. Stays /\ \A b \in Curves : Standing(b)' <=> Standing(b)
    BY <2>8, <2>9 DEF Stays, Standing
  <2>11. TypeOK' /\ Shapes'
    <3>1. /\ \A b \in Curves : /\ cd[b].dates \in Seq(Int) /\ cd[b].maxDate \in Int
                               /\ cd[b].upto \in Nat /\ cd[b].valid \in BOOLEAN
          /\ DOMAIN cd = Curves /\ on \in [Helpers -> Curves \cup {Nobody}]
          /\ calculated \in [Curves -> BOOLEAN]
      BY <2>7 DEF TypeOK
    <3> QED
      BY <2>7, <2>8, <2>9, <3>1, TypesAfter DEF Shapes
  <2>12. Kept(G)'
    <3>1. algorithm' = algorithm /\ seen' = seen
      BY <2>9 DEF Quiet, market
    <3>2. Alive(c)' = Alive(c) /\ LoopRequired(c)' = LoopRequired(c)
      BY <2>7, <3>1, SameAlive, SameLayout
    <3>3. ~F.tried /\ StepsOf(F) \in Nat
      BY <1>1, <2>1, PassIs
    <3>4. StepsOf(G)' = StepsOf(F)
      BY <2>2, <2>5, <3>1 DEF StepsOf
    <3>5. algorithm[c] \in {"iterative", "local", "global"}
      BY <2>7 DEF Typed
    <3>6. PinnedBy(G)' = {}
      BY <2>5, <3>1, <3>3, <3>5 DEF PinnedBy
    <3>7. ReachedBy(G)' \in 0 .. 1
      BY <2>5, <3>1, <3>3, <3>5 DEF ReachedBy
    <3>8. Rising(cd[G.curve].dates, ReachedBy(G))'
      BY <3>7 DEF Rising
    <3>9. G.step \in 1 .. StepsOf(G)' + 1
      BY <2>5, <3>3, <3>4
    <3>10. \A i \in DOMAIN F.alive : on[F.alive[i]] = c
      BY <2>2, <2>3 DEF Kept
    <3>11. calculated[c] /\ F.alive = Alive(c) /\ F.loop = LoopRequired(c)
      BY <2>2, <2>3 DEF Kept
    <3> QED
      BY <2>5, <2>9, <3>2, <3>3, <3>6, <3>8, <3>9, <3>10, <3>11 DEF Kept
  <2>13. ASSUME NEW n \in DOMAIN stack'
         PROVE  Kept(stack[n])'
    <3>1. CASE n = 1
      BY <2>8, <2>12, <3>1
    <3>2. CASE n # 1
      <4>1. PICK H \in Frames : H = stack[n]
        BY <2>7, <2>8, FramesAre
      <4>2. Kept(H)'
        BY <1>1, <2>8, <2>9, <2>10, <3>2, <4>1, OthersKept
      <4> QED
        BY <2>8, <3>2, <4>1, <4>2
    <3> QED
      BY <3>1, <3>2
  <2> QED
    BY <2>8, <2>9, <2>10, <2>11, <2>13, QuietKeeps
<1> QED
  BY <1>2, <1>3, <1>4 DEF EndPass

-----------------------------------------------------------------------------
(* THE MARKET                                                              *)

\* A curve that h does not invalidate has no use of h, nor reads a curve that h
\* invalidates.
LEMMA SparedIs ==
  ASSUME NEW h \in Helpers, NEW c \in Curves, c \notin Dependents[h]
  PROVE  /\ h \notin ToSet(Instruments[c])
         /\ \A g \in ToSet(Instruments[c]) : \A b \in Reads[g] : b \notin Dependents[h]
<1>1. PICK hs \in SUBSET Helpers : h \in hs /\ Closed(hs) /\ ~Tells(hs, c)
  BY DEF Dependents
<1>2. h \notin ToSet(Instruments[c])
  BY <1>1 DEF Tells
<1>3. ASSUME NEW g \in ToSet(Instruments[c]), NEW b \in Reads[g], b \in Dependents[h]
      PROVE  FALSE
  <2>1. Tells(hs, b)
    BY <1>1, <1>3 DEF Dependents
  <2>2. g \in Helpers
    BY BootstrapTypes DEF ToSet
  <2>3. g \in hs
    BY <1>1, <2>1, <2>2 DEF Closed
  <2> QED
    BY <1>1, <2>3 DEF Tells
<1> QED
  BY <1>2, <1>3

\* The market moves between bootstraps: what is still calculated is as it was.
LEMMA MarketKeeps ==
  ASSUME IInv, stack = <<>>, UNCHANGED <<algorithm, on, cd, stack>>, TypeOK', Told',
         \A c \in Curves : calculated'[c] =>
           /\ calculated[c]
           /\ \A g \in ToSet(Instruments[c]) :
                /\ seen'[g] = seen[g] /\ quote'[g] = quote[g]
                /\ \A b \in Reads[g] : calculated[b] => calculated'[b]
  PROVE  IInv'
<1>1. Typed
  BY TypesGive DEF IInv
<1>2. \A b : ~Solving(b) /\ ~Solving(b)'
  BY DEF Solving
<1>3. Shapes' /\ Descending' /\ \A n \in DOMAIN stack' : Kept(stack[n])'
  BY DEF IInv, Shapes, Descending
<1>4. ASSUME NEW c \in Curves, calculated'[c]
      PROVE  Laid(c)' /\ Done(c)'
  <2>1. Laid(c) /\ Done(c)
    BY <1>2, <1>4 DEF IInv, Standing
  <2>2. \A g \in ToSet(Instruments[c]) : seen'[g] = seen[g] /\ quote'[g] = quote[g]
    BY <1>4
  <2>3. Laid(c)'
    BY <1>1, <2>1, <2>2, LaidStays
  <2>4. /\ Alive(c)' = Alive(c) /\ LoopRequired(c)' = LoopRequired(c)
        /\ Alive(c) \in Seq(Helpers) /\ ToSet(Alive(c)) \subseteq ToSet(Instruments[c])
    BY <1>1, <2>2, SameAlive, SameLayout, AliveIs
  <2>5. PICK whole : whole = LoopRequired(c)
    OBVIOUS
  <2>6. ASSUME NEW i \in DOMAIN Alive(c), NEW h, h = Alive(c)[i]
        PROVE  Pinned(c, h, i, whole)'
    <3>1. h \in Helpers /\ h \in ToSet(Instruments[c])
      BY <2>4, <2>6 DEF ToSet
    <3>2. Pinned(c, h, i, whole)
      BY <2>1, <2>5, <2>6 DEF Done
    <3>3. \A b \in Reads[h] : Standing(b)' /\ cd'[b] = cd[b]
      BY <1>2, <1>4, <3>1, <3>2 DEF Pinned, Standing
    <3>4. seen'[h] = seen[h] /\ quote'[h] = quote[h]
      BY <2>2, <3>1
    <3> QED
      BY <3>1, <3>2, <3>3, <3>4, PinnedStays
  <2>7. \A i \in DOMAIN Alive(c)' : Pinned(c, Alive(c)[i], i, LoopRequired(c))'
    BY <2>4, <2>5, <2>6
  <2>8. Rising(cd[c].dates, Len(cd[c].dates))'
    BY <2>1 DEF Done, Rising
  <2> QED
    BY <2>3, <2>7, <2>8 DEF Done
<1> QED
  BY <1>3, <1>4 DEF IInv, Standing

\* The curves that h does not invalidate, and what is left of the flags.
LEMMA InvalidatedIs ==
  ASSUME TypeOK, NEW h \in Helpers, calculated' = Invalidated(h),
         \A g \in Helpers : g # h => seen'[g] = seen[g] /\ quote'[g] = quote[g]
  PROVE  /\ calculated' \in [Curves -> BOOLEAN]
         /\ \A c \in Curves : calculated'[c] =>
              /\ calculated[c]
              /\ \A g \in ToSet(Instruments[c]) :
                   /\ seen'[g] = seen[g] /\ quote'[g] = quote[g]
                   /\ \A b \in Reads[g] : calculated[b] => calculated'[b]
<1>1. calculated \in [Curves -> BOOLEAN]
  BY DEF TypeOK
<1>2. calculated' = [c \in Curves |-> calculated[c] /\ c \notin Dependents[h]]
  BY DEF Invalidated
<1>3. calculated' \in [Curves -> BOOLEAN]
  BY <1>1, <1>2
<1>4. \A c \in Curves : calculated'[c] <=> calculated[c] /\ c \notin Dependents[h]
  BY <1>1, <1>2
<1>5. ASSUME NEW c \in Curves, calculated'[c], NEW g \in ToSet(Instruments[c])
      PROVE  /\ seen'[g] = seen[g] /\ quote'[g] = quote[g]
             /\ \A b \in Reads[g] : calculated[b] => calculated'[b]
  <2>1. c \notin Dependents[h]
    BY <1>4, <1>5
  <2>2. g \in Helpers /\ g # h
    <3>1. g \in Helpers
      BY BootstrapTypes DEF ToSet
    <3> QED
      BY <2>1, <3>1, SparedIs
  <2>3. \A b \in Reads[g] : b \in Curves /\ b \notin Dependents[h]
    BY <2>1, <2>2, SparedIs, BootstrapTypes
  <2> QED
    BY <1>4, <2>2, <2>3
<1> QED
  BY <1>3, <1>4, <1>5

\* A relative helper that is told has a schedule of the date.
LEMMA RebuiltIs ==
  ASSUME TypeOK, NEW h \in Helpers, seen' = Rebuilt(h)
  PROVE  /\ seen' \in [Helpers -> EvalDates]
         /\ \A g \in Helpers : g # h => seen'[g] = seen[g]
         /\ h \in Relative => seen'[h] = date
BY DEF TypeOK, Rebuilt

\* A quote moves: whoever could have used it is invalidated.
LEMMA SetQuoteKeeps ==
  ASSUME IInv, NEW h \in Helpers, NEW q \in Quotes \cup {NoQuote}, SetQuote(h, q)
  PROVE  IInv'
<1>1. /\ stack = <<>> /\ UNCHANGED <<algorithm, on, cd, stack>>
      /\ quote' = [quote EXCEPT ![h] = q] /\ seen' = Rebuilt(h)
      /\ calculated' = Invalidated(h) /\ changes' = changes + 1
      /\ UNCHANGED <<date, untold>>
  BY DEF SetQuote
<1>2. TypeOK /\ Told
  BY DEF IInv
<1>3. /\ seen' \in [Helpers -> EvalDates]
      /\ \A g \in Helpers : g # h => seen'[g] = seen[g]
      /\ h \in Relative => seen'[h] = date
  BY <1>1, <1>2, RebuiltIs
<1>4. /\ quote' \in [Helpers -> Quotes \cup {NoQuote}]
      /\ \A g \in Helpers : g # h => quote'[g] = quote[g]
  BY <1>1, <1>2 DEF TypeOK
<1>5. /\ calculated' \in [Curves -> BOOLEAN]
      /\ \A c \in Curves : calculated'[c] =>
           /\ calculated[c]
           /\ \A g \in ToSet(Instruments[c]) :
                /\ seen'[g] = seen[g] /\ quote'[g] = quote[g]
                /\ \A b \in Reads[g] : calculated[b] => calculated'[b]
  BY <1>1, <1>2, <1>3, <1>4, InvalidatedIs
<1>6. changes' \in Nat
  BY <1>1, <1>2 DEF TypeOK
<1>7. TypeOK'
  BY <1>1, <1>2, <1>3, <1>4, <1>5, <1>6 DEF TypeOK
<1>8. Told'
  BY <1>1, <1>2, <1>3, BootstrapTypes DEF Told
<1> QED
  BY <1>1, <1>5, <1>7, <1>8, MarketKeeps

\* The date reaches a helper.
LEMMA TellKeeps ==
  ASSUME IInv, NEW h \in Helpers, Tell(h)
  PROVE  IInv'
<1>1. /\ stack = <<>> /\ UNCHANGED <<algorithm, on, cd, stack>> /\ h \in untold
      /\ untold' = untold \ {h} /\ seen' = Rebuilt(h)
      /\ calculated' = Invalidated(h)
      /\ UNCHANGED <<date, quote, changes>>
  BY DEF Tell
<1>2. TypeOK /\ Told
  BY DEF IInv
<1>3. /\ seen' \in [Helpers -> EvalDates]
      /\ \A g \in Helpers : g # h => seen'[g] = seen[g]
      /\ h \in Relative => seen'[h] = date
  BY <1>1, <1>2, RebuiltIs
<1>4. /\ calculated' \in [Curves -> BOOLEAN]
      /\ \A c \in Curves : calculated'[c] =>
           /\ calculated[c]
           /\ \A g \in ToSet(Instruments[c]) :
                /\ seen'[g] = seen[g] /\ quote'[g] = quote[g]
                /\ \A b \in Reads[g] : calculated[b] => calculated'[b]
  BY <1>1, <1>2, <1>3, InvalidatedIs
<1>5. TypeOK'
  BY <1>1, <1>2, <1>3, <1>4 DEF TypeOK
<1>6. Told'
  BY <1>1, <1>2, <1>3, BootstrapTypes DEF Told
<1> QED
  BY <1>1, <1>4, <1>5, <1>6, MarketKeeps

\* The date moves, and no schedule yet.
LEMMA SetDateKeeps ==
  ASSUME IInv, NEW d \in EvalDates, SetDate(d)
  PROVE  IInv'
<1>1. /\ stack = <<>> /\ UNCHANGED <<algorithm, on, cd, stack>>
      /\ date' = d /\ untold' = Relative /\ changes' = changes + 1
      /\ UNCHANGED <<seen, quote, calculated>>
  BY DEF SetDate
<1>2. TypeOK
  BY DEF IInv
<1>3. changes' \in Nat
  BY <1>1, <1>2 DEF TypeOK
<1>4. TypeOK'
  BY <1>1, <1>2, <1>3 DEF TypeOK
<1>5. Told'
  BY <1>1 DEF Told
<1> QED
  BY <1>1, <1>4, <1>5, MarketKeeps

LEMMA StutterKeeps ==
  ASSUME IInv, UNCHANGED vars
  PROVE  IInv'
<1>1. Quiet /\ UNCHANGED <<on, cd, calculated, stack>>
  BY DEF vars, market, Quiet
<1>2. TypeOK /\ Shapes /\ Descending /\ Typed
  BY TypesGive DEF IInv
<1>3. TypeOK' /\ Shapes' /\ Descending'
  BY <1>1, <1>2 DEF TypeOK, Shapes, Descending, Quiet, market
<1>4. Stays /\ \A b \in Curves : Standing(b)' <=> Standing(b)
  BY <1>1 DEF Stays, Standing, Solving
<1>5. ASSUME NEW n \in DOMAIN stack'
      PROVE  Kept(stack[n])'
  <2>1. PICK F \in Frames : F = stack[n]
    BY <1>1, <1>2, FramesAre
  <2>2. Kept(F)
    BY <1>1, <2>1 DEF IInv
  <2>3. Kept(F)'
    BY <1>1, <1>2, <1>4, <2>2, KeptStays DEF Kept
  <2> QED
    BY <1>1, <2>1, <2>3
<1> QED
  BY <1>1, <1>3, <1>4, <1>5, QuietKeeps

\* Every step keeps the inductive invariant.
LEMMA NextKeeps ==
  ASSUME IInv, [Next]_vars
  PROVE  IInv'
<1>1. CASE Step
  <2>1. CASE \E c \in Curves : ReadOther(c)
    BY <2>1, ReadOtherKeeps
  <2>2. CASE Try
    BY <2>2, TryKeeps
  <2>3. CASE Solve
    BY <2>3, SolveKeeps
  <2>4. CASE Fail
    BY <2>4, FailKeeps
  <2>5. CASE EndPass
    BY <2>5, EndPassKeeps
  <2> QED
    BY <1>1, <2>1, <2>2, <2>3, <2>4, <2>5 DEF Step
<1>2. CASE \E c \in Curves : Read(c)
  BY <1>2, ReadKeeps
<1>3. CASE \E h \in Helpers : Tell(h) \/ \E q \in Quotes \cup {NoQuote} : SetQuote(h, q)
  BY <1>3, TellKeeps, SetQuoteKeeps
<1>4. CASE \E d \in EvalDates : SetDate(d)
  BY <1>4, SetDateKeeps
<1>5. CASE UNCHANGED vars
  BY <1>5, StutterKeeps
<1> QED
  BY <1>1, <1>2, <1>3, <1>4, <1>5 DEF Next

\* Every reachable state satisfies it.
LEMMA IInvAlways == Spec => []IInv
<1>1. Init => IInv
  BY InitKeeps
<1>2. IInv /\ [Next]_vars => IInv'
  BY NextKeeps
<1> QED
  BY <1>1, <1>2, PTL DEF Spec

\* Curves, nodes, bootstraps and quotes keep their types, and a schedule is of a
\* date there was.
THEOREM TypeCorrect == Spec => []TypeOK
<1>1. IInv => TypeOK
  BY DEF IInv
<1> QED
  BY <1>1, IInvAlways, PTL

\* Whatever quotes, dates, expired helpers and failed bootstraps came before, a
\* curve has as many values as dates, and interpolates over no more: CurveData
\* indexes nothing past its end.
THEOREM ShapesAlwaysMatch == Spec => []ShapesMatch
BY IInvAlways, IInvShapes, PTL

\* No helper asks its own curve for a date past the curve's maximum, during the
\* bootstrap or after it, and a bootstrapped curve has increasing dates: the set-up
\* of each algorithm (IterativeBootstrap, LocalBootstrap, GlobalBootstrap) sees to
\* the first, the interpolation it built at its last step to the second.
THEOREM RangeAlwaysCovers == Spec => []RangeCoversHelpers
BY IInvAlways, IInvRange, PTL

\* A curve whose LazyObject says it is calculated, and which is not at it, has been
\* fitted to each of its helpers at its present quote and schedule, against itself,
\* over the other curves as they are now, and over the whole grid when a helper
\* looks past its pillar: so IterativeBootstrap, LocalBootstrap and
\* GlobalBootstrap, nested in one another, with failures between, keep it.
THEOREM CalculatedIsAlwaysSolved == Spec => []CalculatedIsSolved
BY IInvAlways, IInvSolved, PTL
=============================================================================
