--------------------------- MODULE CountingProofs ---------------------------
(* What the proofs about counters need to know of Total.                   *)
EXTENDS Counting, FiniteSetTheorems, TLAPS

(* The counters of finitely many threads, flows or applications. *)
IsTally(g) == IsFiniteSet(DOMAIN g) /\ g \in [DOMAIN g -> Nat]

(* g with one unit more for x, which may be new. *)
IsOneMore(h, g, x) == /\ DOMAIN h = DOMAIN g \cup {x}
                      /\ h = [y \in DOMAIN h |-> h[y]]
                      /\ h[x] = (IF x \in DOMAIN g THEN g[x] ELSE 0) + 1
                      /\ \A y \in DOMAIN g : y # x => h[y] = g[y]

(* A unit is a pair of a member of the domain and a number. *)
LEMMA UnitsAre ==
    ASSUME NEW g, IsTally(g), NEW u
    PROVE  u \in Units(g) <=> \E x \in DOMAIN g : \E k \in 1..g[x] : u = <<x, k>>
BY DEF Units

(* There are finitely many units, so the total is a number. *)
LEMMA TotalIsNat ==
    ASSUME NEW g, IsTally(g)
    PROVE  IsFiniteSet(Units(g)) /\ Total(g) \in Nat
<1> DEFINE Of == [x \in DOMAIN g |-> {x} \X (1..g[x])]
           All == {Of[x] : x \in DOMAIN g}
<1>1. Of \in Surjection(DOMAIN g, All)
  BY DEF Surjection
<1>2. IsFiniteSet(All)
  BY <1>1, FS_Surjection DEF IsTally
<1>3. ASSUME NEW S \in All PROVE IsFiniteSet(S)
  <2>1. PICK x \in DOMAIN g : S = {x} \X (1..g[x])
    OBVIOUS
  <2>2. 1 \in Int /\ g[x] \in Int
    BY DEF IsTally
  <2>3. IsFiniteSet(1..g[x])
    BY <2>2, FS_Interval
  <2>4. IsFiniteSet({x})
    BY FS_Singleton
  <2> QED
    BY <2>1, <2>3, <2>4, FS_Product
<1>4. IsFiniteSet(UNION All)
  BY <1>2, <1>3, FS_UNION
<1>5. UNION All = Units(g)
  BY DEF Units
<1> QED
  BY <1>4, <1>5, FS_CardinalityType DEF Total

(* Counters that are all zero, or no counters, sum up to zero. *)
LEMMA TotalOfZeros ==
    ASSUME NEW g, \A x \in DOMAIN g : g[x] = 0
    PROVE  Total(g) = 0
<1>1. Units(g) = {}
  BY DEF Units
<1> QED
  BY <1>1, FS_EmptySet DEF Total

(* Counting one more makes the total one more. *)
LEMMA TotalOfOneMore ==
    ASSUME NEW g, IsTally(g), NEW x, NEW h, IsOneMore(h, g, x)
    PROVE  IsTally(h) /\ Total(h) = Total(g) + 1
<1> DEFINE n == IF x \in DOMAIN g THEN g[x] ELSE 0
           u == <<x, n + 1>>
<1>1. n \in Nat /\ h[x] = n + 1 /\ DOMAIN h = DOMAIN g \cup {x}
  BY DEF IsTally, IsOneMore
<1>2. IsTally(h)
  <2>1. IsFiniteSet(DOMAIN h)
    BY <1>1, FS_AddElement DEF IsTally
  <2>2. \A y \in DOMAIN h : h[y] \in Nat
    BY <1>1 DEF IsTally, IsOneMore
  <2>3. h = [y \in DOMAIN h |-> h[y]]
    BY DEF IsOneMore
  <2>4. h \in [DOMAIN h -> Nat]
    BY <2>2, <2>3
  <2> QED
    BY <2>1, <2>4 DEF IsTally
<1> HIDE DEF n
<1>3. u \notin Units(g)
  <2>1. \A k \in 1..g[x] : x \in DOMAIN g => k # n + 1
    BY <1>1 DEF n, IsTally
  <2> QED
    BY <2>1, UnitsAre
<1>4. ASSUME NEW v \in Units(h) PROVE v \in Units(g) \cup {u}
  <2>0. PICK y \in DOMAIN h : \E k \in 1..h[y] : v = <<y, k>>
    BY <1>2, UnitsAre
  <2>1. PICK k \in 1..h[y] : v = <<y, k>>
    BY <2>0
  <2>2. CASE y = x
    <3>1. k = n + 1 \/ (x \in DOMAIN g /\ k \in 1..g[x])
      BY <1>1, <2>1, <2>2 DEF n
    <3> QED
      BY <2>1, <2>2, <3>1, UnitsAre
  <2>3. CASE y # x
    <3>1. y \in DOMAIN g /\ h[y] = g[y]
      BY <1>1, <2>3 DEF IsOneMore
    <3> QED
      BY <2>1, <3>1, UnitsAre
  <2> QED
    BY <2>2, <2>3
<1>5. ASSUME NEW v \in Units(g) PROVE v \in Units(h)
  <2>0. PICK y \in DOMAIN g : \E k \in 1..g[y] : v = <<y, k>>
    BY UnitsAre
  <2>1. PICK k \in 1..g[y] : v = <<y, k>>
    BY <2>0
  <2>2. y \in DOMAIN h /\ g[y] \in Nat /\ (h[y] = g[y] \/ h[y] = g[y] + 1)
    BY <1>1 DEF IsOneMore, IsTally
  <2>3. k \in 1..h[y]
    BY <2>2
  <2> QED
    BY <1>2, <2>1, <2>2, <2>3, UnitsAre
<1>6. u \in Units(h)
  <2>1. x \in DOMAIN h /\ n + 1 \in 1..h[x]
    BY <1>1
  <2> QED
    BY <1>2, <2>1, UnitsAre
<1>7. Units(h) = Units(g) \cup {u}
  BY <1>4, <1>5, <1>6
<1>8. Cardinality(Units(h)) = Cardinality(Units(g)) + 1
  BY <1>3, <1>7, TotalIsNat, FS_AddElement
<1> QED
  BY <1>2, <1>8 DEF Total
=============================================================================
