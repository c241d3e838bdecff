--------------------------- MODULE JobPlanProofs ---------------------------
(***************************************************************************)
(* What SlotScheduler makes of the slots, and what the routers make of the *)
(* graph, for any jobs, graphs, workers and slot counts.                   *)
(***************************************************************************)
EXTENDS JobPlan, FiniteSetTheorems, TLAPS

-----------------------------------------------------------------------------
(* Counting *)

\* A set of numbers has a least one.
LEMMA LeastNumber ==
  ASSUME NEW T, T \subseteq Nat, T # {}
  PROVE  \E m \in T : \A k \in T : m <= k
<1>1. PICK m \in T : \A k \in T : <<k, m>> \notin OpToRel(<, Nat)
  BY NatLessThanWellFounded, WFMin
<1>2. ASSUME NEW k \in T PROVE ~(k < m)
  <2>1. k \in Nat /\ m \in Nat
    OBVIOUS
  <2>2. <<k, m>> \notin {p \in Nat \X Nat : p[1] < p[2]}
    BY <1>1 DEF OpToRel
  <2> QED
    BY <2>1, <2>2
<1>3. \A k \in T : m <= k
  BY <1>2
<1> QED
  BY <1>3

\* How many members of a set of numbers are not behind i.
Rank(F, i) == Cardinality({m \in F : m <= i})

LEMMA RankType ==
  ASSUME NEW b \in Nat, NEW F \in SUBSET Nat, \A m \in F : m <= b
  PROVE  /\ IsFiniteSet(F) /\ Cardinality(F) \in Nat
         /\ \A i \in Int : Rank(F, i) \in Nat /\ Rank(F, i) <= Cardinality(F)
<1>1. IsFiniteSet(F)
  BY FS_BoundedSetOfNaturals
<1>2. ASSUME NEW i \in Int PROVE Rank(F, i) \in Nat /\ Rank(F, i) <= Cardinality(F)
  <2>1. {m \in F : m <= i} \in SUBSET F
    OBVIOUS
  <2> QED
    BY <1>1, <2>1, FS_Subset, FS_CardinalityType DEF Rank
<1> QED
  BY <1>1, <1>2, FS_CardinalityType

LEMMA RankNext ==
  ASSUME NEW b \in Nat, NEW F \in SUBSET Nat, \A m \in F : m <= b, NEW i \in Int
  PROVE  Rank(F, i) = IF i \in F THEN Rank(F, i - 1) + 1 ELSE Rank(F, i - 1)
<1> DEFINE S == {m \in F : m <= i - 1}
           T == {m \in F : m <= i}
<1>1. IsFiniteSet(S)
  BY RankType, FS_Subset
<1>2. \A m \in F : m \in Int
  OBVIOUS
<1>3. i \notin S
  OBVIOUS
<1>4. CASE i \in F
  <2>1. \A m \in F : m <= i <=> m <= i - 1 \/ m = i
    BY <1>2
  <2>2. T = S \cup {i}
    BY <1>4, <2>1
  <2> QED
    BY <1>1, <1>3, <1>4, <2>2, FS_AddElement DEF Rank
<1>5. CASE i \notin F
  <2>1. \A m \in F : m # i
    BY <1>5
  <2>2. \A m \in F : m <= i <=> m <= i - 1
    BY <1>2, <2>1
  <2>3. T = S
    BY <2>2
  <2> QED
    BY <1>5, <2>3 DEF Rank
<1> QED
  BY <1>4, <1>5

LEMMA RankGrows ==
  ASSUME NEW b \in Nat, NEW F \in SUBSET Nat, \A m \in F : m <= b, NEW i \in Int, NEW j \in Int, i <= j
  PROVE  Rank(F, i) <= Rank(F, j) /\ (i < j /\ j \in F => Rank(F, i) < Rank(F, j))
<1>1. ASSUME NEW k \in Int, i <= k PROVE Rank(F, i) <= Rank(F, k)
  <2> DEFINE S == {m \in F : m <= i}
             T == {m \in F : m <= k}
  <2>1. \A m \in F : m \in Int
    OBVIOUS
  <2>0. \A m \in F : m <= i => m <= k
    BY <1>1, <2>1
  <2>2. S \in SUBSET T
    BY <2>0
  <2>3. IsFiniteSet(T)
    BY RankType, FS_Subset
  <2> HIDE DEF S, T
  <2>4. Cardinality(S) <= Cardinality(T)
    BY <2>2, <2>3, FS_Subset
  <2> QED
    BY <2>4 DEF S, T, Rank
<1>2. ASSUME i < j, j \in F PROVE Rank(F, i) < Rank(F, j)
  <2>1. j - 1 \in Int /\ i <= j - 1
    BY <1>2
  <2>2. Rank(F, i) <= Rank(F, j - 1) /\ Rank(F, j) = Rank(F, j - 1) + 1
    BY <1>1, <1>2, <2>1, RankNext
  <2>3. Rank(F, i) \in Nat /\ Rank(F, j - 1) \in Nat
    BY <2>1, RankType
  <2> QED
    BY <2>2, <2>3
<1> QED
  BY <1>1, <1>2

\* Every rank is that of exactly one member.
LEMMA RankOfMember ==
  ASSUME NEW b \in Nat, NEW F \in SUBSET Nat, \A m \in F : m <= b
  PROVE  /\ \A i \in F : Rank(F, i) \in 1..Cardinality(F)
         /\ \A i, j \in F : Rank(F, i) = Rank(F, j) => i = j
         /\ \A r \in 1..Cardinality(F) : \E i \in F : Rank(F, i) = r
<1>1. ASSUME NEW i \in F PROVE Rank(F, i) \in 1..Cardinality(F)
  <2>1. i \in Int /\ i - 1 \in Int
    OBVIOUS
  <2>2. Rank(F, i) = Rank(F, i - 1) + 1
    BY <2>1, RankNext
  <2>3. Rank(F, i - 1) \in Nat /\ Rank(F, i) \in Nat /\ Rank(F, i) <= Cardinality(F)
        /\ Cardinality(F) \in Nat
    BY <2>1, RankType
  <2> QED
    BY <2>2, <2>3
<1>2. ASSUME NEW i \in F, NEW j \in F, Rank(F, i) = Rank(F, j) PROVE i = j
  <2>1. i \in Int /\ j \in Int
    OBVIOUS
  <2>2. Rank(F, i) \in Nat /\ Rank(F, j) \in Nat
    BY <2>1, RankType
  <2>3. ASSUME i < j PROVE Rank(F, i) < Rank(F, j)
    <3>1. i <= j
      BY <2>1, <2>3
    <3> QED
      BY <2>1, <2>3, <3>1, RankGrows
  <2>4. ASSUME j < i PROVE Rank(F, j) < Rank(F, i)
    <3>1. j <= i
      BY <2>1, <2>4
    <3> QED
      BY <2>1, <2>4, <3>1, RankGrows
  <2> QED
    BY <1>2, <2>1, <2>2, <2>3, <2>4
<1>3. ASSUME NEW r \in 1..Cardinality(F) PROVE \E i \in F : Rank(F, i) = r
  <2> DEFINE T == {i \in Nat : r <= Rank(F, i)}
  <2>0. r \in Nat /\ 1 <= r /\ r <= Cardinality(F)
    BY RankType
  <2>1. b \in T
    <3>1. {m \in F : m <= b} = F
      OBVIOUS
    <3> QED
      BY <2>0, <3>1 DEF Rank
  <2>2. PICK i \in T : \A k \in T : i <= k
    BY <2>1, LeastNumber
  <2>3. i \in Nat /\ i - 1 \in Int /\ r <= Rank(F, i)
    OBVIOUS
  <2>4. Rank(F, i - 1) \in Nat /\ Rank(F, i) \in Nat
    BY <2>3, RankType
  <2>5. Rank(F, i - 1) < r
    <3>1. CASE i = 0
      <4>0. \A m \in F : m \in Nat
        OBVIOUS
      <4>1. \A m \in F : ~(m <= i - 1)
        BY <3>1, <4>0
      <4>3. {m \in F : m <= i - 1} = {}
        BY <4>1
      <4>2. Rank(F, i - 1) = 0
        BY <4>3, FS_EmptySet DEF Rank
      <4> QED
        BY <2>0, <4>2
    <3>2. CASE i # 0
      <4>1. i - 1 \in Nat /\ ~(i <= i - 1)
        BY <2>3, <3>2
      <4>2. i - 1 \notin T
        BY <2>2, <4>1
      <4>3. ~(r <= Rank(F, i - 1))
        BY <4>1, <4>2
      <4> QED
        BY <2>0, <2>4, <4>3
    <3> QED
      BY <3>1, <3>2
  <2>8. i \in Int
    BY <2>3
  <2>6. Rank(F, i) = IF i \in F THEN Rank(F, i - 1) + 1 ELSE Rank(F, i - 1)
    BY <2>8, RankNext
  <2>7. i \in F /\ Rank(F, i) = r
    BY <2>0, <2>3, <2>4, <2>5, <2>6
  <2> QED
    BY <2>7
<1> QED
  BY <1>1, <1>2, <1>3

-----------------------------------------------------------------------------
(* Slots and plans *)

\* The workers that may be picked are finitely many, however many there are.
Healthy == healthy \in SUBSET Workers /\ IsFiniteSet(healthy)

LEMMA WorkerType ==
  ASSUME NEW w \in Workers
  PROVE  /\ w \in Nat /\ SlotsOf[w] \in Nat \ {0} /\ SlotsOf[w] - 1 \in Nat
         /\ FreeSlots(w) \in SUBSET Nat /\ \A i \in FreeSlots(w) : i <= SlotsOf[w] - 1
         /\ IsFiniteSet(FreeSlots(w)) /\ Cardinality(FreeSlots(w)) \in 0..SlotsOf[w]
         /\ Used(w) \in Nat
<1>1. w \in Nat /\ SlotsOf[w] \in Nat \ {0}
  BY WorkerAssumption
<1>2. SlotsOf[w] - 1 \in Nat /\ (SlotsOf[w] - 1) + 1 = SlotsOf[w]
  BY <1>1
<1>3. \A i \in FreeSlots(w) : i \in 0..(SlotsOf[w] - 1)
  BY DEF FreeSlots, SlotIds
<1>4. FreeSlots(w) \in SUBSET Nat /\ \A i \in FreeSlots(w) : i <= SlotsOf[w] - 1
  BY <1>2, <1>3
<1>5. IsFiniteSet(FreeSlots(w)) /\ Cardinality(FreeSlots(w)) <= (SlotsOf[w] - 1) + 1
  BY <1>2, <1>4, FS_BoundedSetOfNaturals
<1>6. Cardinality(FreeSlots(w)) \in Nat
  BY <1>5, FS_CardinalityType
<1> QED
  BY <1>1, <1>2, <1>4, <1>5, <1>6 DEF Used

\* The tasks that a plan puts on w.
PlannedAt(w, plan) == {k \in 1..Len(plan) : plan[k] = w}

LEMMA PlannedType ==
  ASSUME NEW S, NEW plan \in Seq(S), NEW w
  PROVE  /\ PlannedAt(w, plan) \in SUBSET Nat /\ \A k \in PlannedAt(w, plan) : k <= Len(plan)
         /\ IsFiniteSet(PlannedAt(w, plan)) /\ Planned(w, plan) = Cardinality(PlannedAt(w, plan))
         /\ Planned(w, plan) \in Nat /\ Len(plan) \in Nat
<1>1. PlannedAt(w, plan) \in SUBSET Nat /\ Len(plan) \in Nat
      /\ \A k \in PlannedAt(w, plan) : k <= Len(plan)
  BY DEF PlannedAt
<1>2. IsFiniteSet(PlannedAt(w, plan))
  BY <1>1, FS_BoundedSetOfNaturals
<1> QED
  BY <1>1, <1>2, FS_CardinalityType DEF PlannedAt, Planned

LEMMA PlannedNext ==
  ASSUME NEW S, NEW plan \in Seq(S), NEW x \in S, NEW w
  PROVE  Planned(w, Append(plan, x)) = IF x = w THEN Planned(w, plan) + 1 ELSE Planned(w, plan)
<1> DEFINE n == Len(plan)
           P == PlannedAt(w, plan)
           Q == PlannedAt(w, Append(plan, x))
<1>1. /\ n \in Nat /\ Len(Append(plan, x)) = n + 1 /\ Append(plan, x)[n + 1] = x
      /\ \A k \in 1..n : k \in 1..(n + 1) /\ k # n + 1 /\ Append(plan, x)[k] = plan[k]
      /\ \A k \in 1..(n + 1) : k \in 1..n \/ k = n + 1
      /\ n + 1 \in 1..(n + 1)
  OBVIOUS
<1>2. Append(plan, x) \in Seq(S)
  OBVIOUS
<1>3. n + 1 \notin P
  BY <1>1 DEF PlannedAt
<1>4. IsFiniteSet(P) /\ Planned(w, plan) = Cardinality(P)
      /\ Planned(w, Append(plan, x)) = Cardinality(Q)
  BY <1>2, PlannedType
<1>5. CASE x = w
  <2>1. Q = P \cup {n + 1}
    BY <1>1, <1>5 DEF PlannedAt
  <2>2. \A F, k : IsFiniteSet(F) /\ k \notin F => Cardinality(F \cup {k}) = Cardinality(F) + 1
    BY FS_AddElement
  <2>3. Cardinality(Q) = Cardinality(P) + 1
    BY <1>3, <1>4, <2>1, <2>2, Zenon
  <2> QED
    BY <1>4, <1>5, <2>3
<1>6. CASE x # w
  <2>1. Q = P
    BY <1>1, <1>6 DEF PlannedAt
  <2> QED
    BY <1>4, <1>6, <2>1
<1> QED
  BY <1>5, <1>6

-----------------------------------------------------------------------------
(* Among workers one is loaded least *)

LEMMA Cancelled ==
  ASSUME NEW d \in Nat \ {0}, NEW x \in Nat, NEW y \in Nat
  PROVE  /\ d * x <= d * y => x <= y
         /\ d * x < d * y => x < y
<1>1. ASSUME y < x PROVE d * y < d * x
  <2>1. PICK e \in Nat \ {0} : x = y + e
    <3>1. x - y \in Nat \ {0} /\ x = y + (x - y)
      BY <1>1
    <3> QED
      BY <3>1
  <2>2. d * x = d * y + d * e
    BY <2>1
  <2>3. d * e \in Nat \ {0}
    OBVIOUS
  <2>4. d * y \in Nat
    OBVIOUS
  <2> QED
    BY <2>2, <2>3, <2>4
<1>2. d * x \in Nat /\ d * y \in Nat
  OBVIOUS
<1>3. ASSUME y = x PROVE d * y = d * x
  BY <1>3
<1> QED
  BY <1>1, <1>2, <1>3

LEMMA Scaled ==
  ASSUME NEW d \in Nat, NEW x \in Nat, NEW y \in Nat
  PROVE  /\ x <= y => d * x <= d * y
         /\ d # 0 /\ x < y => d * x < d * y
<1>1. ASSUME x <= y PROVE d * x <= d * y
  <2>1. PICK e \in Nat : y = x + e
    <3>1. y - x \in Nat /\ y = x + (y - x)
      BY <1>1
    <3> QED
      BY <3>1
  <2>2. d * y = d * x + d * e /\ d * e \in Nat /\ d * x \in Nat
    BY <2>1
  <2> QED
    BY <2>2
<1>2. ASSUME d # 0, x < y PROVE d * x < d * y
  <2>1. d * y \in Nat /\ d * x \in Nat /\ d \in Nat \ {0}
    BY <1>2
  <2>2. ~(d * y <= d * x)
    BY <1>2, <2>1, Cancelled
  <2> QED
    BY <2>1, <2>2
<1> QED
  BY <1>1, <1>2

\* a/b <= c/d and c/d <= e/f.
LEMMA Fractions ==
  ASSUME NEW a \in Nat, NEW c \in Nat, NEW e \in Nat,
         NEW b \in Nat \ {0}, NEW d \in Nat \ {0}, NEW f \in Nat \ {0},
         a * d <= c * b, c * f <= e * d
  PROVE  /\ a * f <= e * b
         /\ a * d < c * b \/ c * f < e * d => a * f < e * b
<1>1. /\ a * d \in Nat /\ c * b \in Nat /\ c * f \in Nat /\ e * d \in Nat
      /\ a * f \in Nat /\ e * b \in Nat
  OBVIOUS
<1>2. f * (a * d) <= f * (c * b) /\ b * (c * f) <= b * (e * d)
  BY <1>1, Scaled
<1>3. /\ f * (a * d) = d * (a * f) /\ f * (c * b) = b * (c * f) /\ b * (e * d) = d * (e * b)
      /\ d * (a * f) \in Nat /\ b * (c * f) \in Nat /\ d * (e * b) \in Nat
  OBVIOUS
<1>4. d * (a * f) <= d * (e * b)
  BY <1>2, <1>3
<1>5. ASSUME a * d < c * b \/ c * f < e * d PROVE d * (a * f) < d * (e * b)
  <2>1. f * (a * d) < f * (c * b) \/ b * (c * f) < b * (e * d)
    BY <1>1, <1>5, Scaled
  <2> QED
    BY <1>2, <1>3, <2>1
<1> QED
  BY <1>1, <1>4, <1>5, Cancelled

Load(w, plan) == Used(w) + Planned(w, plan)

LEMMA BeforeMeans ==
  ASSUME NEW w, NEW u, NEW plan
  PROVE  LET x == Load(w, plan) * SlotsOf[u]
             y == Load(u, plan) * SlotsOf[w] IN
         Before(w, u, plan) <=>
           \/ x < y
           \/ x = y /\ Load(w, plan) < Load(u, plan)
           \/ x = y /\ Load(w, plan) = Load(u, plan) /\ w < u
BY DEF Before, Load

LEMMA BeforeOrders ==
  ASSUME NEW plan \in Seq(Workers), NEW w \in Workers, NEW u \in Workers, NEW v \in Workers
  PROVE  /\ w # u => Before(w, u, plan) \/ Before(u, w, plan)
         /\ Before(w, u, plan) /\ Before(u, v, plan) => Before(w, v, plan)
<1> DEFINE a == Load(w, plan)
           c == Load(u, plan)
           e == Load(v, plan)
           b == SlotsOf[w]
           d == SlotsOf[u]
           f == SlotsOf[v]
<1>1. /\ a \in Nat /\ c \in Nat /\ e \in Nat
      /\ b \in Nat \ {0} /\ d \in Nat \ {0} /\ f \in Nat \ {0}
      /\ w \in Nat /\ u \in Nat /\ v \in Nat
  <2>1. ASSUME NEW x \in Workers
        PROVE  Load(x, plan) \in Nat /\ SlotsOf[x] \in Nat \ {0} /\ x \in Nat
    <3>1. PICK y, z : y = Used(x) /\ z = Planned(x, plan)
      OBVIOUS
    <3>2. y \in Nat
      BY <3>1, WorkerType
    <3>3. z \in Nat
      BY <3>1, PlannedType
    <3>4. Load(x, plan) \in Nat
      BY <3>1, <3>2, <3>3 DEF Load
    <3>5. SlotsOf[x] \in Nat \ {0} /\ x \in Nat
      BY WorkerType
    <3> QED
      BY <3>4, <3>5, Zenon
  <2> QED
    BY <2>1
<1>2. /\ Before(w, u, plan) <=> a * d < c * b \/ (a * d = c * b /\ (a < c \/ (a = c /\ w < u)))
      /\ Before(u, w, plan) <=> c * b < a * d \/ (c * b = a * d /\ (c < a \/ (c = a /\ u < w)))
      /\ Before(u, v, plan) <=> c * f < e * d \/ (c * f = e * d /\ (c < e \/ (c = e /\ u < v)))
      /\ Before(w, v, plan) <=> a * f < e * b \/ (a * f = e * b /\ (a < e \/ (a = e /\ w < v)))
  BY BeforeMeans
<1> HIDE DEF a, b, c, d, e, f
<1>3. /\ a * d \in Nat /\ c * b \in Nat /\ c * f \in Nat /\ e * d \in Nat
      /\ a * f \in Nat /\ e * b \in Nat
  BY <1>1
<1>4. w # u => Before(w, u, plan) \/ Before(u, w, plan)
  BY <1>1, <1>2, <1>3
<1>5. ASSUME Before(w, u, plan), Before(u, v, plan) PROVE Before(w, v, plan)
  <2>1. a * d <= c * b /\ c * f <= e * d
    BY <1>2, <1>3, <1>5
  <2>2. /\ a * f <= e * b
        /\ a * d < c * b \/ c * f < e * d => a * f < e * b
    BY <1>1, <2>1, Fractions
  <2>3. CASE a * d < c * b \/ c * f < e * d
    BY <1>2, <2>2, <2>3
  <2>4. CASE ~(a * d < c * b \/ c * f < e * d)
    <3>1. (a < c \/ (a = c /\ w < u)) /\ (c < e \/ (c = e /\ u < v))
      BY <1>2, <1>5, <2>4
    <3>2. a < e \/ (a = e /\ w < v)
      BY <1>1, <3>1
    <3> QED
      BY <1>2, <1>3, <2>2, <3>2
  <2> QED
    BY <2>3, <2>4
<1> QED
  BY <1>4, <1>5

\* LeastLoaded finds a worker.
LEMMA LeastLoadedExists ==
  ASSUME NEW plan \in Seq(Workers), NEW C \in SUBSET Workers, IsFiniteSet(C), C # {}
  PROVE  /\ LeastLoaded(C, plan) \in C
         /\ \A u \in C \ {LeastLoaded(C, plan)} : Before(LeastLoaded(C, plan), u, plan)
<1> DEFINE First(X) == \E w \in X : \A u \in X \ {w} : Before(w, u, plan)
           Bad == {n \in Nat : \E X \in SUBSET Workers :
                     IsFiniteSet(X) /\ X # {} /\ Cardinality(X) = n /\ ~First(X)}
<1>1. Bad = {}
  <2> SUFFICES ASSUME Bad # {} PROVE FALSE
    OBVIOUS
  <2>1. PICK n \in Bad : \A k \in Bad : n <= k
    BY LeastNumber
  <2>2. PICK X \in SUBSET Workers : IsFiniteSet(X) /\ X # {} /\ Cardinality(X) = n /\ ~First(X)
    OBVIOUS
  <2>3. PICK x \in X : TRUE
    BY <2>2
  <2> DEFINE Y == X \ {x}
  <2>4. /\ IsFiniteSet(Y) /\ Y \in SUBSET Workers /\ Cardinality(Y) = n - 1
        /\ Cardinality(Y) \in Nat /\ n \in Nat
    BY <2>2, FS_RemoveElement, FS_CardinalityType
  <2>5. Y # {}
    <3> SUFFICES ASSUME Y = {} PROVE FALSE
      OBVIOUS
    <3>1. First(X)
      OBVIOUS
    <3> QED
      BY <2>2, <3>1
  <2>6. n - 1 \notin Bad /\ n - 1 \in Nat
    BY <2>1, <2>4
  <2>7. First(Y)
    BY <2>4, <2>5, <2>6
  <2>8. PICK y \in Y : \A u \in Y \ {y} : Before(y, u, plan)
    BY <2>7
  <2>9. x \in Workers /\ y \in Workers /\ x # y /\ \A u \in X : u \in Workers
    OBVIOUS
  <2>10. CASE Before(x, y, plan)
    <3>1. ASSUME NEW u \in X \ {x} PROVE Before(x, u, plan)
      <4>1. CASE u = y
        BY <2>10, <4>1
      <4>2. CASE u # y
        <5>1. Before(y, u, plan)
          BY <2>8, <4>2
        <5> QED
          BY <2>9, <2>10, <5>1, BeforeOrders
      <4> QED
        BY <4>1, <4>2
    <3>2. First(X)
      BY <3>1
    <3> QED
      BY <2>2, <3>2
  <2>11. CASE Before(y, x, plan)
    <3>1. \A u \in X \ {y} : Before(y, u, plan)
      BY <2>8, <2>11
    <3>2. First(X)
      BY <3>1
    <3> QED
      BY <2>2, <3>2
  <2> QED
    BY <2>9, <2>10, <2>11, BeforeOrders
<1>2. Cardinality(C) \in Nat
  BY FS_CardinalityType
<1>3. First(C)
  BY <1>1, <1>2
<1> QED
  BY <1>3 DEF LeastLoaded

-----------------------------------------------------------------------------
(* The plan *)

\* schedule goes on while there is room for the tasks that are left.
LEMMA RoomLeft ==
  ASSUME Healthy, NEW plan \in Seq(Available), Len(plan) < FreeTotal
  PROVE  \E w \in Available : Planned(w, plan) < Cardinality(FreeSlots(w))
<1> DEFINE U == UNION {{w} \X FreeSlots(w) : w \in Available}
           n == Len(plan)
<1> SUFFICES ASSUME \A w \in Available : ~(Planned(w, plan) < Cardinality(FreeSlots(w)))
             PROVE  FALSE
  OBVIOUS
<1>1. \A w \in Available : w \in Workers
  BY DEF Available, Healthy
<1>2. ASSUME NEW s \in U
      PROVE  /\ s = <<s[1], s[2]>> /\ s[1] \in Available /\ s[2] \in FreeSlots(s[1])
             /\ \E k \in PlannedAt(s[1], plan) :
                  Rank(PlannedAt(s[1], plan), k) = Rank(FreeSlots(s[1]), s[2])
  <2>1. s = <<s[1], s[2]>> /\ s[1] \in Available /\ s[2] \in FreeSlots(s[1])
    OBVIOUS
  <2>2. PICK w : w = s[1]
    OBVIOUS
  <2>3. w \in Workers /\ w \in Available
    BY <1>1, <2>1, <2>2
  <2>4. PICK F : F = FreeSlots(w)
    OBVIOUS
  <2>5. PICK P : P = PlannedAt(w, plan)
    OBVIOUS
  <2>6. PICK b : b = SlotsOf[w] - 1
    OBVIOUS
  <2>7. b \in Nat /\ F \in SUBSET Nat /\ \A i \in F : i <= b
    BY <2>3, <2>4, <2>6, WorkerType
  <2>8. PICK m \in Nat : P \in SUBSET Nat /\ \A i \in P : i <= m
    BY <2>5, PlannedType
  <2>9. Cardinality(F) <= Cardinality(P) /\ Cardinality(F) \in Nat /\ Cardinality(P) \in Nat
    BY <2>3, <2>4, <2>5, WorkerType, PlannedType
  <2>10. Rank(F, s[2]) \in 1..Cardinality(F)
    BY <2>1, <2>2, <2>4, <2>7, RankOfMember
  <2>11. Rank(F, s[2]) \in 1..Cardinality(P)
    BY <2>9, <2>10
  <2>12. \E k \in P : Rank(P, k) = Rank(F, s[2])
    <3>1. \A r \in 1..Cardinality(P) : \E k \in P : Rank(P, k) = r
      BY <2>8, RankOfMember
    <3> QED
      BY <2>11, <3>1
  <2> QED
    BY <2>1, <2>2, <2>4, <2>5, <2>12
<1> DEFINE f == [s \in U |-> CHOOSE k \in PlannedAt(s[1], plan) :
                   Rank(PlannedAt(s[1], plan), k) = Rank(FreeSlots(s[1]), s[2])]
<1>3. \A s \in U : /\ f[s] \in PlannedAt(s[1], plan)
                   /\ Rank(PlannedAt(s[1], plan), f[s]) = Rank(FreeSlots(s[1]), s[2])
  BY <1>2
<1>4. \A s \in U : f[s] \in 1..n /\ plan[f[s]] = s[1]
  BY <1>3 DEF PlannedAt
<1>5. f \in [U -> 1..n]
  <2>1. \A s \in U : f[s] \in 1..n
    BY <1>4
  <2> QED
    BY <2>1
<1> HIDE DEF f
<1>6. ASSUME NEW s \in U, NEW t \in U, f[s] = f[t] PROVE s = t
  <2>1. s[1] = t[1]
    BY <1>4, <1>6
  <2>2. Rank(FreeSlots(s[1]), s[2]) = Rank(FreeSlots(s[1]), t[2])
    BY <1>3, <1>6, <2>1
  <2>3. s[1] \in Workers /\ s[2] \in FreeSlots(s[1]) /\ t[2] \in FreeSlots(s[1])
    BY <1>1, <1>2, <2>1
  <2>4. PICK F : F = FreeSlots(s[1])
    OBVIOUS
  <2>5. PICK b : b = SlotsOf[s[1]] - 1
    OBVIOUS
  <2>6. b \in Nat /\ F \in SUBSET Nat /\ \A i \in F : i <= b
    BY <2>3, <2>4, <2>5, WorkerType
  <2>7. s[2] = t[2]
    BY <2>2, <2>3, <2>4, <2>6, RankOfMember
  <2> QED
    BY <1>2, <2>1, <2>7
<1> HIDE DEF U
<1>7. n \in Nat /\ IsFiniteSet(1..n) /\ Cardinality(1..n) = n
  <2>1. PICK m \in Nat : m = n
    OBVIOUS
  <2>2. IsFiniteSet(1..m) /\ Cardinality(1..m) = m
    BY FS_Interval
  <2> QED
    BY <2>1, <2>2, Zenon
<1>8. f \in Injection(U, 1..n)
  BY <1>5, <1>6 DEF Injection, IsInjective
<1>9. Cardinality(U) <= n /\ IsFiniteSet(U)
  BY <1>7, <1>8, FS_Injection
<1>10. Cardinality(U) \in Nat
  BY <1>9, FS_CardinalityType
<1> QED
  BY <1>7, <1>9, <1>10 DEF FreeTotal, U

LEMMA FreeTotalType == Healthy => FreeTotal \in Nat
<1> SUFFICES ASSUME Healthy PROVE FreeTotal \in Nat
  OBVIOUS
<1> DEFINE X == {{w} \X FreeSlots(w) : w \in Available}
           f == [w \in Available |-> {w} \X FreeSlots(w)]
<1>1. IsFiniteSet(Available) /\ \A w \in Available : w \in Workers
  BY FS_Subset DEF Healthy, Available
<1>2. f \in Surjection(Available, X)
  BY DEF Surjection
<1>3. IsFiniteSet(X)
  BY <1>1, <1>2, FS_Surjection
<1>4. ASSUME NEW T \in X PROVE IsFiniteSet(T)
  <2>1. PICK w \in Available : T = {w} \X FreeSlots(w)
    OBVIOUS
  <2>2. IsFiniteSet({w}) /\ IsFiniteSet(FreeSlots(w))
    BY <1>1, WorkerType, FS_Singleton
  <2> QED
    BY <2>1, <2>2, FS_Product
<1>5. IsFiniteSet(UNION X)
  BY <1>3, <1>4, FS_UNION
<1> QED
  BY <1>5, FS_CardinalityType DEF FreeTotal

LEMMA SpreadTargetType ==
  ASSUME Healthy, NEW n \in Nat
  PROVE  /\ SpreadTarget(n) \in Nat /\ IsFiniteSet(Available) /\ Cardinality(Available) \in Nat
         /\ SpreadTarget(n) <= 2 /\ SpreadTarget(n) <= n /\ SpreadTarget(n) <= Cardinality(Available)
         /\ SpreadTarget(n) \in {2, n, Cardinality(Available)}
<1>1. IsFiniteSet(Available) /\ Cardinality(Available) \in Nat
  BY FS_Subset, FS_CardinalityType DEF Healthy, Available
<1> DEFINE X == {2, n, Cardinality(Available)}
<1>2. X \subseteq Nat /\ X # {}
  BY <1>1
<1>3. \E m \in X : \A k \in X : m <= k
  BY <1>2, LeastNumber
<1>4. SpreadTarget(n) \in X /\ \A k \in X : SpreadTarget(n) <= k
  BY <1>3 DEF SpreadTarget
<1> QED
  BY <1>1, <1>2, <1>4

\* A worker that is not in the plan, if there are more workers than tasks in it.
LEMMA UnplannedWorker ==
  ASSUME NEW A, IsFiniteSet(A), NEW plan \in Seq(A), Len(plan) < Cardinality(A)
  PROVE  \E w \in A : Planned(w, plan) = 0
<1> DEFINE T == {plan[k] : k \in 1..Len(plan)}
<1>1. Len(plan) \in Nat /\ Cardinality(A) \in Nat
  BY FS_CardinalityType
<1>2. IsFiniteSet(1..Len(plan)) /\ Cardinality(1..Len(plan)) = Len(plan)
  <2>1. \A m \in Nat : IsFiniteSet(1..m) /\ Cardinality(1..m) = IF 1 > m THEN 0 ELSE m - 1 + 1
    BY FS_Interval
  <2>2. \A m \in Nat : (IF 1 > m THEN 0 ELSE m - 1 + 1) = m
    OBVIOUS
  <2> QED
    BY <1>1, <2>1, <2>2
<1> DEFINE f == [k \in 1..Len(plan) |-> plan[k]]
<1>3. f \in Surjection(1..Len(plan), T)
  BY DEF Surjection
<1>4. IsFiniteSet(T) /\ Cardinality(T) <= Len(plan)
  BY <1>2, <1>3, FS_Surjection
<1>5. T \in SUBSET A /\ T # A
  <2>1. T \in SUBSET A
    OBVIOUS
  <2>2. ~(Cardinality(A) <= Len(plan))
    BY <1>1
  <2> QED
    BY <1>4, <2>1, <2>2, Zenon
<1>6. PICK w \in A : w \notin T
  BY <1>5
<1>7. PlannedAt(w, plan) = {}
  BY <1>6 DEF PlannedAt
<1>8. Planned(w, plan) = 0
  BY <1>7, PlannedType, FS_EmptySet
<1> QED
  BY <1>8

\* For every task that is left there is a candidate.
LEMMA CandidateLeft ==
  ASSUME Healthy, NEW n \in Nat, n <= FreeTotal, NEW plan \in Seq(Available), Len(plan) < n
  PROVE  LET C == Candidates(Available, plan, SpreadTarget(n)) IN
         C \in SUBSET Available /\ C \in SUBSET Workers /\ IsFiniteSet(C) /\ C # {}
<1> DEFINE C == Candidates(Available, plan, SpreadTarget(n))
<1>1. /\ SpreadTarget(n) \in Nat /\ SpreadTarget(n) <= Cardinality(Available)
      /\ IsFiniteSet(Available) /\ Cardinality(Available) \in Nat
  BY SpreadTargetType
<1>2. C \in SUBSET Available /\ IsFiniteSet(C) /\ C \in SUBSET Workers
  BY <1>1, FS_Subset DEF Candidates, Available, Healthy
<1>3. Len(plan) \in Nat /\ FreeTotal \in Nat
  BY FreeTotalType
<1>4. CASE Len(plan) < SpreadTarget(n)
  <2>1. PICK w \in Available : Planned(w, plan) = 0
    BY <1>1, <1>3, <1>4, UnplannedWorker
  <2>2. w \in Workers /\ FreeSlots(w) # {}
    BY DEF Available, Healthy
  <2>3. IsFiniteSet(FreeSlots(w)) /\ Cardinality(FreeSlots(w)) \in Nat
    BY <2>2, WorkerType
  <2>4. Cardinality(FreeSlots(w)) # 0
    BY <2>2, <2>3, FS_EmptySet
  <2>5. w \in C
    BY <2>1, <2>3, <2>4 DEF Candidates
  <2> QED
    BY <1>2, <2>5
<1>5. CASE ~(Len(plan) < SpreadTarget(n))
  <2>1. PICK w \in Available : Planned(w, plan) < Cardinality(FreeSlots(w))
    BY <1>3, RoomLeft
  <2>2. w \in C
    BY <1>5, <2>1 DEF Candidates
  <2> QED
    BY <1>2, <2>2
<1> QED
  BY <1>4, <1>5

\* The next task of a plan for n tasks.
Step(n, plan) == Append(plan, LeastLoaded(Candidates(Available, plan, SpreadTarget(n)), plan))

Written(g, n, m) ==
  /\ g = [k \in 0..m |-> g[k]]
  /\ g[0] = << >> /\ \A k \in 1..m : g[k] = Step(n, g[k - 1])

LEMMA PlanWritten ==
  ASSUME NEW n \in Nat
  PROVE  \E g : Written(g, n, n) /\ PlanOf(n) = g[n]
<1> DEFINE Bad == {m \in Nat : \A g : ~Written(g, n, m)}
<1>1. Bad = {}
  <2> SUFFICES ASSUME Bad # {} PROVE FALSE
    OBVIOUS
  <2>1. PICK m \in Bad : \A k \in Bad : m <= k
    BY LeastNumber
  <2>2. m \in Nat /\ \A g : ~Written(g, n, m)
    OBVIOUS
  <2>3. CASE m = 0
    <3> DEFINE g == [k \in 0..0 |-> << >>]
    <3>1. g = [k \in 0..0 |-> g[k]] /\ g[0] = << >> /\ \A k \in 1..0 : g[k] = Step(n, g[k - 1])
      OBVIOUS
    <3> HIDE DEF g
    <3>2. Written(g, n, 0)
      BY <3>1 DEF Written
    <3> QED
      BY <2>2, <2>3, <3>2
  <2>4. CASE m # 0
    <3>1. m - 1 \in Nat /\ ~(m <= m - 1)
      BY <2>2, <2>4
    <3>2. PICK h : Written(h, n, m - 1)
      BY <2>1, <3>1
    <3> DEFINE g == [k \in 0..m |-> IF k = m THEN Step(n, h[m - 1]) ELSE h[k]]
    <3>3. g[0] = << >>
      BY <2>4, <3>1, <3>2 DEF Written
    <3>4. ASSUME NEW k \in 1..m PROVE g[k] = Step(n, g[k - 1])
      <4>1. k - 1 \in 0..m /\ k - 1 # m /\ k \in 0..m
        BY <2>2
      <4>2. g[k - 1] = h[k - 1]
        BY <4>1
      <4>3. CASE k = m
        BY <4>1, <4>2, <4>3
      <4>4. CASE k # m
        <5>1. k \in 1..(m - 1)
          BY <2>2, <4>4
        <5> QED
          BY <3>2, <4>1, <4>2, <4>4, <5>1 DEF Written
      <4> QED
        BY <4>3, <4>4
    <3>5. g = [k \in 0..m |-> g[k]]
      OBVIOUS
    <3> HIDE DEF g
    <3>6. Written(g, n, m)
      BY <3>3, <3>4, <3>5 DEF Written
    <3> QED
      BY <2>2, <3>6
  <2> QED
    BY <2>3, <2>4
<1>2. PICK g : Written(g, n, n)
  BY <1>1
<1> DEFINE F(h) == [k \in 0..n |-> IF k = 0 THEN << >> ELSE Step(n, h[k - 1])]
<1>3. ASSUME NEW h, h = F(h) PROVE Written(h, n, n)
  <2>1. \A k \in 0..n : h[k] = IF k = 0 THEN << >> ELSE Step(n, h[k - 1])
    BY <1>3
  <2>2. h = [k \in 0..n |-> h[k]]
    BY <1>3
  <2>3. 0 \in 0..n /\ \A k \in 1..n : k \in 0..n /\ k # 0
    OBVIOUS
  <2>4. h[0] = << >> /\ \A k \in 1..n : h[k] = Step(n, h[k - 1])
    BY <2>1, <2>3
  <2> QED
    BY <2>2, <2>4 DEF Written
<1>4. g = F(g)
  <2>1. \A k \in 0..n : g[k] = IF k = 0 THEN << >> ELSE Step(n, g[k - 1])
    <3>1. \A k \in 0..n : k = 0 \/ k \in 1..n
      OBVIOUS
    <3> QED
      BY <1>2, <3>1 DEF Written
  <2> QED
    BY <1>2, <2>1 DEF Written
<1> DEFINE u == CHOOSE h : h = F(h)
<1>5. u = F(u)
  BY <1>4
<1>6. PlanOf(n) = u[n]
  BY DEF PlanOf, Step
<1> QED
  BY <1>3, <1>5, <1>6

Prefix(s, k) == SubSeq(s, 1, k)

LEMMA WholePrefix ==
  ASSUME NEW S, NEW s \in Seq(S)
  PROVE  Prefix(s, Len(s)) = s
BY DEF Prefix

LEMMA PrefixKept ==
  ASSUME NEW S, NEW s \in Seq(S), NEW x, NEW k \in Nat, k <= Len(s), x \in S
  PROVE  Prefix(Append(s, x), k) = Prefix(s, k)
<1>1. SubSeq(Append(s, x), 1, k) = [i \in 1..k |-> Append(s, x)[i]]
  OBVIOUS
<1>2. SubSeq(s, 1, k) = [i \in 1..k |-> s[i]]
  OBVIOUS
<1>3. \A i \in 1..k : Append(s, x)[i] = s[i]
  OBVIOUS
<1> QED
  BY <1>1, <1>2, <1>3 DEF Prefix

\* w is the worker that a plan for n tasks, so far before, puts the next task on.
Picked(w, n, before) ==
  LET C == Candidates(Available, before, SpreadTarget(n)) IN
  w \in C /\ \A u \in C \ {w} : Before(w, u, before)

LEMMA PlanPicks ==
  ASSUME Healthy, NEW n \in Nat, n <= FreeTotal
  PROVE  LET plan == PlanOf(n) IN
         /\ plan \in Seq(Available) /\ Len(plan) = n
         /\ \A w \in Available : Planned(w, plan) <= Cardinality(FreeSlots(w))
         /\ \A k \in 1..n : Picked(plan[k], n, SubSeq(plan, 1, k - 1))
<1>1. PICK g : Written(g, n, n) /\ PlanOf(n) = g[n]
  BY PlanWritten
<1> DEFINE x(k) == LeastLoaded(Candidates(Available, g[k - 1], SpreadTarget(n)), g[k - 1])
           Fits(s, k) == /\ s \in Seq(Available) /\ Len(s) = k
                         /\ \A w \in Available : Planned(w, s) <= Cardinality(FreeSlots(w))
<1>2. g[0] = << >> /\ \A k \in 1..n : g[k] = Append(g[k - 1], x(k))
  BY <1>1 DEF Written, Step
<1> HIDE DEF x
<1>0. \A w \in Available : w \in Workers
  BY DEF Available, Healthy
<1>3. ASSUME NEW k \in 1..n, Fits(g[k - 1], k - 1)
      PROVE  Picked(x(k), n, g[k - 1]) /\ x(k) \in Available /\ Fits(g[k], k)
  <2>1. PICK s, C : s = g[k - 1] /\ C = Candidates(Available, g[k - 1], SpreadTarget(n))
    OBVIOUS
  <2>2. /\ s \in Seq(Available) /\ Len(s) = k - 1 /\ Len(s) < n
        /\ \A w \in Available : Planned(w, s) <= Cardinality(FreeSlots(w))
    BY <1>3, <2>1
  <2>3. C \in SUBSET Available /\ C \in SUBSET Workers /\ IsFiniteSet(C) /\ C # {}
    BY <2>1, <2>2, CandidateLeft
  <2>4. s \in Seq(Workers)
    BY <1>0, <2>2
  <2>5. x(k) \in C /\ \A u \in C \ {x(k)} : Before(x(k), u, s)
    BY <2>1, <2>3, <2>4, LeastLoadedExists DEF x
  <2>6. Picked(x(k), n, g[k - 1]) /\ x(k) \in Available
    BY <2>1, <2>3, <2>5 DEF Picked
  <2>7. g[k] = Append(s, x(k))
    BY <1>2, <2>1
  <2>8. g[k] \in Seq(Available) /\ Len(g[k]) = k
    BY <2>2, <2>6, <2>7
  <2>9. ASSUME NEW w \in Available PROVE Planned(w, g[k]) <= Cardinality(FreeSlots(w))
    <3>1. Planned(w, g[k]) = IF x(k) = w THEN Planned(w, s) + 1 ELSE Planned(w, s)
      BY <2>2, <2>6, <2>7, PlannedNext
    <3>2. CASE x(k) = w
      <4>1. Planned(w, s) < Cardinality(FreeSlots(w))
        BY <2>1, <2>5, <3>2 DEF Candidates
      <4>2. Planned(w, s) \in Nat /\ Cardinality(FreeSlots(w)) \in Nat
        BY <1>0, <2>2, PlannedType, WorkerType
      <4> QED
        BY <3>1, <3>2, <4>1, <4>2
    <3>3. CASE x(k) # w
      BY <2>2, <3>1, <3>3
    <3> QED
      BY <3>2, <3>3
  <2> QED
    BY <2>6, <2>8, <2>9
<1>4. Fits(g[0], 0)
  <2>1. << >> \in Seq(Available) /\ Len(<< >>) = 0
    OBVIOUS
  <2>2. ASSUME NEW w \in Available PROVE Planned(w, << >>) <= Cardinality(FreeSlots(w))
    <3>1. PlannedAt(w, << >>) = {}
      BY DEF PlannedAt
    <3>2. Planned(w, << >>) = 0
      BY <2>1, <3>1, PlannedType, FS_EmptySet
    <3>3. Cardinality(FreeSlots(w)) \in Nat
      BY <1>0, WorkerType
    <3> QED
      BY <3>2, <3>3
  <2> QED
    BY <1>2, <2>1, <2>2
<1> HIDE DEF Fits
<1>5. \A k \in 0..n : Fits(g[k], k)
  <2> DEFINE Bad == {k \in Nat : k \in 0..n /\ ~Fits(g[k], k)}
  <2> SUFFICES ASSUME Bad # {} PROVE FALSE
    OBVIOUS
  <2>1. PICK k \in Bad : \A m \in Bad : k <= m
    BY LeastNumber
  <2>2. k # 0 /\ k \in 0..n /\ ~Fits(g[k], k)
    BY <1>4
  <2>3. k \in 1..n /\ k - 1 \in 0..n /\ ~(k <= k - 1)
    BY <2>2
  <2>4. Fits(g[k - 1], k - 1)
    BY <2>1, <2>3
  <2> QED
    BY <1>3, <2>2, <2>3, <2>4
<1>6. \A k \in 0..n : g[k] \in Seq(Available) /\ Len(g[k]) = k
  BY <1>5 DEF Fits
<1>7. \A k \in 1..n : Picked(x(k), n, g[k - 1]) /\ x(k) \in Available
  <2> SUFFICES ASSUME NEW k \in 1..n PROVE Picked(x(k), n, g[k - 1]) /\ x(k) \in Available
    OBVIOUS
  <2>1. k - 1 \in 0..n
    OBVIOUS
  <2> QED
    BY <1>3, <1>5, <2>1
<1>8. \A m \in 0..n : \A k \in 0..m : SubSeq(g[m], 1, k) = g[k]
  <2> DEFINE Longer(m) == \A k \in 0..m : SubSeq(g[m], 1, k) = g[k]
             Bad == {m \in Nat : m \in 0..n /\ ~Longer(m)}
  <2> SUFFICES \A m \in 0..n : Longer(m)
    OBVIOUS
  <2> HIDE DEF Longer
  <2> SUFFICES ASSUME Bad # {} PROVE FALSE
    OBVIOUS
  <2>1. PICK m \in Bad : \A q \in Bad : m <= q
    BY LeastNumber
  <2>2. PICK k \in 0..m : SubSeq(g[m], 1, k) # g[k]
    BY DEF Longer
  <2>3. m \in 0..n /\ m \in Nat /\ k \in Nat
    OBVIOUS
  <2>4. k # m
    <3>1. SubSeq(g[m], 1, m) = g[m]
      BY <1>6, <2>3
    <3> QED
      BY <2>2, <3>1
  <2>5. m \in 1..n /\ m - 1 \in 0..n /\ k \in 0..(m - 1) /\ ~(m <= m - 1)
    BY <2>3, <2>4
  <2>6. SubSeq(g[m - 1], 1, k) = g[k]
    <3>1. Longer(m - 1)
      BY <2>1, <2>5
    <3> QED
      BY <2>5, <3>1 DEF Longer
  <2>7. PICK s : s = g[m - 1]
    OBVIOUS
  <2>8. s \in Seq(Available) /\ Len(s) = m - 1 /\ g[m] = Append(s, x(m)) /\ x(m) \in Available
    BY <1>2, <1>6, <1>7, <2>5, <2>7
  <2>9. SubSeq(g[m], 1, k) = SubSeq(s, 1, k)
    <3>1. k \in Nat /\ k <= Len(s) /\ s \in Seq(Available) /\ x(m) \in Available
      BY <2>5, <2>8
    <3>3. Prefix(Append(s, x(m)), k) = Prefix(s, k)
      BY <3>1, PrefixKept
    <3> QED
      BY <2>8, <3>3 DEF Prefix
  <2> QED
    BY <2>2, <2>6, <2>7, <2>9
<1>9. PICK plan : plan = g[n]
  OBVIOUS
<1>10. plan = PlanOf(n) /\ plan \in Seq(Available) /\ Len(plan) = n
       /\ \A w \in Available : Planned(w, plan) <= Cardinality(FreeSlots(w))
  <2>1. n \in 0..n
    OBVIOUS
  <2> QED
    BY <1>1, <1>5, <1>9, <2>1 DEF Fits
<1>11. ASSUME NEW k \in 1..n PROVE Picked(plan[k], n, SubSeq(plan, 1, k - 1))
  <2>1. n \in 0..n /\ k \in 0..n /\ k - 1 \in 0..n
    OBVIOUS
  <2>2. SubSeq(plan, 1, k) = g[k] /\ SubSeq(plan, 1, k - 1) = g[k - 1]
    BY <1>8, <1>9, <2>1
  <2>3. SubSeq(plan, 1, k)[k] = plan[k]
    BY <1>10
  <2>4. PICK s : s = g[k - 1]
    OBVIOUS
  <2>5. s \in Seq(Available) /\ Len(s) = k - 1 /\ g[k] = Append(s, x(k))
    BY <1>2, <1>6, <2>1, <2>4
  <2>6. Append(s, x(k))[k] = x(k)
    BY <2>5
  <2> QED
    BY <1>7, <2>2, <2>3, <2>5, <2>6
<1> QED
  BY <1>10, <1>11

-----------------------------------------------------------------------------
(* The graph in topological order *)

Iterates(g, n, S, s0, F) ==
  g \in [0..n -> S] /\ g[0] = s0 /\ \A k \in 1..n : g[k] = F[<<k, g[k - 1]>>]

LEMMA Iterated ==
  ASSUME NEW n \in Nat, NEW S, NEW s0 \in S, NEW F \in [(1..n) \X S -> S]
  PROVE  \E g : Iterates(g, n, S, s0, F)
<1> DEFINE Fits(g, m) == /\ g \in [0..m -> S] /\ g[0] = s0
                         /\ \A k \in 1..m : g[k] = F[<<k, g[k - 1]>>]
           Bad == {m \in Nat : m \in 0..n /\ \A g : ~Fits(g, m)}
<1>1. Bad = {}
  <2> SUFFICES ASSUME Bad # {} PROVE FALSE
    OBVIOUS
  <2>1. PICK m \in Bad : \A k \in Bad : m <= k
    BY LeastNumber
  <2>2. m \in Nat /\ m \in 0..n /\ \A g : ~Fits(g, m)
    OBVIOUS
  <2>3. CASE m = 0
    <3> DEFINE g == [k \in 0..0 |-> s0]
    <3>1. g \in [0..0 -> S] /\ g[0] = s0 /\ \A k \in 1..0 : g[k] = F[<<k, g[k - 1]>>]
      OBVIOUS
    <3> HIDE DEF g
    <3>2. Fits(g, 0)
      BY <3>1
    <3> QED
      BY <2>2, <2>3, <3>2
  <2>4. CASE m # 0
    <3>1. m - 1 \in Nat /\ m - 1 \in 0..n /\ ~(m <= m - 1) /\ m \in 1..n /\ m - 1 \in 0..(m - 1)
      BY <2>2, <2>4
    <3>2. PICK h : Fits(h, m - 1)
      BY <2>1, <3>1
    <3> DEFINE s == F[<<m, h[m - 1]>>]
               g == [k \in 0..m |-> IF k = m THEN s ELSE h[k]]
    <3>3. s \in S
      BY <3>1, <3>2
    <3>4. \A k \in 0..m : k # m => k \in 0..(m - 1)
      BY <2>2
    <3>5. g \in [0..m -> S]
      BY <3>2, <3>3, <3>4
    <3>6. g[0] = s0
      BY <2>2, <2>4, <3>2
    <3>7. ASSUME NEW k \in 1..m PROVE g[k] = F[<<k, g[k - 1]>>]
      <4>1. k - 1 \in 0..m /\ k - 1 # m /\ k \in 0..m
        BY <2>2
      <4>2. g[k - 1] = h[k - 1]
        BY <4>1
      <4>3. CASE k = m
        BY <4>1, <4>2, <4>3
      <4>4. CASE k # m
        <5>1. k \in 1..(m - 1)
          BY <2>2, <4>4
        <5>2. h[k] = F[<<k, h[k - 1]>>]
          BY <3>2, <5>1
        <5> QED
          BY <4>1, <4>2, <4>4, <5>2
      <4> QED
        BY <4>3, <4>4
    <3> HIDE DEF g
    <3>8. Fits(g, m)
      BY <3>5, <3>6, <3>7
    <3> QED
      BY <2>2, <3>8
  <2> QED
    BY <2>3, <2>4
<1>2. n \in 0..n
  OBVIOUS
<1> HIDE DEF Fits
<1>3. PICK g : Fits(g, n)
  <2>1. n \notin Bad
    BY <1>1
  <2> QED
    BY <1>2, <2>1
<1> QED
  BY <1>3 DEF Iterates, Fits

\* The operators of a definition are a list.
Listed(d) == d.operators \in Seq(Range(d.operators))

LEMMA ListedType ==
  ASSUME NEW d, Listed(d)
  PROVE  /\ Len(d.operators) \in Nat /\ DOMAIN d.operators = 1..Len(d.operators)
         /\ \A id \in Ids(d) : /\ Position(d, id) \in 1..Len(d.operators)
                               /\ d.operators[Position(d, id)].id = id
                               /\ Operator(d, id) \in Range(d.operators)
<1>1. Len(d.operators) \in Nat /\ DOMAIN d.operators = 1..Len(d.operators)
  BY DEF Listed
<1>2. ASSUME NEW id \in Ids(d)
      PROVE  /\ Position(d, id) \in 1..Len(d.operators)
             /\ d.operators[Position(d, id)].id = id
  <2>1. \E i \in DOMAIN d.operators : d.operators[i].id = id
    BY DEF Ids, Range
  <2> QED
    BY <1>1, <2>1 DEF Position
<1> QED
  BY <1>1, <1>2 DEF Operator, Range

\* The next operator of the sort.
SortStep(d, done) ==
  LET ready == Ready(d, Range(done)) IN
  IF ready = {} THEN done
  ELSE Append(done, CHOOSE id \in ready : \A other \in ready : Position(d, id) <= Position(d, other))

LEMMA SortStepChoice ==
  ASSUME NEW d, Listed(d), NEW done
  PROVE  \/ Ready(d, Range(done)) = {} /\ SortStep(d, done) = done
         \/ \E id \in Ready(d, Range(done)) : SortStep(d, done) = Append(done, id)
<1> DEFINE ready == Ready(d, Range(done))
           T == {Position(d, id) : id \in ready}
<1>1. CASE ready = {}
  BY <1>1 DEF SortStep
<1>2. CASE ready # {}
  <2>1. \A id \in ready : id \in Ids(d)
    BY DEF Ready
  <2>2. T \subseteq Nat /\ T # {}
    <3>1. \A id \in ready : Position(d, id) \in Nat
      BY <2>1, ListedType
    <3> QED
      BY <1>2, <3>1
  <2>3. PICK m \in T : \A k \in T : m <= k
    BY <2>2, LeastNumber
  <2>4. PICK id \in ready : m = Position(d, id)
    OBVIOUS
  <2>5. \A other \in ready : Position(d, id) <= Position(d, other)
    BY <2>3, <2>4
  <2> DEFINE x == CHOOSE y \in ready : \A other \in ready : Position(d, y) <= Position(d, other)
  <2>6. x \in ready
    BY <2>5
  <2>7. SortStep(d, done) = Append(done, x)
    BY <1>2 DEF SortStep
  <2> QED
    BY <2>6, <2>7
<1> QED
  BY <1>1, <1>2

\* Part of a topological order: operators once each, behind all their upstream ones.
Ordered(d, s) ==
  /\ s \in Seq(Ids(d))
  /\ \A i, k \in 1..Len(s) : s[i] = s[k] => i = k
  /\ \A i \in 1..Len(s) : \A up \in Upstream(d, s[i]) : \E k \in 1..Len(s) : k < i /\ s[k] = up

LEMMA SortStepOrdered ==
  ASSUME NEW d, Listed(d), NEW s, Ordered(d, s)
  PROVE  Ordered(d, SortStep(d, s))
<1>1. CASE SortStep(d, s) = s
  BY <1>1
<1>2. ASSUME NEW id \in Ready(d, Range(s)), SortStep(d, s) = Append(s, id)
      PROVE  Ordered(d, SortStep(d, s))
  <2>1. id \in Ids(d) /\ id \notin Range(s) /\ Upstream(d, id) \subseteq Range(s)
    BY DEF Ready
  <2>2. PICK n : n = Len(s)
    OBVIOUS
  <2>3. s \in Seq(Ids(d)) /\ n \in Nat /\ DOMAIN s = 1..n
    BY <2>2 DEF Ordered
  <2>4. PICK t : t = Append(s, id)
    OBVIOUS
  <2>5. /\ t \in Seq(Ids(d)) /\ Len(t) = n + 1 /\ t[n + 1] = id
        /\ \A i \in 1..n : t[i] = s[i]
    BY <2>1, <2>2, <2>3, <2>4
  <2>6. /\ \A i \in 1..(n + 1) : i \in 1..n \/ i = n + 1
        /\ \A i \in 1..n : i \in 1..(n + 1) /\ i < n + 1
    BY <2>3
  <2>7. \A i \in 1..n : t[i] # id
    BY <2>1, <2>3, <2>5 DEF Range
  <2>8. \A i, k \in 1..(n + 1) : t[i] = t[k] => i = k
    <3>1. \A i, k \in 1..n : s[i] = s[k] => i = k
      BY <2>2 DEF Ordered
    <3> QED
      BY <2>5, <2>6, <2>7, <3>1
  <2>9. ASSUME NEW i \in 1..(n + 1), NEW up \in Upstream(d, t[i])
        PROVE  \E k \in 1..(n + 1) : k < i /\ t[k] = up
    <3>1. CASE i \in 1..n
      <4>1. PICK k \in 1..n : k < i /\ s[k] = up
        BY <2>2, <2>5, <2>9, <3>1 DEF Ordered
      <4> QED
        BY <2>5, <2>6, <4>1
    <3>2. CASE i = n + 1
      <4>1. up \in Range(s)
        BY <2>1, <2>5, <2>9, <3>2
      <4>2. PICK k \in 1..n : s[k] = up
        BY <2>3, <4>1 DEF Range
      <4> QED
        BY <2>5, <2>6, <3>2, <4>2
    <3> QED
      BY <2>6, <3>1, <3>2
  <2>10. Ordered(d, t)
    BY <2>5, <2>8, <2>9 DEF Ordered
  <2> QED
    BY <1>2, <2>4, <2>10
<1> QED
  BY <1>1, <1>2, SortStepChoice

SortedAlong(u, d, n) ==
  /\ u[0] = << >> /\ \A k \in 1..n : u[k] = SortStep(d, u[k - 1])
  /\ \A k \in 0..n : Ordered(d, u[k])

LEMMA SortSteps ==
  ASSUME NEW d, Listed(d)
  PROVE  \E u : SortedAlong(u, d, Len(d.operators)) /\ TopologicalOrder(d) = u[Len(d.operators)]
<1> DEFINE N == Len(d.operators)
           S == {s \in Seq(Ids(d)) : Ordered(d, s)}
           F == [p \in (1..N) \X S |-> SortStep(d, p[2])]
           G(h) == [k \in 0..N |-> IF k = 0 THEN << >> ELSE SortStep(d, h[k - 1])]
<1>1. N \in Nat
  BY ListedType
<1>2. << >> \in S
  BY DEF Ordered
<1>3. \A s \in S : SortStep(d, s) \in S
  <2> SUFFICES ASSUME NEW s \in S PROVE SortStep(d, s) \in S
    OBVIOUS
  <2>1. Ordered(d, SortStep(d, s))
    BY SortStepOrdered
  <2> QED
    BY <2>1 DEF Ordered
<1>4. F \in [(1..N) \X S -> S]
  BY <1>3
<1>5. \A k \in 1..N, s \in S : F[<<k, s>>] = SortStep(d, s)
  OBVIOUS
<1> HIDE DEF S, F, N
<1>6. PICK g \in [0..N -> S] : g[0] = << >> /\ \A k \in 1..N : g[k] = F[<<k, g[k - 1]>>]
  <2>1. \E g : Iterates(g, N, S, << >>, F)
    BY <1>1, <1>2, <1>4, Iterated
  <2> QED
    BY <2>1 DEF Iterates
<1>7. \A k \in 1..N : g[k] = SortStep(d, g[k - 1])
  <2> SUFFICES ASSUME NEW k \in 1..N PROVE g[k] = SortStep(d, g[k - 1])
    OBVIOUS
  <2>1. k - 1 \in 0..N
    BY <1>1
  <2>2. g[k - 1] \in S
    BY <2>1
  <2> QED
    BY <1>5, <1>6, <2>2
<1>8. g = G(g)
  <2>1. \A k \in 0..N : k = 0 \/ k \in 1..N
    BY <1>1
  <2>2. \A k \in 0..N : g[k] = IF k = 0 THEN << >> ELSE SortStep(d, g[k - 1])
    BY <1>6, <1>7, <2>1
  <2> QED
    BY <2>2
<1> DEFINE u == CHOOSE h : h = G(h)
<1>9. u = G(u)
  BY <1>8
<1>10. TopologicalOrder(d) = u[N]
  BY DEF TopologicalOrder, SortStep, N
<1> HIDE DEF u
<1>11. u[0] = << >> /\ \A k \in 1..N : u[k] = SortStep(d, u[k - 1])
  <2>1. \A k \in 0..N : u[k] = IF k = 0 THEN << >> ELSE SortStep(d, u[k - 1])
    BY <1>9
  <2>2. 0 \in 0..N /\ \A k \in 1..N : k \in 0..N /\ k # 0
    BY <1>1
  <2> QED
    BY <2>1, <2>2
<1>12. \A k \in 0..N : u[k] \in S
  <2> DEFINE Bad == {k \in Nat : k \in 0..N /\ u[k] \notin S}
  <2> SUFFICES ASSUME Bad # {} PROVE FALSE
    OBVIOUS
  <2>1. PICK k \in Bad : \A m \in Bad : k <= m
    BY LeastNumber
  <2>2. k # 0 /\ k \in 0..N
    BY <1>2, <1>11
  <2>3. k \in 1..N /\ k - 1 \in 0..N /\ ~(k <= k - 1) /\ k - 1 \in Nat
    BY <1>1, <2>2
  <2>4. u[k - 1] \in S
    BY <2>1, <2>3
  <2> QED
    BY <1>3, <1>11, <2>3, <2>4
<1>13. \A k \in 0..N : Ordered(d, u[k])
  BY <1>12 DEF S
<1>14. SortedAlong(u, d, N)
  BY <1>11, <1>13 DEF SortedAlong
<1> QED
  BY <1>10, <1>14 DEF N

LEMMA SortOrdered ==
  ASSUME NEW d, Listed(d)
  PROVE  Ordered(d, TopologicalOrder(d))
<1>1. PICK n : n = Len(d.operators)
  OBVIOUS
<1>2. PICK u : SortedAlong(u, d, n) /\ TopologicalOrder(d) = u[n]
  BY <1>1, SortSteps
<1>3. n \in 0..n
  BY <1>1, ListedType
<1> QED
  BY <1>2, <1>3 DEF SortedAlong

-----------------------------------------------------------------------------
(* Sequences laid end to end *)

Joined(g, n, seqs, S) ==
  g \in [0..n -> Seq(S)] /\ g[0] = << >> /\ \A k \in 1..n : g[k] = g[k - 1] \o seqs[k]

LEMMA Flattened ==
  ASSUME NEW S, NEW n \in Nat \ {0}, NEW seqs, Len(seqs) = n, \A i \in 1..n : seqs[i] \in Seq(S)
  PROVE  \E g : Joined(g, n, seqs, S) /\ FlattenSeq(seqs) = g[n]
<1> DEFINE F == [p \in (1..n) \X Seq(S) |-> p[2] \o seqs[p[1]]]
           G(h) == [k \in 1..n |-> IF k = 1 THEN seqs[k] ELSE h[k - 1] \o seqs[k]]
<1>1. ASSUME NEW s \in Seq(S), NEW k \in 1..n PROVE s \o seqs[k] \in Seq(S)
  BY <1>1
<1>2. F \in [(1..n) \X Seq(S) -> Seq(S)] /\ \A k \in 1..n, s \in Seq(S) : F[<<k, s>>] = s \o seqs[k]
  BY <1>1
<1> HIDE DEF F
<1>3. PICK g : Iterates(g, n, Seq(S), << >>, F)
  <2>1. << >> \in Seq(S)
    OBVIOUS
  <2> QED
    BY <1>2, <2>1, Iterated
<1>4. g \in [0..n -> Seq(S)] /\ g[0] = << >> /\ \A k \in 1..n : g[k] = F[<<k, g[k - 1]>>]
  BY <1>3 DEF Iterates
<1>5. \A k \in 1..n : k - 1 \in 0..n /\ k \in 0..n /\ (k # 1 => k - 1 \in 1..n)
  OBVIOUS
<1>6. \A k \in 1..n : g[k] = g[k - 1] \o seqs[k]
  BY <1>2, <1>4, <1>5
<1>7. 1 \in 1..n /\ n \in 1..n /\ 0 \in 0..n
  OBVIOUS
<1>8. << >> \o seqs[1] = seqs[1]
  <2>1. PICK s \in Seq(S) : s = seqs[1]
    BY <1>7
  <2>2. << >> \o s = s
    OBVIOUS
  <2> QED
    BY <2>1, <2>2
<1> DEFINE h == [k \in 1..n |-> g[k]]
<1>9. h = G(h)
  <2>1. \A k \in 1..n : h[k] = IF k = 1 THEN seqs[k] ELSE h[k - 1] \o seqs[k]
    <3> SUFFICES ASSUME NEW k \in 1..n PROVE h[k] = IF k = 1 THEN seqs[k] ELSE h[k - 1] \o seqs[k]
      OBVIOUS
    <3>1. CASE k = 1
      <4>1. g[1] = g[0] \o seqs[1]
        BY <1>6, <1>7
      <4> QED
        BY <1>4, <1>8, <3>1, <4>1
    <3>2. CASE k # 1
      BY <1>5, <1>6, <3>2
    <3> QED
      BY <3>1, <3>2
  <2>2. h = [k \in 1..n |-> h[k]]
    OBVIOUS
  <2> HIDE DEF h
  <2> QED
    BY <2>1, <2>2
<1> DEFINE u == CHOOSE f : f = G(f)
<1>10. u = G(u)
  BY <1>9
<1>11. FlattenSeq(seqs) = u[n]
  BY DEF FlattenSeq
<1> HIDE DEF u
<1>12. u[1] = seqs[1] /\ \A k \in 1..n : k # 1 => u[k] = u[k - 1] \o seqs[k]
  BY <1>7, <1>10
<1> DEFINE v == [k \in 0..n |-> IF k = 0 THEN << >> ELSE u[k]]
<1>13. v[0] = << >> /\ \A k \in 1..n : v[k] = u[k] /\ (k # 1 => v[k - 1] = u[k - 1])
  BY <1>5, <1>7
<1>14. v = [k \in 0..n |-> v[k]]
  OBVIOUS
<1> HIDE DEF v
<1>15. ASSUME NEW k \in 1..n PROVE v[k] = v[k - 1] \o seqs[k]
  <2>1. CASE k = 1
    <3>1. v[1] = u[1] /\ 1 - 1 = 0
      BY <1>7, <1>13
    <3> QED
      BY <1>8, <1>12, <1>13, <2>1, <3>1
  <2>2. CASE k # 1
    BY <1>12, <1>13, <2>2
  <2> QED
    BY <2>1, <2>2
<1>16. \A k \in 0..n : v[k] \in Seq(S)
  <2> DEFINE Bad == {k \in Nat : k \in 0..n /\ v[k] \notin Seq(S)}
  <2> SUFFICES ASSUME Bad # {} PROVE FALSE
    OBVIOUS
  <2>1. PICK k \in Bad : \A m \in Bad : k <= m
    BY LeastNumber
  <2>2. k # 0 /\ k \in 0..n
    <3>1. << >> \in Seq(S)
      OBVIOUS
    <3> QED
      BY <1>13, <3>1
  <2>3. k \in 1..n /\ k - 1 \in 0..n /\ ~(k <= k - 1) /\ k - 1 \in Nat
    BY <2>2
  <2>4. v[k - 1] \in Seq(S)
    BY <2>1, <2>3
  <2>5. v[k] \in Seq(S)
    BY <1>1, <1>15, <2>3, <2>4
  <2> QED
    BY <2>5
<1>17. v \in [0..n -> Seq(S)]
  BY <1>14, <1>16
<1>18. Joined(v, n, seqs, S)
  BY <1>13, <1>15, <1>17 DEF Joined
<1>19. FlattenSeq(seqs) = v[n]
  BY <1>7, <1>11, <1>13
<1> QED
  BY <1>18, <1>19

\* Where the k-th element of the i-th sequence is.
At(g, i, k) == Len(g[i - 1]) + k

LEMMA JoinedPlaces ==
  ASSUME NEW S, NEW n \in Nat, NEW seqs, \A i \in 1..n : seqs[i] \in Seq(S),
         NEW g, Joined(g, n, seqs, S)
  PROVE  \A m \in 0..n :
           /\ \A i \in 1..m : \A k \in 1..Len(seqs[i]) :
                At(g, i, k) \in 1..Len(g[i]) /\ At(g, i, k) \in 1..Len(g[m])
                /\ g[m][At(g, i, k)] = seqs[i][k]
           /\ \A x \in 1..Len(g[m]) : \E i \in 1..m : \E k \in 1..Len(seqs[i]) : x = At(g, i, k)
           /\ \A i \in 0..m : Len(g[i]) <= Len(g[m])
<1> DEFINE Laid(m) ==
             /\ \A i \in 1..m : \A k \in 1..Len(seqs[i]) :
                  At(g, i, k) \in 1..Len(g[i]) /\ At(g, i, k) \in 1..Len(g[m])
                  /\ g[m][At(g, i, k)] = seqs[i][k]
             /\ \A x \in 1..Len(g[m]) : \E i \in 1..m : \E k \in 1..Len(seqs[i]) : x = At(g, i, k)
             /\ \A i \in 0..m : Len(g[i]) <= Len(g[m])
           Bad == {m \in Nat : m \in 0..n /\ ~Laid(m)}
<1>1. /\ g[0] = << >> /\ \A k \in 0..n : g[k] \in Seq(S) /\ Len(g[k]) \in Nat
      /\ \A k \in 1..n : g[k] = g[k - 1] \o seqs[k] /\ Len(seqs[k]) \in Nat
  <2>1. g \in [0..n -> Seq(S)] /\ g[0] = << >> /\ \A k \in 1..n : g[k] = g[k - 1] \o seqs[k]
    BY DEF Joined
  <2>2. \A k \in 0..n : g[k] \in Seq(S)
    BY <2>1
  <2>3. \A s \in Seq(S) : Len(s) \in Nat
    OBVIOUS
  <2>4. \A k \in 0..n : Len(g[k]) \in Nat
    BY <2>2, <2>3
  <2>5. \A k \in 1..n : Len(seqs[k]) \in Nat
    BY <2>3
  <2> QED
    BY <2>1, <2>2, <2>4, <2>5
<1>2. ASSUME NEW m \in 1..n, Laid(m - 1) PROVE Laid(m)
  <2>1. m \in Nat /\ m - 1 \in Nat /\ m - 1 \in 0..n /\ m \in 0..n
    OBVIOUS
  <2>2. PICK s \in Seq(S) : s = g[m - 1]
    BY <1>1, <2>1
  <2>3. PICK t \in Seq(S) : t = seqs[m]
    OBVIOUS
  <2>4. g[m] = s \o t
    BY <1>1, <2>2, <2>3
  <2>5. /\ Len(g[m]) = Len(s) + Len(t) /\ Len(s) \in Nat /\ Len(t) \in Nat
        /\ \A x \in 1..Len(s) : g[m][x] = s[x]
        /\ \A x \in 1..Len(t) : g[m][Len(s) + x] = t[x]
    BY <2>4
  <2>6. \A i \in 1..m : i \in 1..(m - 1) \/ i = m
    BY <2>1
  <2>7. ASSUME NEW i \in 1..m, NEW k \in 1..Len(seqs[i])
        PROVE  /\ At(g, i, k) \in 1..Len(g[i]) /\ At(g, i, k) \in 1..Len(g[m])
               /\ g[m][At(g, i, k)] = seqs[i][k]
    <3>1. CASE i \in 1..(m - 1)
      <4>1. At(g, i, k) \in 1..Len(g[i]) /\ At(g, i, k) \in 1..Len(s) /\ s[At(g, i, k)] = seqs[i][k]
        BY <1>2, <2>2, <2>7, <3>1
      <4>2. At(g, i, k) \in 1..Len(g[m])
        BY <2>5, <4>1
      <4> QED
        BY <2>5, <4>1, <4>2
    <3>2. CASE i = m
      <4>1. At(g, i, k) = Len(s) + k /\ k \in 1..Len(t)
        BY <2>2, <2>3, <2>7, <3>2 DEF At
      <4>2. Len(s) + k \in 1..(Len(s) + Len(t))
        BY <2>5, <4>1
      <4> QED
        BY <2>3, <2>5, <3>2, <4>1, <4>2
    <3> QED
      BY <2>6, <3>1, <3>2
  <2>8. ASSUME NEW x \in 1..Len(g[m])
        PROVE  \E i \in 1..m : \E k \in 1..Len(seqs[i]) : x = At(g, i, k)
    <3>1. CASE x \in 1..Len(s)
      <4>1. PICK i \in 1..(m - 1) : \E k \in 1..Len(seqs[i]) : x = At(g, i, k)
        BY <1>2, <2>2, <3>1
      <4>2. i \in 1..m
        BY <2>1
      <4> QED
        BY <4>1, <4>2
    <3>2. CASE x \notin 1..Len(s)
      <4>1. x \in Int /\ 1 <= x /\ x <= Len(s) + Len(t)
        BY <2>5, <2>8
      <4>2. x - Len(s) \in 1..Len(t) /\ x = Len(s) + (x - Len(s))
        BY <2>5, <3>2, <4>1
      <4>3. x = At(g, m, x - Len(s))
        BY <2>2, <4>2 DEF At
      <4>4. m \in 1..m
        BY <2>1
      <4> QED
        BY <2>3, <4>2, <4>3, <4>4
    <3> QED
      BY <3>1, <3>2
  <2>9. ASSUME NEW i \in 0..m PROVE Len(g[i]) <= Len(g[m])
    <3>1. CASE i = m
      BY <2>5, <3>1
    <3>2. CASE i # m
      <4>1. i \in 0..(m - 1) /\ i \in 0..n
        BY <2>1, <3>2
      <4>2. Len(g[i]) <= Len(s) /\ Len(g[i]) \in Nat
        BY <1>1, <1>2, <2>2, <4>1
      <4> QED
        BY <2>5, <4>2
    <3> QED
      BY <3>1, <3>2
  <2> QED
    BY <2>7, <2>8, <2>9
<1>3. Laid(0)
  <2>1. Len(g[0]) = 0
    BY <1>1
  <2>2. 1..0 = {} /\ \A i \in 0..0 : i = 0
    OBVIOUS
  <2> QED
    BY <2>1, <2>2
<1> HIDE DEF Laid
<1>4. Bad = {}
  <2> SUFFICES ASSUME Bad # {} PROVE FALSE
    OBVIOUS
  <2>1. PICK m \in Bad : \A q \in Bad : m <= q
    BY LeastNumber
  <2>2. m \in 0..n /\ ~Laid(m) /\ m # 0
    BY <1>3
  <2>3. m \in 1..n /\ m - 1 \in 0..n /\ ~(m <= m - 1) /\ m - 1 \in Nat
    BY <2>2
  <2>4. Laid(m - 1)
    BY <2>1, <2>3
  <2> QED
    BY <1>2, <2>2, <2>3, <2>4
<1>5. \A m \in 0..n : Laid(m)
  BY <1>4
<1> QED
  BY <1>5 DEF Laid

-----------------------------------------------------------------------------
(* The answers to the jobs *)

\* What is known of a definition: it was offered, and accepted ones pass the checks.
Offered ==
  /\ definition = [j \in Jobs |-> definition[j]]
  /\ answer \in [Jobs -> {"none", "accepted", "refused"}]
  /\ \A j \in Jobs : answer[j] # "refused" => \E f \in Offers : definition[j] = f[j]
  /\ \A j \in Jobs : answer[j] = "accepted" => Accepts(definition[j])

LEMMA OfferedInit == Init => Offered
<1> SUFFICES ASSUME Init PROVE Offered
  OBVIOUS
<1>1. definition \in Offers /\ answer = [j \in Jobs |-> "none"]
  BY DEF Init
<1>2. definition = [j \in Jobs |-> definition[j]]
  <2>1. PICK f \in Offers : definition = f
    BY <1>1
  <2>2. f = [j \in Jobs |-> f[j]]
    BY PlanAssumption
  <2> QED
    BY <1>1, <2>1, <2>2
<1>3. \A j \in Jobs : answer[j] = "none"
  BY <1>1
<1> QED
  BY <1>1, <1>2, <1>3 DEF Offered

LEMMA OfferedNext == Offered /\ [Next]_vars => Offered'
<1> SUFFICES ASSUME Offered, [Next]_vars PROVE Offered'
  OBVIOUS
<1>1. CASE UNCHANGED <<definition, answer>>
  BY <1>1 DEF Offered
<1>2. ASSUME NEW j \in Jobs, Submit(j) PROVE Offered'
  <2>1. /\ Accepts(definition[j]) /\ answer[j] = "none" /\ definition' = definition
        /\ answer' = [answer EXCEPT ![j] = "accepted"]
    BY <1>2 DEF Submit
  <2>2. answer' \in [Jobs -> {"none", "accepted", "refused"}]
    BY <2>1 DEF Offered
  <2>3. ASSUME NEW i \in Jobs
        PROVE  /\ answer'[i] # "refused" => \E f \in Offers : definition'[i] = f[i]
               /\ answer'[i] = "accepted" => Accepts(definition'[i])
    BY <2>1 DEF Offered
  <2> QED
    BY <2>1, <2>2, <2>3 DEF Offered
<1>3. ASSUME NEW j \in Jobs, Refuse(j) PROVE Offered'
  <2>1. /\ answer[j] = "none" /\ definition' = [definition EXCEPT ![j] = NoDefinition]
        /\ answer' = [answer EXCEPT ![j] = "refused"]
    BY <1>3 DEF Refuse
  <2>2. answer' \in [Jobs -> {"none", "accepted", "refused"}]
    BY <2>1 DEF Offered
  <2>3. definition' = [i \in Jobs |-> definition'[i]]
    BY <2>1 DEF Offered
  <2>4. ASSUME NEW i \in Jobs
        PROVE  /\ answer'[i] # "refused" => \E f \in Offers : definition'[i] = f[i]
               /\ answer'[i] = "accepted" => Accepts(definition'[i])
    <3>1. CASE i = j
      BY <2>1, <3>1 DEF Offered
    <3>2. CASE i # j
      <4>1. answer'[i] = answer[i] /\ definition'[i] = definition[i]
        BY <2>1, <3>2 DEF Offered
      <4> QED
        BY <4>1 DEF Offered
    <3> QED
      BY <3>1, <3>2
  <2> QED
    BY <2>2, <2>3, <2>4 DEF Offered
<1>4. ASSUME NEW j \in Jobs, Finish(j) PROVE Offered'
  <2>1. answer[j] = "accepted" /\ definition' = definition /\ answer' = [answer EXCEPT ![j] = "none"]
    BY <1>4 DEF Finish
  <2>2. answer' \in [Jobs -> {"none", "accepted", "refused"}]
    BY <2>1 DEF Offered
  <2>3. ASSUME NEW i \in Jobs
        PROVE  /\ answer'[i] # "refused" => \E f \in Offers : definition'[i] = f[i]
               /\ answer'[i] = "accepted" => Accepts(definition'[i])
    BY <2>1 DEF Offered
  <2> QED
    BY <2>1, <2>2, <2>3 DEF Offered
<1> QED
  BY <1>1, <1>2, <1>3, <1>4 DEF Next, vars

LEMMA OfferedAlways == Spec => []Offered
BY OfferedInit, OfferedNext, PTL DEF Spec

\* An operator has subtasks.
LEMMA SizeType == ASSUME NEW o, WellFormed(o) PROVE o.parallelism \in Nat \ {0}
<1>1. PICK b \in Nat : b = 1024
  OBVIOUS
<1>2. o.parallelism \in 1..b
  BY <1>1 DEF WellFormed
<1>3. \A m \in 1..b : m \in Nat \ {0}
  OBVIOUS
<1> QED
  BY <1>2, <1>3, Zenon

\* Operators of an accepted definition.
LEMMA OperatorType ==
  ASSUME NEW d, \A o \in Range(d.operators) : WellFormed(o), NEW id \in Ids(d)
  PROVE  /\ Operator(d, id) \in Range(d.operators) /\ Operator(d, id).id = id
         /\ Operator(d, id).parallelism \in Nat \ {0}
<1>1. \E i \in DOMAIN d.operators : d.operators[i].id = id
  BY DEF Ids, Range
<1>2. Operator(d, id) \in Range(d.operators) /\ Operator(d, id).id = id
  BY <1>1 DEF Operator, Position, Range
<1>3. PICK o : o = Operator(d, id)
  OBVIOUS
<1> HIDE DEF Operator
<1>4. WellFormed(o)
  BY <1>2, <1>3, Zenon
<1>5. o.parallelism \in Nat \ {0}
  BY <1>4, SizeType, Zenon
<1> QED
  BY <1>2, <1>3, <1>5, Zenon

LEMMA RoutesStayInGraph ==
  ASSUME NEW j, NEW d, Accepts(d), NEW e \in Edges(d), NEW key \in Keys,
         NEW k \in Subtasks(d, e[1]), NEW m \in Route(d, e, k, key)
  PROVE  [source |-> <<j, e[1], k>>, target |-> <<j, e[2], m>>] \in Channels(j, d)
<1>1. e[1] \in Ids(d) /\ e[2] \in Ids(d)
  BY DEF Accepts, ValidEdges
<1>2. PICK p, q \in Nat \ {0} : p = Operator(d, e[1]).parallelism /\ q = Operator(d, e[2]).parallelism
  BY <1>1, OperatorType DEF Accepts
<1>3. k \in 0..(p - 1) /\ Subtasks(d, e[2]) = 0..(q - 1)
  BY <1>2 DEF Subtasks
<1>4. m \in Subtasks(d, e[2]) /\ (Partitioning(d, e) = "forward" => k = m)
  <2>1. CASE Partitioning(d, e) = "forward"
    <3>1. p = q
      BY <1>2, <2>1 DEF Partitioning
    <3> QED
      BY <1>3, <2>1, <3>1 DEF Route
  <2>2. CASE Partitioning(d, e) = "hash"
    <3>1. m = key % q /\ key \in Nat
      BY <1>2, <2>2, PlanAssumption DEF Route
    <3>2. key % q \in 0..(q - 1)
      BY <3>1
    <3> QED
      BY <1>3, <2>2, <3>1, <3>2
  <2>3. CASE Partitioning(d, e) \notin {"forward", "hash"}
    BY <2>3 DEF Route
  <2> QED
    BY <2>1, <2>2, <2>3
<1>5. <<k, m>> \in Linked(d, e)
  BY <1>4 DEF Linked
<1>6. [source |-> <<j, e[1], <<k, m>>[1]>>, target |-> <<j, e[2], <<k, m>>[2]>>]
      \in {[source |-> <<j, e[1], l[1]>>, target |-> <<j, e[2], l[2]>>] : l \in Linked(d, e)}
  BY <1>5
<1> QED
  BY <1>6 DEF Channels

\* Every subtask a router may pick is one its task has a channel to: the edge of a
\* key goes to the number of the key modulo the parallelism of the target, an edge
\* without keys to the same subtask if, and only if, the parallelism is equal
\* (ShuffleRouter.route against ExecutionGraph).
THEOREM RoutesMeetChannels == Spec => []RoutesHaveChannels
<1>1. Offered => RoutesHaveChannels
  <2> SUFFICES ASSUME Offered PROVE RoutesHaveChannels
    OBVIOUS
  <2>1. \A j \in Accepted : Accepts(definition[j])
    BY DEF Offered, Accepted
  <2> QED
    BY <2>1, RoutesStayInGraph DEF RoutesHaveChannels
<1> QED
  BY <1>1, OfferedAlways, PTL

-----------------------------------------------------------------------------
(* The slots that a plan reserves *)

LEMMA PlannedRank ==
  ASSUME NEW S, NEW plan \in Seq(S), NEW w, NEW k \in 1..Len(plan)
  PROVE  Planned(w, SubSeq(plan, 1, k)) = Rank(PlannedAt(w, plan), k)
<1> DEFINE t == SubSeq(plan, 1, k)
<1>1. t \in Seq(S) /\ Len(t) = k /\ \A i \in 1..k : t[i] = plan[i]
  OBVIOUS
<1>2. \A i \in Nat : i \in 1..k <=> i \in 1..Len(plan) /\ i <= k
  OBVIOUS
<1>3. PlannedAt(w, t) = {i \in PlannedAt(w, plan) : i <= k}
  <2>1. \A i : i \in PlannedAt(w, t) <=> i \in 1..k /\ plan[i] = w
    BY <1>1 DEF PlannedAt
  <2>2. \A i : i \in PlannedAt(w, plan) <=> i \in 1..Len(plan) /\ plan[i] = w
    BY DEF PlannedAt
  <2>3. \A i : i \in 1..k => i \in 1..Len(plan) /\ i <= k
    BY <1>2
  <2>4. \A i \in 1..Len(plan) : i <= k => i \in 1..k
    BY <1>2
  <2> QED
    BY <2>1, <2>2, <2>3, <2>4
<1>4. Planned(w, t) = Cardinality(PlannedAt(w, t))
  BY <1>1, PlannedType
<1> QED
  BY <1>3, <1>4 DEF Rank

LEMMA ReservedRank ==
  ASSUME NEW w \in Workers, NEW r \in 1..Cardinality(FreeSlots(w))
  PROVE  ReservedSlot(w, r) \in FreeSlots(w) /\ Rank(FreeSlots(w), ReservedSlot(w, r)) = r
<1>1. PICK F : F = FreeSlots(w)
  OBVIOUS
<1>2. PICK b \in Nat : F \in SUBSET Nat /\ \A i \in F : i <= b
  BY <1>1, WorkerType
<1>3. \E i \in F : Rank(F, i) = r
  <2>1. \A m \in 1..Cardinality(F) : \E i \in F : Rank(F, i) = m
    BY <1>2, RankOfMember
  <2> QED
    BY <1>1, <2>1, Zenon
<1> QED
  BY <1>1, <1>3 DEF ReservedSlot, Rank

\* The slot of the k-th task.
SlotAt(plan, k) == <<plan[k], ReservedSlot(plan[k], Planned(plan[k], SubSeq(plan, 1, k)))>>

LEMMA SlotsReserved ==
  ASSUME Healthy, NEW n \in Nat, n <= FreeTotal, NEW plan, plan = PlanOf(n)
  PROVE  /\ \A k \in 1..n : \E w \in Available : \E i \in FreeSlots(w) :
              /\ SlotAt(plan, k) = <<w, i>> /\ plan[k] = w
              /\ Rank(FreeSlots(w), i) = Rank(PlannedAt(w, plan), k)
         /\ \A k, m \in 1..n : SlotAt(plan, k) = SlotAt(plan, m) => k = m
         /\ \A k \in 1..n : \A i \in FreeSlots(plan[k]) :
              i < SlotAt(plan, k)[2] => \E m \in 1..n : SlotAt(plan, m) = <<plan[k], i>>
<1>1. /\ plan \in Seq(Available) /\ Len(plan) = n
      /\ \A w \in Available : Planned(w, plan) <= Cardinality(FreeSlots(w))
  BY PlanPicks
<1>2. \A w \in Available : w \in Workers
  BY DEF Available, Healthy
<1>3. ASSUME NEW k \in 1..n
      PROVE  /\ plan[k] \in Available /\ k \in PlannedAt(plan[k], plan)
             /\ \E i \in FreeSlots(plan[k]) :
                  /\ SlotAt(plan, k) = <<plan[k], i>>
                  /\ Rank(FreeSlots(plan[k]), i) = Rank(PlannedAt(plan[k], plan), k)
  <2>1. PICK w : w = plan[k]
    OBVIOUS
  <2>2. w \in Available /\ w \in Workers
    BY <1>1, <1>2, <2>1
  <2>3. PICK P : P = PlannedAt(w, plan)
    OBVIOUS
  <2>4. PICK m \in Nat : P \in SUBSET Nat /\ \A i \in P : i <= m
    BY <1>1, <2>3, PlannedType
  <2>5. Cardinality(P) = Planned(w, plan)
    BY <1>1, <2>3, PlannedType
  <2>6. k \in P
    BY <1>1, <2>1, <2>3 DEF PlannedAt
  <2>7. Rank(P, k) \in 1..Cardinality(P)
    BY <2>4, <2>6, RankOfMember
  <2>8. Cardinality(P) <= Cardinality(FreeSlots(w)) /\ Cardinality(FreeSlots(w)) \in Nat
        /\ Cardinality(P) \in Nat
    BY <1>1, <2>2, <2>3, <2>5, WorkerType, PlannedType
  <2>9. PICK r : r = Rank(P, k)
    OBVIOUS
  <2>10. r \in 1..Cardinality(FreeSlots(w))
    BY <2>7, <2>8, <2>9
  <2>11. Planned(w, SubSeq(plan, 1, k)) = r
    BY <1>1, <2>3, <2>9, PlannedRank
  <2>12. SlotAt(plan, k) = <<w, ReservedSlot(w, r)>>
    BY <2>1, <2>11 DEF SlotAt
  <2>13. ReservedSlot(w, r) \in FreeSlots(w) /\ Rank(FreeSlots(w), ReservedSlot(w, r)) = r
    BY <2>2, <2>10, ReservedRank
  <2> QED
    BY <2>1, <2>2, <2>3, <2>6, <2>9, <2>12, <2>13
<1>4. ASSUME NEW k \in 1..n, NEW m \in 1..n, SlotAt(plan, k) = SlotAt(plan, m) PROVE k = m
  <2>1. PICK i \in FreeSlots(plan[k]) :
          /\ SlotAt(plan, k) = <<plan[k], i>>
          /\ Rank(FreeSlots(plan[k]), i) = Rank(PlannedAt(plan[k], plan), k)
    BY <1>3
  <2>2. PICK h \in FreeSlots(plan[m]) :
          /\ SlotAt(plan, m) = <<plan[m], h>>
          /\ Rank(FreeSlots(plan[m]), h) = Rank(PlannedAt(plan[m], plan), m)
    BY <1>3
  <2>3. plan[k] = plan[m] /\ i = h
    <3>1. <<plan[k], i>> = <<plan[m], h>>
      BY <1>4, <2>1, <2>2, Zenon
    <3> QED
      BY <3>1
  <2>4. PICK P : P = PlannedAt(plan[k], plan)
    OBVIOUS
  <2>5. PICK b \in Nat : P \in SUBSET Nat /\ \A x \in P : x <= b
    BY <1>1, <2>4, PlannedType
  <2>6. k \in P /\ m \in P /\ Rank(P, k) = Rank(P, m)
    BY <1>3, <2>1, <2>2, <2>3, <2>4
  <2> QED
    BY <2>5, <2>6, RankOfMember
<1>5. ASSUME NEW k \in 1..n, NEW i \in FreeSlots(plan[k]), i < SlotAt(plan, k)[2]
      PROVE  \E m \in 1..n : SlotAt(plan, m) = <<plan[k], i>>
  <2>1. PICK w : w = plan[k]
    OBVIOUS
  <2>2. w \in Available /\ w \in Workers
    BY <1>1, <1>2, <2>1
  <2>3. PICK h \in FreeSlots(w) :
          SlotAt(plan, k) = <<w, h>> /\ Rank(FreeSlots(w), h) = Rank(PlannedAt(w, plan), k)
    BY <1>3, <2>1
  <2>4. i < h /\ i \in FreeSlots(w)
    BY <1>5, <2>1, <2>3
  <2>5. PICK F : F = FreeSlots(w)
    OBVIOUS
  <2>6. PICK b \in Nat : F \in SUBSET Nat /\ \A x \in F : x <= b
    BY <2>2, <2>5, WorkerType
  <2>7. i \in Int /\ h \in Int /\ i \in F /\ h \in F /\ i <= h
    BY <2>4, <2>5, <2>6
  <2>8. Rank(F, i) < Rank(F, h) /\ Rank(F, i) \in 1..Cardinality(F)
    BY <2>4, <2>6, <2>7, RankGrows, RankOfMember
  <2>9. PICK P : P = PlannedAt(w, plan)
    OBVIOUS
  <2>10. PICK c \in Nat : P \in SUBSET Nat /\ \A x \in P : x <= c
    BY <1>1, <2>9, PlannedType
  <2>11. k \in P
    BY <1>3, <2>1, <2>9
  <2>12. Rank(P, k) \in 1..Cardinality(P) /\ Rank(P, k) = Rank(F, h)
    BY <2>3, <2>5, <2>9, <2>10, <2>11, RankOfMember
  <2>13. Rank(F, i) \in 1..Cardinality(P)
    <3>1. Cardinality(F) \in Nat /\ Cardinality(P) \in Nat
      BY <2>6, <2>10, RankType
    <3> QED
      BY <2>8, <2>12, <3>1
  <2>14. PICK m \in P : Rank(P, m) = Rank(F, i)
    BY <2>10, <2>13, RankOfMember
  <2>15. m \in 1..n /\ plan[m] = w
    BY <1>1, <2>9 DEF PlannedAt
  <2>16. PICK g \in FreeSlots(w) :
           SlotAt(plan, m) = <<w, g>> /\ Rank(FreeSlots(w), g) = Rank(PlannedAt(w, plan), m)
    BY <1>3, <2>15
  <2>17. g \in F /\ Rank(F, g) = Rank(F, i)
    BY <2>5, <2>9, <2>14, <2>16
  <2>18. g = i
    BY <2>6, <2>7, <2>17, RankOfMember
  <2> QED
    BY <2>1, <2>15, <2>16, <2>18
<1>6. ASSUME NEW k \in 1..n
      PROVE  \E w \in Available : \E i \in FreeSlots(w) :
               /\ SlotAt(plan, k) = <<w, i>> /\ plan[k] = w
               /\ Rank(FreeSlots(w), i) = Rank(PlannedAt(w, plan), k)
  BY <1>3
<1> QED
  BY <1>4, <1>5, <1>6


-----------------------------------------------------------------------------
(* The tasks of a job *)

Sized(d) == Listed(d) /\ \A o \in Range(d.operators) : WellFormed(o)

Width(d, id) == Operator(d, id).parallelism

Tasks(j, d) == {j} \X Ids(d) \X Nat

\* Operator by operator, in the order given; g are the beginnings of the blocks.
Expands(g, j, d, order) ==
  LET x == Expanded(j, d, order)
      n == Len(order)
  IN /\ \A i \in 1..n : \A k \in 1..Width(d, order[i]) :
          At(g, i, k) \in 1..Len(x) /\ x[At(g, i, k)] = <<j, order[i], k - 1>>
     /\ \A y \in 1..Len(x) : \E i \in 1..n : \E k \in 1..Width(d, order[i]) : y = At(g, i, k)
     /\ \A i, h \in 1..n : i < h =>
          \A k \in 1..Width(d, order[i]) : \A m \in 1..Width(d, order[h]) : At(g, i, k) < At(g, h, m)

LEMMA ExpandedPlaces ==
  ASSUME NEW j, NEW d, Sized(d), NEW order \in Seq(Ids(d)), order # << >>
  PROVE  Expanded(j, d, order) \in Seq(Tasks(j, d)) /\ \E g : Expands(g, j, d, order)
<1>1. PICK n \in Nat \ {0} : n = Len(order) /\ DOMAIN order = 1..n
  <2>1. Len(order) \in Nat \ {0} /\ DOMAIN order = 1..Len(order)
    OBVIOUS
  <2> QED
    BY <2>1
<1>2. \A i \in 1..n : order[i] \in Ids(d) /\ Width(d, order[i]) \in Nat \ {0}
  <2> SUFFICES ASSUME NEW i \in 1..n PROVE order[i] \in Ids(d) /\ Width(d, order[i]) \in Nat \ {0}
    OBVIOUS
  <2>1. order[i] \in Ids(d)
    BY <1>1
  <2> QED
    BY <2>1, OperatorType DEF Sized, Width
<1> DEFINE seqs == [i \in DOMAIN order |-> TasksOf(j, d, order[i])]
<1>3. \A i \in 1..n : seqs[i] = [k \in 1..Width(d, order[i]) |-> <<j, order[i], k - 1>>]
  BY <1>1 DEF TasksOf, Width
<1>4. ASSUME NEW i \in 1..n
      PROVE  /\ seqs[i] \in Seq(Tasks(j, d)) /\ Len(seqs[i]) = Width(d, order[i])
             /\ \A k \in 1..Width(d, order[i]) : seqs[i][k] = <<j, order[i], k - 1>>
  <2>1. PICK b, id : b = Width(d, order[i]) /\ id = order[i]
    OBVIOUS
  <2>2. b \in Nat \ {0} /\ id \in Ids(d)
    BY <1>2, <2>1
  <2>3. \A k \in 1..b : <<j, id, k - 1>> \in Tasks(j, d)
    BY <2>2 DEF Tasks
  <2>4. PICK s : s = [k \in 1..b |-> <<j, id, k - 1>>]
    OBVIOUS
  <2>5. s \in Seq(Tasks(j, d)) /\ Len(s) = b /\ \A k \in 1..b : s[k] = <<j, id, k - 1>>
    BY <2>2, <2>3, <2>4
  <2>6. seqs[i] = s
    BY <1>3, <2>1, <2>4
  <2> QED
    BY <2>1, <2>5, <2>6
<1>5. Len(seqs) = n
  BY <1>1
<1>6. Expanded(j, d, order) = FlattenSeq(seqs)
  BY DEF Expanded
<1> HIDE DEF seqs
<1>7. PICK g : Joined(g, n, seqs, Tasks(j, d)) /\ FlattenSeq(seqs) = g[n]
  <2>1. \A i \in 1..n : seqs[i] \in Seq(Tasks(j, d))
    BY <1>4
  <2> HIDE <1>4
  <2>2. \E g : Joined(g, n, seqs, Tasks(j, d)) /\ FlattenSeq(seqs) = g[n]
    BY <1>5, <2>1, Flattened
  <2> QED
    BY <2>2
<1>8. n \in 0..n /\ n \in Nat
  OBVIOUS
<1>9. g \in [0..n -> Seq(Tasks(j, d))]
  BY <1>7 DEF Joined
<1>10. \A i \in 0..n : Len(g[i]) \in Nat /\ g[i] \in Seq(Tasks(j, d))
  BY <1>9
<1>11. \A m \in 0..n :
         /\ \A i \in 1..m : \A k \in 1..Len(seqs[i]) :
              At(g, i, k) \in 1..Len(g[i]) /\ At(g, i, k) \in 1..Len(g[m])
              /\ g[m][At(g, i, k)] = seqs[i][k]
         /\ \A x \in 1..Len(g[m]) : \E i \in 1..m : \E k \in 1..Len(seqs[i]) : x = At(g, i, k)
         /\ \A i \in 0..m : Len(g[i]) <= Len(g[m])
  BY <1>4, <1>7, <1>8, JoinedPlaces
<1>12. ASSUME NEW i \in 1..n, NEW h \in 1..n, i < h,
              NEW k \in 1..Width(d, order[i]), NEW m \in 1..Width(d, order[h])
       PROVE  At(g, i, k) < At(g, h, m)
  <2>1. i \in 1..n /\ h - 1 \in 0..n /\ i \in 0..(h - 1) /\ i \in 1..i /\ i \in 0..n
    BY <1>12
  <2>2. At(g, i, k) \in 1..Len(g[i])
    BY <1>4, <1>11, <2>1
  <2>3. Len(g[i]) <= Len(g[h - 1]) /\ Len(g[i]) \in Nat /\ Len(g[h - 1]) \in Nat
    BY <1>10, <1>11, <2>1
  <2>4. m \in Nat /\ m >= 1
    BY <1>2
  <2>5. At(g, h, m) = Len(g[h - 1]) + m
    BY DEF At
  <2> QED
    BY <2>2, <2>3, <2>4, <2>5
<1>13. PICK x : x = Expanded(j, d, order) /\ x = g[n]
  BY <1>6, <1>7
<1>17. /\ \A i \in 1..n : \A k \in 1..Len(seqs[i]) :
            At(g, i, k) \in 1..Len(x) /\ x[At(g, i, k)] = seqs[i][k]
       /\ \A y \in 1..Len(x) : \E i \in 1..n : \E k \in 1..Len(seqs[i]) : y = At(g, i, k)
  BY <1>8, <1>11, <1>13
<1>14. ASSUME NEW i \in 1..n, NEW k \in 1..Width(d, order[i])
       PROVE  At(g, i, k) \in 1..Len(x) /\ x[At(g, i, k)] = <<j, order[i], k - 1>>
  <2>1. Len(seqs[i]) = Width(d, order[i]) /\ seqs[i][k] = <<j, order[i], k - 1>>
    BY <1>4
  <2> QED
    BY <1>17, <2>1
<1>15. ASSUME NEW y \in 1..Len(x)
       PROVE  \E i \in 1..n : \E k \in 1..Width(d, order[i]) : y = At(g, i, k)
  <2>1. PICK i \in 1..n : \E k \in 1..Len(seqs[i]) : y = At(g, i, k)
    BY <1>17
  <2>2. Len(seqs[i]) = Width(d, order[i])
    BY <1>4
  <2> QED
    BY <2>1, <2>2
<1>16. Expands(g, j, d, order)
  BY <1>1, <1>12, <1>13, <1>14, <1>15 DEF Expands
<1> QED
  BY <1>8, <1>10, <1>13, <1>16

Distinct(s) == \A i, k \in 1..Len(s) : s[i] = s[k] => i = k

LEMMA ExpandedDistinct ==
  ASSUME NEW j, NEW d, Sized(d), NEW order \in Seq(Ids(d)), order # << >>, Distinct(order)
  PROVE  Distinct(Expanded(j, d, order))
<1>1. PICK g : Expands(g, j, d, order)
  BY ExpandedPlaces
<1>2. PICK x, n : x = Expanded(j, d, order) /\ n = Len(order)
  OBVIOUS
<1> SUFFICES ASSUME NEW y \in 1..Len(x), NEW z \in 1..Len(x), x[y] = x[z] PROVE y = z
  BY <1>2 DEF Distinct
<1>3. PICK i \in 1..n : \E k \in 1..Width(d, order[i]) : y = At(g, i, k)
  BY <1>1, <1>2 DEF Expands
<1>4. PICK k \in 1..Width(d, order[i]) : y = At(g, i, k)
  BY <1>3
<1>5. PICK h \in 1..n : \E m \in 1..Width(d, order[h]) : z = At(g, h, m)
  BY <1>1, <1>2 DEF Expands
<1>6. PICK m \in 1..Width(d, order[h]) : z = At(g, h, m)
  BY <1>5
<1>7. x[y] = <<j, order[i], k - 1>> /\ x[z] = <<j, order[h], m - 1>>
  BY <1>1, <1>2, <1>4, <1>6 DEF Expands
<1>8. order[i] = order[h] /\ k - 1 = m - 1
  <2>1. <<j, order[i], k - 1>> = <<j, order[h], m - 1>>
    BY <1>7
  <2> QED
    BY <2>1
<1>9. i = h
  BY <1>2, <1>8 DEF Distinct
<1>10. k \in Int /\ m \in Int
  OBVIOUS
<1>11. k = m
  BY <1>8, <1>10
<1> QED
  BY <1>4, <1>6, <1>9, <1>11

\* All that is asked of a definition, but for the keys.
Sortable(d) ==
  /\ \A o \in Range(d.operators) : WellFormed(o)
  /\ UniqueIds(d) /\ ValidEdges(d)
  /\ Len(TopologicalOrder(d)) = Len(d.operators)

\* What can be sorted is sorted in full.
LEMMA SortedInFull ==
  ASSUME NEW d, Listed(d), Sortable(d)
  PROVE  /\ Sized(d) /\ Ordered(d, TopologicalOrder(d))
         /\ TopologicalOrder(d) \in Seq(Ids(d)) /\ TopologicalOrder(d) # << >>
         /\ Distinct(TopologicalOrder(d))
         /\ \A id \in Ids(d) : \E i \in 1..Len(TopologicalOrder(d)) : TopologicalOrder(d)[i] = id
<1>1. PICK t, n : t = TopologicalOrder(d) /\ n = Len(t)
  OBVIOUS
<1>2. Ordered(d, t)
  BY <1>1, SortOrdered
<1>3. t \in Seq(Ids(d)) /\ Distinct(t) /\ n \in Nat
  BY <1>1, <1>2 DEF Ordered, Distinct
<1>4. n = Len(d.operators) /\ Cardinality(Ids(d)) = n
  BY <1>1 DEF Sortable, UniqueIds
<1>5. t # << >>
  <2>1. {"source", "sink"} \subseteq {TypeOf(d, id) : id \in Ids(d)}
    BY DEF Sortable, ValidEdges
  <2>2. PICK id \in Ids(d) : TRUE
    BY <2>1
  <2>3. Position(d, id) \in 1..n
    BY <1>4, <2>2, ListedType
  <2>4. n # 0
    BY <1>3, <2>3
  <2> QED
    BY <1>1, <2>4
<1>6. ASSUME NEW id \in Ids(d) PROVE \E i \in 1..n : t[i] = id
  <2> DEFINE T == {t[i] : i \in 1..n}
             f == [i \in 1..n |-> t[i]]
             q == [i \in 1..n |-> d.operators[i].id]
  <2>1. IsFiniteSet(1..n) /\ Cardinality(1..n) = n
    <3>1. IsFiniteSet(1..n) /\ Cardinality(1..n) = IF 1 > n THEN 0 ELSE n - 1 + 1
      BY <1>3, FS_Interval
    <3>2. (IF 1 > n THEN 0 ELSE n - 1 + 1) = n
      BY <1>3
    <3> QED
      BY <3>1, <3>2
  <2>2. f \in Bijection(1..n, T)
    <3>1. \A i, k \in 1..n : t[i] = t[k] => i = k
      BY <1>1, <1>3 DEF Distinct
    <3> QED
      BY <3>1 DEF Bijection, Injection, Surjection, IsInjective
  <2>3. Cardinality(T) = n
    <3>1. ExistsBijection(1..n, T)
      BY <2>2 DEF ExistsBijection
    <3> QED
      BY <2>1, <3>1, FS_Bijection
  <2>4. IsFiniteSet(Ids(d))
    <3>1. DOMAIN d.operators = 1..n
      BY <1>4, ListedType
    <3>2. \A x \in Ids(d) : \E i \in 1..n : d.operators[i].id = x
      BY <3>1 DEF Ids, Range
    <3>3. \A i \in 1..n : d.operators[i].id \in Ids(d)
      BY <3>1 DEF Ids, Range
    <3>4. q \in Surjection(1..n, Ids(d))
      BY <3>2, <3>3 DEF Surjection
    <3> QED
      BY <2>1, <3>4, FS_Surjection
  <2>5. T \in SUBSET Ids(d)
    BY <1>1, <1>3
  <2> HIDE DEF T
  <2>6. T = Ids(d)
    BY <1>4, <2>3, <2>4, <2>5, FS_Subset
  <2> QED
    BY <2>6 DEF T
<1> QED
  BY <1>1, <1>2, <1>3, <1>5, <1>6 DEF Sized, Sortable

LEMMA AcceptedOrder ==
  ASSUME NEW d, Listed(d), Accepts(d)
  PROVE  /\ Sized(d) /\ Ordered(d, TopologicalOrder(d))
         /\ TopologicalOrder(d) \in Seq(Ids(d)) /\ TopologicalOrder(d) # << >>
         /\ Distinct(TopologicalOrder(d))
         /\ \A id \in Ids(d) : \E i \in 1..Len(TopologicalOrder(d)) : TopologicalOrder(d)[i] = id
<1>1. Sortable(d)
  BY DEF Accepts, Sortable
<1> QED
  BY <1>1, SortedInFull

-----------------------------------------------------------------------------
(* Slots and assignments *)

\* What schedule does with the tasks of a job, planned as plan and placed as p.
Placing(j, tasks, n, plan, p) ==
  /\ n \in Nat /\ n <= FreeTotal
  /\ place' = [i \in Jobs |-> place'[i]] /\ \A i \in Jobs \ {j} : place'[i] = place[i]
  /\ DOMAIN p = Range(tasks)
  /\ \A t \in Range(tasks) : \E k \in 1..n : tasks[k] = t /\ p[t] = SlotAt(plan, k)
  /\ Distinct(tasks) => \A k \in 1..n : p[tasks[k]] = SlotAt(plan, k)
  /\ \A w \in Workers : \A i \in SlotIds(w) :
       owner'[w][i] = IF \E t \in Range(tasks) : p[t] = <<w, i>>
                      THEN CHOOSE t \in Range(tasks) : p[t] = <<w, i>>
                      ELSE owner[w][i]

LEMMA ScheduleEffect ==
  ASSUME Healthy, place = [i \in Jobs |-> place[i]], NEW j \in Jobs,
         NEW S, NEW tasks \in Seq(S), Schedule(j, tasks),
         NEW n, n = Len(tasks), NEW plan, plan = PlanOf(n), NEW p, p = place'[j]
  PROVE  Placing(j, tasks, n, plan, p)
<1>1. n = Len(tasks) /\ n \in Nat /\ DOMAIN tasks = 1..n
  OBVIOUS
<1>2. plan = PlanOf(n)
  OBVIOUS
<1> DEFINE At1(t) == CHOOSE i \in DOMAIN tasks : tasks[i] = t
           q == [t \in Range(tasks) |-> SlotAt(plan, At1(t))]
<1>3. place' = [place EXCEPT ![j] = q]
  BY <1>1, <1>2 DEF Schedule, SlotAt
<1>4. ~(n > FreeTotal) /\ FreeTotal \in Nat
  BY <1>1, FreeTotalType DEF Schedule
<1>5. place'[j] = q /\ place' = [i \in Jobs |-> place'[i]] /\ \A i \in Jobs \ {j} : place'[i] = place[i]
  BY <1>3
<1>6. ASSUME NEW t \in Range(tasks)
      PROVE  At1(t) \in 1..n /\ tasks[At1(t)] = t /\ q[t] = SlotAt(plan, At1(t))
  <2>1. \E i \in DOMAIN tasks : tasks[i] = t
    BY DEF Range
  <2> QED
    BY <1>1, <2>1
<1>7. ASSUME Distinct(tasks), NEW k \in 1..n PROVE q[tasks[k]] = SlotAt(plan, k)
  <2>1. tasks[k] \in Range(tasks)
    BY <1>1 DEF Range
  <2>2. At1(tasks[k]) \in 1..n /\ tasks[At1(tasks[k])] = tasks[k]
    BY <1>6, <2>1
  <2>3. At1(tasks[k]) = k
    BY <1>1, <1>7, <2>2 DEF Distinct
  <2> QED
    BY <1>6, <2>1, <2>3
<1>8. p = place'[j]
  OBVIOUS
<1>9. owner' = [w \in Workers |-> [i \in SlotIds(w) |->
         IF \E t \in Range(tasks) : place'[j][t] = <<w, i>>
         THEN CHOOSE t \in Range(tasks) : place'[j][t] = <<w, i>>
         ELSE owner[w][i]]]
  BY DEF Schedule
<1>10. \A w \in Workers : \A i \in SlotIds(w) :
         owner'[w][i] = IF \E t \in Range(tasks) : p[t] = <<w, i>>
                        THEN CHOOSE t \in Range(tasks) : p[t] = <<w, i>>
                        ELSE owner[w][i]
  BY <1>8, <1>9
<1>11. \A t \in Range(tasks) : \E k \in 1..n : tasks[k] = t /\ p[t] = SlotAt(plan, k)
  BY <1>5, <1>6, <1>8
<1>12. Distinct(tasks) => \A k \in 1..n : p[tasks[k]] = SlotAt(plan, k)
  BY <1>5, <1>7, <1>8
<1>13. DOMAIN p = Range(tasks)
  BY <1>5, <1>8
<1>14. n \in Nat /\ n <= FreeTotal
  BY <1>1, <1>4
<1> QED
  BY <1>5, <1>10, <1>11, <1>12, <1>13, <1>14, Zenon DEF Placing

\* Every task that is placed holds its slot, and a slot that is held is some task's.
Booked ==
  /\ place = [j \in Jobs |-> place[j]]
  /\ \A j \in Jobs : \A t \in DOMAIN place[j] :
       /\ t[1] = j /\ t # NoTask
       /\ \E w \in Workers : \E i \in SlotIds(w) : place[j][t] = <<w, i>> /\ owner[w][i] = t
  /\ \A w \in Workers : \A i \in SlotIds(w) :
       owner[w][i] # NoTask =>
         \E j \in Jobs : owner[w][i] \in DOMAIN place[j] /\ place[j][owner[w][i]] = <<w, i>>

LEMMA BookedMatches == Booked => SlotsMatchAssignments
<1> SUFFICES ASSUME Booked, NEW w \in Workers, NEW i \in SlotIds(w)
             PROVE  {t \in UNION {DOMAIN place[j] : j \in Jobs} :
                       \E j \in Jobs : t \in DOMAIN place[j] /\ place[j][t] = <<w, i>>}
                    = IF owner[w][i] = NoTask THEN {} ELSE {owner[w][i]}
  BY DEF SlotsMatchAssignments
<1> DEFINE H == {t \in UNION {DOMAIN place[j] : j \in Jobs} :
                   \E j \in Jobs : t \in DOMAIN place[j] /\ place[j][t] = <<w, i>>}
<1>1. ASSUME NEW t \in H PROVE t # NoTask /\ t = owner[w][i]
  <2>1. PICK j \in Jobs : t \in DOMAIN place[j] /\ place[j][t] = <<w, i>>
    OBVIOUS
  <2>2. PICK u \in Workers : \E k \in SlotIds(u) : place[j][t] = <<u, k>> /\ owner[u][k] = t
    BY <2>1 DEF Booked
  <2>3. PICK k \in SlotIds(u) : place[j][t] = <<u, k>> /\ owner[u][k] = t
    BY <2>2
  <2>4. <<u, k>> = <<w, i>>
    BY <2>1, <2>3
  <2>5. u = w /\ k = i
    BY <2>4
  <2> QED
    BY <2>1, <2>3, <2>5 DEF Booked
<1>2. ASSUME owner[w][i] # NoTask PROVE owner[w][i] \in H
  BY <1>2 DEF Booked
<1> HIDE DEF H
<1>3. H = IF owner[w][i] = NoTask THEN {} ELSE {owner[w][i]}
  BY <1>1, <1>2
<1> QED
  BY <1>3 DEF H

LEMMA ScheduleBooks ==
  ASSUME Healthy, Booked, NEW j \in Jobs, NEW d, Listed(d), Accepts(d),
         NoTask \notin Tasks(j, d), Schedule(j, TaskOrder(j, d))
  PROVE  Booked'
<1>1. PICK tasks : tasks = TaskOrder(j, d)
  OBVIOUS
<1>2. tasks \in Seq(Tasks(j, d))
  <2>1. /\ Sized(d) /\ TopologicalOrder(d) \in Seq(Ids(d)) /\ TopologicalOrder(d) # << >>
    BY AcceptedOrder
  <2> QED
    BY <1>1, <2>1, ExpandedPlaces DEF TaskOrder
<1>3. Schedule(j, tasks)
  BY <1>1
<1>4. place = [i \in Jobs |-> place[i]]
  BY DEF Booked
<1>5. PICK n, plan, p : n = Len(tasks) /\ plan = PlanOf(n) /\ p = place'[j]
  OBVIOUS
<1>6. /\ n \in Nat /\ n <= FreeTotal
      /\ place' = [i \in Jobs |-> place'[i]] /\ \A i \in Jobs \ {j} : place'[i] = place[i]
      /\ DOMAIN p = Range(tasks)
      /\ \A t \in Range(tasks) : \E k \in 1..n : tasks[k] = t /\ p[t] = SlotAt(plan, k)
      /\ \A w \in Workers : \A i \in SlotIds(w) :
           owner'[w][i] = IF \E t \in Range(tasks) : p[t] = <<w, i>>
                          THEN CHOOSE t \in Range(tasks) : p[t] = <<w, i>>
                          ELSE owner[w][i]
  <2>1. Placing(j, tasks, n, plan, p)
    BY <1>2, <1>3, <1>4, <1>5, ScheduleEffect
  <2> QED
    BY <2>1, Zenon DEF Placing
<1>7. /\ \A k \in 1..n : \E w \in Available : \E i \in FreeSlots(w) : SlotAt(plan, k) = <<w, i>>
      /\ \A k, m \in 1..n : SlotAt(plan, k) = SlotAt(plan, m) => k = m
  BY <1>5, <1>6, SlotsReserved
<1>8. \A t \in Range(tasks) : t[1] = j /\ t # NoTask
  <2> SUFFICES ASSUME NEW t \in Range(tasks) PROVE t[1] = j /\ t # NoTask
    OBVIOUS
  <2>1. t \in Tasks(j, d)
    BY <1>2 DEF Range
  <2> QED
    BY <2>1 DEF Tasks
<1>9. ASSUME NEW t \in Range(tasks), NEW u \in Range(tasks), p[t] = p[u] PROVE t = u
  <2>1. PICK k \in 1..n : tasks[k] = t /\ p[t] = SlotAt(plan, k)
    BY <1>6
  <2>2. PICK m \in 1..n : tasks[m] = u /\ p[u] = SlotAt(plan, m)
    BY <1>6
  <2>3. k = m
    BY <1>7, <1>9, <2>1, <2>2
  <2> QED
    BY <2>1, <2>2, <2>3
<1>10. ASSUME NEW t \in Range(tasks)
       PROVE  \E w \in Workers : \E i \in SlotIds(w) :
                p[t] = <<w, i>> /\ owner[w][i] = NoTask /\ owner'[w][i] = t
  <2>1. PICK k \in 1..n : tasks[k] = t /\ p[t] = SlotAt(plan, k)
    BY <1>6
  <2>2. PICK w \in Available : \E i \in FreeSlots(w) : SlotAt(plan, k) = <<w, i>>
    BY <1>7
  <2>3. PICK i \in FreeSlots(w) : SlotAt(plan, k) = <<w, i>>
    BY <2>2
  <2>4. w \in Workers /\ i \in SlotIds(w) /\ owner[w][i] = NoTask
    BY DEF Available, Healthy, FreeSlots
  <2>5. owner'[w][i] = CHOOSE u \in Range(tasks) : p[u] = <<w, i>>
    BY <1>6, <2>1, <2>3, <2>4
  <2>6. (CHOOSE u \in Range(tasks) : p[u] = <<w, i>>) = t
    BY <1>9, <2>1, <2>3
  <2> QED
    BY <2>1, <2>3, <2>4, <2>5, <2>6
<1>11. ASSUME NEW h \in Jobs, NEW t \in DOMAIN place'[h]
       PROVE  /\ t[1] = h /\ t # NoTask
              /\ \E w \in Workers : \E i \in SlotIds(w) : place'[h][t] = <<w, i>> /\ owner'[w][i] = t
  <2>1. CASE h = j
    <3>1. t \in Range(tasks)
      BY <1>5, <1>6, <2>1
    <3> QED
      BY <1>5, <1>8, <1>10, <2>1, <3>1
  <2>2. CASE h # j
    <3>1. place'[h] = place[h] /\ t \in DOMAIN place[h]
      BY <1>6, <2>2
    <3>2. t[1] = h /\ t # NoTask
      BY <3>1 DEF Booked
    <3>3. PICK w \in Workers : \E i \in SlotIds(w) : place[h][t] = <<w, i>> /\ owner[w][i] = t
      BY <3>1 DEF Booked
    <3>4. PICK i \in SlotIds(w) : place[h][t] = <<w, i>> /\ owner[w][i] = t
      BY <3>3
    <3>5. ASSUME NEW u \in Range(tasks) PROVE p[u] # <<w, i>>
      <4>1. PICK x \in Workers : \E y \in SlotIds(x) : p[u] = <<x, y>> /\ owner[x][y] = NoTask
        BY <1>10
      <4>2. PICK y \in SlotIds(x) : p[u] = <<x, y>> /\ owner[x][y] = NoTask
        BY <4>1
      <4> SUFFICES ASSUME <<x, y>> = <<w, i>> PROVE FALSE
        BY <4>2
      <4>3. x = w /\ y = i
        OBVIOUS
      <4> QED
        BY <3>2, <3>4, <4>2, <4>3
    <3>6. owner'[w][i] = t
      BY <1>6, <3>4, <3>5
    <3> QED
      BY <3>1, <3>2, <3>4, <3>6
  <2> QED
    BY <2>1, <2>2
<1>12. ASSUME NEW w \in Workers, NEW i \in SlotIds(w), owner'[w][i] # NoTask
       PROVE  \E h \in Jobs : owner'[w][i] \in DOMAIN place'[h] /\ place'[h][owner'[w][i]] = <<w, i>>
  <2>1. CASE \E t \in Range(tasks) : p[t] = <<w, i>>
    <3>1. PICK t : t = CHOOSE u \in Range(tasks) : p[u] = <<w, i>>
      OBVIOUS
    <3>2. t \in Range(tasks) /\ p[t] = <<w, i>> /\ owner'[w][i] = t
      BY <1>6, <2>1, <3>1
    <3> QED
      BY <1>5, <1>6, <3>2
  <2>2. CASE ~\E t \in Range(tasks) : p[t] = <<w, i>>
    <3>1. PICK t : t = owner[w][i]
      OBVIOUS
    <3>2. owner'[w][i] = t /\ t # NoTask
      BY <1>6, <1>12, <2>2, <3>1
    <3>3. PICK h \in Jobs : t \in DOMAIN place[h] /\ place[h][t] = <<w, i>>
      BY <3>1, <3>2 DEF Booked
    <3>4. h # j
      <4>1. place[j] = NoPlaces
        BY <1>3 DEF Schedule
      <4>2. DOMAIN place[j] = {}
        BY <4>1 DEF NoPlaces
      <4> QED
        BY <3>3, <4>2
    <3> QED
      BY <1>6, <3>2, <3>3, <3>4
  <2> QED
    BY <2>1, <2>2
<1> QED
  BY <1>6, <1>11, <1>12 DEF Booked


LEMMA ReleaseBooks ==
  ASSUME Booked, NEW j \in Jobs, Release(j)
  PROVE  Booked'
<1>1. /\ place' = [place EXCEPT ![j] = NoPlaces]
      /\ owner' = [w \in Workers |-> [i \in SlotIds(w) |->
           IF owner[w][i] \in DOMAIN place[j] THEN NoTask ELSE owner[w][i]]]
  BY DEF Release
<1>2. place' = [i \in Jobs |-> place'[i]] /\ place'[j] = << >> /\ \A h \in Jobs \ {j} : place'[h] = place[h]
  BY <1>1 DEF Booked, NoPlaces
<1>3. \A w \in Workers : \A i \in SlotIds(w) :
        owner'[w][i] = IF owner[w][i] \in DOMAIN place[j] THEN NoTask ELSE owner[w][i]
  BY <1>1
<1>4. DOMAIN place'[j] = {}
  BY <1>2
<1>5. ASSUME NEW h \in Jobs, NEW t \in DOMAIN place'[h]
      PROVE  /\ t[1] = h /\ t # NoTask
             /\ \E w \in Workers : \E i \in SlotIds(w) : place'[h][t] = <<w, i>> /\ owner'[w][i] = t
  <2>1. h # j /\ place'[h] = place[h] /\ t \in DOMAIN place[h]
    BY <1>2, <1>4, <1>5
  <2>2. t[1] = h /\ t # NoTask
    BY <2>1 DEF Booked
  <2>3. PICK w \in Workers : \E i \in SlotIds(w) : place[h][t] = <<w, i>> /\ owner[w][i] = t
    BY <2>1 DEF Booked
  <2>4. PICK i \in SlotIds(w) : place[h][t] = <<w, i>> /\ owner[w][i] = t
    BY <2>3
  <2>5. t \notin DOMAIN place[j]
    BY <2>1, <2>2 DEF Booked
  <2>6. owner'[w][i] = t
    BY <1>3, <2>4, <2>5
  <2> QED
    BY <2>1, <2>2, <2>4, <2>6
<1>6. ASSUME NEW w \in Workers, NEW i \in SlotIds(w), owner'[w][i] # NoTask
      PROVE  \E h \in Jobs : owner'[w][i] \in DOMAIN place'[h] /\ place'[h][owner'[w][i]] = <<w, i>>
  <2>1. PICK t : t = owner[w][i]
    OBVIOUS
  <2>2. owner'[w][i] = t /\ t # NoTask /\ t \notin DOMAIN place[j]
    BY <1>3, <1>6, <2>1
  <2>3. PICK h \in Jobs : t \in DOMAIN place[h] /\ place[h][t] = <<w, i>>
    BY <2>1, <2>2 DEF Booked
  <2>4. place'[h] = place[h]
    BY <1>2, <2>2, <2>3
  <2> QED
    BY <2>2, <2>3, <2>4
<1> QED
  BY <1>2, <1>5, <1>6 DEF Booked

\* A job that is not accepted is on no slot.
Unplaced == \A j \in Jobs : answer[j] # "accepted" => place[j] = NoPlaces

PlanInv == Offered /\ Healthy /\ Booked /\ Unplaced

LEMMA OfferedType ==
  ASSUME Offered, NEW j \in Jobs, answer[j] # "refused"
  PROVE  Listed(definition[j]) /\ NoTask \notin Tasks(j, definition[j])
<1>1. PICK f \in Offers : definition[j] = f[j]
  BY DEF Offered
<1>2. /\ f[j].operators \in Seq(Range(f[j].operators))
      /\ NoTask \notin {j} \X {o.id : o \in Range(f[j].operators)} \X Nat
  BY PlanAssumption
<1> QED
  BY <1>1, <1>2 DEF Listed, Tasks, Ids

LEMMA UnplacedNext ==
  ASSUME Offered, Booked, Unplaced, [Next]_vars
  PROVE  Unplaced'
<1>1. /\ place = [i \in Jobs |-> place[i]]
      /\ answer = [i \in Jobs |-> answer[i]]
  BY DEF Offered, Booked
<1>2. ASSUME NEW j \in Jobs, Submit(j) PROVE Unplaced'
  <2>1. answer' = [answer EXCEPT ![j] = "accepted"] /\ \A i \in Jobs \ {j} : place'[i] = place[i]
    BY <1>1, <1>2 DEF Submit, Schedule
  <2> QED
    BY <1>1, <2>1 DEF Unplaced
<1>3. ASSUME NEW j \in Jobs, Finish(j) PROVE Unplaced'
  <2>1. answer' = [answer EXCEPT ![j] = "none"] /\ place' = [place EXCEPT ![j] = NoPlaces]
    BY <1>3 DEF Finish, Release
  <2> QED
    BY <1>1, <2>1 DEF Unplaced
<1>4. ASSUME NEW j \in Jobs, Refuse(j) PROVE Unplaced'
  <2>1. answer' = [answer EXCEPT ![j] = "refused"] /\ place' = place /\ answer[j] = "none"
    BY <1>4 DEF Refuse, slotVars
  <2> QED
    BY <1>1, <2>1 DEF Unplaced
<1>5. CASE UNCHANGED <<answer, place>>
  BY <1>5 DEF Unplaced
<1>6. ASSUME NEW w \in Workers, HealthChanges(w) /\ UNCHANGED <<definition, answer>>
      PROVE  UNCHANGED <<answer, place>>
  BY <1>6 DEF HealthChanges
<1>7. UNCHANGED vars => UNCHANGED <<answer, place>>
  BY DEF vars, slotVars
<1> QED
  BY <1>2, <1>3, <1>4, <1>5, <1>6, <1>7 DEF Next

LEMMA PlanInit == Init => PlanInv
<1> SUFFICES ASSUME Init PROVE PlanInv
  OBVIOUS
<1>1. /\ owner = [w \in Workers |-> [i \in SlotIds(w) |-> NoTask]]
      /\ place = [j \in Jobs |-> << >>] /\ healthy = {}
  BY DEF Init, SlotInit, NoPlaces
<1>2. Healthy
  BY <1>1, FS_EmptySet DEF Healthy
<1>3. \A j \in Jobs : DOMAIN place[j] = {}
  BY <1>1
<1>4. \A w \in Workers : \A i \in SlotIds(w) : owner[w][i] = NoTask
  BY <1>1
<1>5. Booked
  BY <1>1, <1>3, <1>4 DEF Booked
<1>6. Unplaced
  BY <1>1 DEF Unplaced, NoPlaces
<1> QED
  BY <1>2, <1>5, <1>6, OfferedInit DEF PlanInv

LEMMA PlanNext == PlanInv /\ [Next]_vars => PlanInv'
<1> SUFFICES ASSUME PlanInv, [Next]_vars PROVE PlanInv'
  OBVIOUS
<1>1. Offered' /\ Unplaced'
  BY OfferedNext, UnplacedNext DEF PlanInv
<1>2. CASE UNCHANGED vars
  BY <1>1, <1>2 DEF PlanInv, vars, slotVars, Healthy, Booked
<1>3. ASSUME NEW j \in Jobs, Submit(j) PROVE PlanInv'
  <2>1. PICK d : d = definition[j]
    OBVIOUS
  <2>2. Listed(d) /\ NoTask \notin Tasks(j, d)
    BY <1>3, <2>1, OfferedType DEF Submit, PlanInv
  <2>3. Accepts(d) /\ Schedule(j, TaskOrder(j, d))
    BY <1>3, <2>1 DEF Submit
  <2>4. Booked'
    BY <2>2, <2>3, ScheduleBooks DEF PlanInv
  <2>5. Healthy'
    BY <2>3 DEF Schedule, PlanInv, Healthy
  <2> QED
    BY <1>1, <2>4, <2>5 DEF PlanInv
<1>4. ASSUME NEW j \in Jobs, Refuse(j) PROVE PlanInv'
  BY <1>1, <1>4 DEF Refuse, PlanInv, slotVars, Healthy, Booked
<1>5. ASSUME NEW j \in Jobs, Finish(j) PROVE PlanInv'
  <2>1. Release(j)
    BY <1>5 DEF Finish
  <2>2. Booked'
    BY <2>1, ReleaseBooks DEF PlanInv
  <2>3. Healthy'
    BY <2>1 DEF Release, PlanInv, Healthy
  <2> QED
    BY <1>1, <2>2, <2>3 DEF PlanInv
<1>6. ASSUME NEW w \in Workers, HealthChanges(w) PROVE PlanInv'
  <2>1. healthy' = (IF w \in healthy THEN healthy \ {w} ELSE healthy \cup {w})
        /\ owner' = owner /\ place' = place
    BY <1>6 DEF HealthChanges
  <2>2. Healthy'
    <3>1. healthy \in SUBSET Workers /\ IsFiniteSet(healthy)
      BY DEF PlanInv, Healthy
    <3>2. IsFiniteSet(healthy \ {w}) /\ IsFiniteSet(healthy \cup {w})
      BY <3>1, FS_RemoveElement, FS_AddElement
    <3> QED
      BY <2>1, <3>1, <3>2 DEF Healthy
  <2>3. Booked'
    BY <2>1 DEF PlanInv, Booked
  <2> QED
    BY <1>1, <2>2, <2>3 DEF PlanInv
<1> QED
  BY <1>2, <1>3, <1>4, <1>5, <1>6 DEF Next

LEMMA PlanAlways == Spec => []PlanInv
BY PlanInit, PlanNext, PTL DEF Spec

\* After any history of submissions, ends and heartbeats the slots of the workers and
\* the assignments of the tasks say the same: no slot is held for a job that ended,
\* and none is held twice (SlotScheduler.schedule, WorkerRegistry.reserve, release).
THEOREM SlotsKeepTheBooks == Spec => []SlotsMatchAssignments
<1>1. PlanInv => SlotsMatchAssignments
  BY BookedMatches DEF PlanInv
<1> QED
  BY <1>1, PlanAlways, PTL

-----------------------------------------------------------------------------
(* The order of deployment *)

LEMMA TargetBeforeSource ==
  ASSUME NEW j, NEW d, Listed(d), Accepts(d), NEW c \in Channels(j, d)
  PROVE  \E i, k \in DOMAIN DeploymentOrder(j, d) :
           i < k /\ DeploymentOrder(j, d)[i] = c.target /\ DeploymentOrder(j, d)[k] = c.source
<1>1. PICK t, n, r, x : /\ t = TopologicalOrder(d) /\ n = Len(t)
                        /\ r = Reverse(t) /\ x = DeploymentOrder(j, d)
  OBVIOUS
<1>2. /\ Sized(d) /\ Ordered(d, t) /\ t \in Seq(Ids(d)) /\ t # << >>
      /\ \A id \in Ids(d) : \E i \in 1..n : t[i] = id
  BY <1>1, AcceptedOrder
<1>3. n \in Nat \ {0} /\ DOMAIN t = 1..n
  BY <1>1, <1>2
<1>4. r \in Seq(Ids(d)) /\ Len(r) = n /\ \A i \in 1..n : r[i] = t[(n - i) + 1]
  <2>1. r = [i \in 1..n |-> t[(n - i) + 1]]
    BY <1>1 DEF Reverse
  <2>2. \A i \in 1..n : (n - i) + 1 \in 1..n
    BY <1>3
  <2>3. \A i \in 1..n : t[(n - i) + 1] \in Ids(d)
    BY <1>2, <1>3, <2>2
  <2> QED
    BY <1>3, <2>1, <2>3
<1>5. r # << >>
  BY <1>3, <1>4
<1>6. x = Expanded(j, d, r)
  BY <1>1 DEF DeploymentOrder
<1>7. x \in Seq(Tasks(j, d))
  BY <1>2, <1>4, <1>5, <1>6, ExpandedPlaces
<1>8. PICK g : Expands(g, j, d, r)
  BY <1>2, <1>4, <1>5, ExpandedPlaces
<1>9. PICK e \in Edges(d) : \E p \in Linked(d, e) :
        c = [source |-> <<j, e[1], p[1]>>, target |-> <<j, e[2], p[2]>>]
  BY DEF Channels
<1>10. PICK p \in Linked(d, e) : c = [source |-> <<j, e[1], p[1]>>, target |-> <<j, e[2], p[2]>>]
  BY <1>9
<1>11. e[1] \in Ids(d) /\ e[2] \in Ids(d)
  BY DEF Accepts, ValidEdges
<1>12. PICK a, b \in Nat \ {0} : a = Width(d, e[1]) /\ b = Width(d, e[2])
  BY <1>2, <1>11, OperatorType DEF Sized, Width
<1>13. p[1] \in 0..(a - 1) /\ p[2] \in 0..(b - 1)
  BY <1>12 DEF Linked, Subtasks, Width
<1>14. PICK h, m \in 1..n : m < h /\ t[h] = e[2] /\ t[m] = e[1]
  <2>1. PICK h \in 1..n : t[h] = e[2]
    BY <1>2, <1>11
  <2>2. e[1] \in Upstream(d, e[2])
    BY DEF Upstream
  <2>3. \E m \in 1..n : m < h /\ t[m] = e[1]
    <3>1. \A i \in 1..Len(t) : \A up \in Upstream(d, t[i]) : \E k \in 1..Len(t) : k < i /\ t[k] = up
      BY <1>2 DEF Ordered
    <3> HIDE <1>2
    <3>2. h \in 1..Len(t) /\ e[1] \in Upstream(d, t[h])
      BY <1>1, <2>1, <2>2
    <3>3. \E k \in 1..Len(t) : k < h /\ t[k] = e[1]
      BY <3>1, <3>2
    <3> QED
      BY <1>1, <3>3
  <2> QED
    BY <2>1, <2>3
<1>15. PICK h1, m1 \in 1..n : h1 = (n - h) + 1 /\ m1 = (n - m) + 1
  <2>1. (n - h) + 1 \in 1..n /\ (n - m) + 1 \in 1..n
    BY <1>3
  <2> QED
    BY <2>1
<1>16. h1 < m1 /\ (n - h1) + 1 = h /\ (n - m1) + 1 = m
  BY <1>3, <1>14, <1>15
<1>17. r[h1] = e[2] /\ r[m1] = e[1]
  BY <1>4, <1>14, <1>16
<1>18. PICK k1 \in 1..b, k2 \in 1..a : k1 - 1 = p[2] /\ k2 - 1 = p[1]
  <2>1. p[2] + 1 \in 1..b /\ p[1] + 1 \in 1..a /\ (p[2] + 1) - 1 = p[2] /\ (p[1] + 1) - 1 = p[1]
    BY <1>12, <1>13
  <2> QED
    BY <2>1
<1>19. PICK y, z : y = At(g, h1, k1) /\ z = At(g, m1, k2)
  OBVIOUS
<1>20. /\ y \in 1..Len(x) /\ x[y] = <<j, e[2], p[2]>>
       /\ z \in 1..Len(x) /\ x[z] = <<j, e[1], p[1]>>
  <2>1. \A i \in 1..n : \A k \in 1..Width(d, r[i]) :
          At(g, i, k) \in 1..Len(x) /\ x[At(g, i, k)] = <<j, r[i], k - 1>>
    BY <1>4, <1>6, <1>8 DEF Expands
  <2>2. k1 \in 1..Width(d, r[h1]) /\ k2 \in 1..Width(d, r[m1])
    BY <1>12, <1>17, <1>18
  <2>3. y \in 1..Len(x) /\ x[y] = <<j, r[h1], k1 - 1>>
    BY <1>19, <2>1, <2>2
  <2>4. z \in 1..Len(x) /\ x[z] = <<j, r[m1], k2 - 1>>
    BY <1>19, <2>1, <2>2
  <2> QED
    BY <1>17, <1>18, <2>3, <2>4
<1>21. y < z
  BY <1>4, <1>6, <1>8, <1>12, <1>16, <1>17, <1>18, <1>19 DEF Expands
<1>22. DOMAIN x = 1..Len(x)
  BY <1>7
<1> QED
  BY <1>1, <1>10, <1>20, <1>21, <1>22

\* In the order in which the tasks of an accepted job are deployed, the target of
\* every channel comes before its source, whatever the graph: a task, which connects
\* to its targets while it is started, finds them (ExecutionGraph.deployment_order
\* over StreamGraph's topological order).
THEOREM TargetsComeFirst == Spec => []TargetsDeployedFirst
<1>1. PlanInv => TargetsDeployedFirst
  <2> SUFFICES ASSUME PlanInv, NEW j \in Accepted, NEW c \in Channels(j, definition[j])
               PROVE  \E i, k \in DOMAIN DeploymentOrder(j, definition[j]) :
                        /\ i < k /\ DeploymentOrder(j, definition[j])[i] = c.target
                        /\ DeploymentOrder(j, definition[j])[k] = c.source
    BY DEF TargetsDeployedFirst
  <2>1. PICK d : d = definition[j]
    OBVIOUS
  <2>2. j \in Jobs /\ Listed(d) /\ Accepts(d)
    BY <2>1, OfferedType DEF PlanInv, Offered, Accepted
  <2> QED
    BY <2>1, <2>2, TargetBeforeSource
<1> QED
  BY <1>1, PlanAlways, PTL

-----------------------------------------------------------------------------
(* Folding along the order *)

LEMMA Greatest ==
  ASSUME NEW m \in Nat, NEW s \in SUBSET (1..m), s # {}
  PROVE  /\ Max(s) \in s /\ m # 0 /\ m - 1 \in Nat /\ \A y \in s : Max(s) >= y
         /\ s \ {Max(s)} \in SUBSET (1..(m - 1))
         /\ s = 1..m => Max(s) = m /\ s \ {Max(s)} = 1..(m - 1)
<1> DEFINE T == {k \in Nat : \E y \in s : k = m - y}
<1>0. \A y \in s : y \in Nat /\ 1 <= y /\ y <= m
  OBVIOUS
<1>1. T \subseteq Nat /\ T # {}
  <2>1. PICK y \in s : TRUE
    OBVIOUS
  <2>2. m - y \in T
    BY <1>0
  <2> QED
    BY <2>2
<1>2. PICK k \in T : \A i \in T : k <= i
  BY <1>1, LeastNumber
<1>3. PICK x \in s : k = m - x
  OBVIOUS
<1>4. \A y \in s : x >= y
  <2> SUFFICES ASSUME NEW y \in s PROVE x >= y
    OBVIOUS
  <2>1. m - y \in T
    BY <1>0
  <2>2. m - x <= m - y
    BY <1>2, <1>3, <2>1
  <2> QED
    BY <1>0, <2>2
<1>5. Max(s) \in s /\ \A y \in s : Max(s) >= y
  BY <1>4 DEF Max
<1>6. PICK z : z = Max(s)
  OBVIOUS
<1>7. m # 0 /\ m - 1 \in Nat
  BY <1>0, <1>5
<1>8. \A y \in s : y # z => y \in 1..(m - 1)
  <2> SUFFICES ASSUME NEW y \in s, y # z PROVE y \in 1..(m - 1)
    OBVIOUS
  <2>1. y \in Nat /\ 1 <= y /\ z \in Nat /\ z <= m /\ z >= y
    BY <1>0, <1>5, <1>6
  <2>2. y # z
    OBVIOUS
  <2>3. y <= m - 1
    BY <2>1, <2>2
  <2> QED
    BY <1>7, <2>1, <2>3
<1>9. ASSUME s = 1..m PROVE z = m /\ s \ {z} = 1..(m - 1)
  <2>1. m \in s
    BY <1>7, <1>9
  <2>2. z >= m /\ z <= m /\ z \in Nat
    BY <1>0, <1>5, <1>6, <2>1
  <2>3. z = m
    BY <2>2
  <2>4. \A y : y \in 1..m /\ y # m <=> y \in 1..(m - 1)
    BY <1>7
  <2> QED
    BY <1>9, <2>3, <2>4
<1> QED
  BY <1>5, <1>6, <1>7, <1>8, <1>9

Gathers(g, n, T, base, F) ==
  /\ g \in [SUBSET (1..n) -> T] /\ g[{}] = base
  /\ \A s \in SUBSET (1..n) : s # {} => g[s] = F[<<Max(s), g[s \ {Max(s)}]>>]

LEMMA Gathered ==
  ASSUME NEW n \in Nat, NEW T, NEW base \in T, NEW F \in [(1..n) \X T -> T]
  PROVE  \E g : Gathers(g, n, T, base, F)
<1> DEFINE P == SUBSET (1..n)
           R == [P -> T]
           Next1(h) == [s \in P |-> IF s = {} THEN base ELSE F[<<Max(s), h[s \ {Max(s)}]>>]]
           N == n + 1
           H == [q \in (1..N) \X R |-> Next1(q[2])]
           h0 == [s \in P |-> base]
<1>1. ASSUME NEW s \in P, s # {} PROVE Max(s) \in 1..n /\ s \ {Max(s)} \in P
  BY <1>1, Greatest
<1>2. ASSUME NEW h \in R PROVE Next1(h) \in R
  <2>1. ASSUME NEW s \in P, s # {} PROVE F[<<Max(s), h[s \ {Max(s)}]>>] \in T
    <3>1. Max(s) \in 1..n /\ h[s \ {Max(s)}] \in T
      BY <1>1, <2>1
    <3> QED
      BY <3>1
  <2> QED
    BY <2>1
<1>3. H \in [(1..N) \X R -> R] /\ \A k \in 1..N, h \in R : H[<<k, h>>] = Next1(h)
  BY <1>2
<1>4. h0 \in R /\ N \in Nat /\ h0[{}] = base
  OBVIOUS
<1> HIDE DEF H, N, R, h0, Next1
<1>5. PICK g : Iterates(g, N, R, h0, H)
  BY <1>3, <1>4, Iterated
<1>6. g \in [0..N -> R] /\ g[0] = h0 /\ \A k \in 1..N : g[k] = Next1(g[k - 1])
  <2>1. g \in [0..N -> R] /\ g[0] = h0 /\ \A k \in 1..N : g[k] = H[<<k, g[k - 1]>>]
    BY <1>5 DEF Iterates
  <2>2. \A k \in 1..N : k - 1 \in 0..N
    BY <1>4
  <2>3. \A k \in 1..N : g[k - 1] \in R
    BY <2>1, <2>2
  <2> QED
    BY <1>3, <2>1, <2>3
<1>7. \A k \in 0..N : g[k][{}] = base
  <2> SUFFICES ASSUME NEW k \in 0..N PROVE g[k][{}] = base
    OBVIOUS
  <2>1. CASE k = 0
    BY <1>4, <1>6, <2>1
  <2>2. CASE k # 0
    <3>1. k \in 1..N
      BY <1>4, <2>2
    <3> QED
      BY <1>6, <3>1 DEF Next1
  <2> QED
    BY <2>1, <2>2
<1>8. \A k \in 1..N : \A s \in P : s # {} => g[k][s] = F[<<Max(s), g[k - 1][s \ {Max(s)}]>>]
  <2> SUFFICES ASSUME NEW k \in 1..N, NEW s \in P, s # {}
               PROVE  g[k][s] = F[<<Max(s), g[k - 1][s \ {Max(s)}]>>]
    OBVIOUS
  <2>1. g[k] = Next1(g[k - 1])
    BY <1>6
  <2> QED
    BY <2>1 DEF Next1
\* A set of numbers up to m is folded after m rounds.
<1>9. \A m \in 0..n : \A s \in SUBSET (1..m) : g[m + 1][s] = g[m][s]
  <2> DEFINE Settled(m) == \A s \in SUBSET (1..m) : g[m + 1][s] = g[m][s]
             Bad == {m \in Nat : m \in 0..n /\ ~Settled(m)}
  <2> SUFFICES \A m \in 0..n : Settled(m)
    OBVIOUS
  <2> HIDE DEF Settled
  <2> SUFFICES ASSUME Bad # {} PROVE FALSE
    OBVIOUS
  <2>1. PICK m \in Bad : \A i \in Bad : m <= i
    BY LeastNumber
  <2>2. m \in 0..n /\ m \in Nat
    OBVIOUS
  <2>3. PICK s \in SUBSET (1..m) : g[m + 1][s] # g[m][s]
    BY DEF Settled
  <2>4. m \in 0..N /\ m + 1 \in 1..N /\ m + 1 \in 0..N /\ (m + 1) - 1 = m /\ s \in P
    BY <2>2 DEF N
  <2>5. s # {}
    BY <1>7, <2>3, <2>4
  <2>6. PICK x, t : x = Max(s) /\ t = s \ {Max(s)}
    OBVIOUS
  <2>7. m # 0 /\ m - 1 \in Nat /\ t \in SUBSET (1..(m - 1))
    BY <2>2, <2>5, <2>6, Greatest
  <2>8. m - 1 \in 0..n /\ m \in 1..N /\ (m - 1) + 1 = m /\ ~(m <= m - 1)
    BY <2>2, <2>7 DEF N
  <2>9. Settled(m - 1)
    BY <2>1, <2>7, <2>8
  <2>10. g[m][t] = g[m - 1][t]
    BY <2>7, <2>8, <2>9 DEF Settled
  <2>11. g[m + 1][s] = F[<<x, g[m][t]>>]
    <3>1. PICK k \in 1..N : k = m + 1 /\ k - 1 = m
      BY <2>4
    <3>2. g[k][s] = F[<<x, g[k - 1][t]>>]
      BY <1>8, <2>4, <2>5, <2>6
    <3> QED
      BY <3>1, <3>2
  <2>12. g[m][s] = F[<<x, g[m - 1][t]>>]
    BY <1>8, <2>4, <2>5, <2>6, <2>8
  <2> QED
    BY <2>3, <2>10, <2>11, <2>12
<1>10. PICK h : h = g[N]
  OBVIOUS
<1>11. n \in 0..n /\ n + 1 = N /\ N \in 1..N /\ N \in 0..N /\ N - 1 = n
  BY DEF N
<1>12. h \in [SUBSET (1..n) -> T] /\ h[{}] = base
  BY <1>6, <1>7, <1>10, <1>11 DEF R
<1>13. \A s \in P : s # {} => h[s] = F[<<Max(s), h[s \ {Max(s)}]>>]
  <2> SUFFICES ASSUME NEW s \in P, s # {} PROVE h[s] = F[<<Max(s), h[s \ {Max(s)}]>>]
    OBVIOUS
  <2>1. h[s] = F[<<Max(s), g[n][s \ {Max(s)}]>>]
    BY <1>8, <1>10, <1>11
  <2>2. s \ {Max(s)} \in SUBSET (1..n)
    BY <1>1
  <2>3. h[s \ {Max(s)}] = g[n][s \ {Max(s)}]
    BY <1>9, <1>10, <1>11, <2>2
  <2> QED
    BY <2>1, <2>3
<1> QED
  BY <1>12, <1>13 DEF Gathers

-----------------------------------------------------------------------------
(* Keyed streams *)

KeyedStep(d, keyed, id) ==
  IF \/ TypeOf(d, id) = "key_by"
     \/ TypeOf(d, id) # "source" /\ Upstream(d, id) \subseteq keyed
  THEN keyed \cup {id} ELSE keyed

KeyedAlong(g, d, n, t) ==
  /\ g \in [0..n -> SUBSET Ids(d)] /\ g[0] = {}
  /\ \A k \in 1..n : g[k] = KeyedStep(d, g[k - 1], t[k])

LEMMA KeyedGathered ==
  ASSUME NEW d, NEW t \in Seq(Ids(d)), t = TopologicalOrder(d), NEW n, n = Len(t)
  PROVE  \E g : KeyedAlong(g, d, n, t) /\ Keyed(d) = g[n]
<1> DEFINE T == SUBSET Ids(d)
           F == [q \in (1..n) \X T |-> KeyedStep(d, q[2], t[q[1]])]
           G(f) == [s \in SUBSET (DOMAIN t) |->
                     IF s = {} THEN {} ELSE KeyedStep(d, f[s \ {Max(s)}], t[Max(s)])]
<1>1. n \in Nat /\ DOMAIN t = 1..n /\ \A k \in 1..n : t[k] \in Ids(d)
  OBVIOUS
<1>2. ASSUME NEW k \in 1..n, NEW keyed \in T PROVE KeyedStep(d, keyed, t[k]) \in T
  BY <1>1 DEF KeyedStep
<1>3. F \in [(1..n) \X T -> T] /\ \A k \in 1..n, keyed \in T : F[<<k, keyed>>] = KeyedStep(d, keyed, t[k])
  BY <1>2
<1>4. {} \in T
  OBVIOUS
<1> HIDE DEF F, T
<1>5. PICK h : Gathers(h, n, T, {}, F)
  BY <1>1, <1>3, <1>4, Gathered
<1>6. /\ h \in [SUBSET (1..n) -> T] /\ h[{}] = {}
      /\ \A s \in SUBSET (1..n) : s # {} => h[s] = F[<<Max(s), h[s \ {Max(s)}]>>]
  BY <1>5 DEF Gathers
<1>7. \A s \in SUBSET (1..n) : s # {} => Max(s) \in 1..n /\ s \ {Max(s)} \in SUBSET (1..n)
  BY <1>1, Greatest
<1>8. h = G(h)
  <2>1. ASSUME NEW s \in SUBSET (1..n)
        PROVE  h[s] = IF s = {} THEN {} ELSE KeyedStep(d, h[s \ {Max(s)}], t[Max(s)])
    <3>1. CASE s = {}
      BY <1>6, <3>1
    <3>2. CASE s # {}
      <4>1. Max(s) \in 1..n /\ h[s \ {Max(s)}] \in T
        BY <1>6, <1>7, <3>2
      <4> QED
        BY <1>3, <1>6, <3>2, <4>1
    <3> QED
      BY <3>1, <3>2
  <2>2. h = [s \in SUBSET (1..n) |-> h[s]]
    BY <1>6
  <2> QED
    BY <1>1, <2>1, <2>2
<1> DEFINE u == CHOOSE f : f = G(f)
<1>9. u = G(u)
  BY <1>8
<1>10. Keyed(d) = u[DOMAIN t]
  BY DEF Keyed, FoldLeft, MapThenFoldSet, KeyedStep
<1> HIDE DEF u
<1>11. \A s \in SUBSET (1..n) :
         u[s] = IF s = {} THEN {} ELSE KeyedStep(d, u[s \ {Max(s)}], t[Max(s)])
  BY <1>1, <1>9
<1> DEFINE g == [k \in 0..n |-> u[1..k]]
<1>12. \A k \in 0..n : g[k] = u[1..k]
  OBVIOUS
<1>13. g = [k \in 0..n |-> g[k]]
  OBVIOUS
<1> HIDE DEF g
<1>14. g[0] = {}
  <2>1. 1..0 = {} /\ 0 \in 0..n /\ {} \in SUBSET (1..n)
    BY <1>1
  <2> QED
    BY <1>11, <1>12, <2>1
<1>15. ASSUME NEW k \in 1..n PROVE g[k] = KeyedStep(d, g[k - 1], t[k])
  <2>1. k \in 0..n /\ k - 1 \in 0..n /\ k \in Nat /\ k \in 1..k
    BY <1>1
  <2>2. PICK s : s = 1..k
    OBVIOUS
  <2>3. s \in SUBSET (1..n) /\ s # {} /\ s \in SUBSET (1..k)
    <3>1. \A y \in 1..k : y \in 1..n
      BY <1>1, <2>1
    <3>2. k \in s
      BY <2>1, <2>2
    <3> QED
      BY <2>2, <3>1, <3>2
  <2>4. Max(s) = k /\ s \ {Max(s)} = 1..(k - 1)
    BY <2>1, <2>2, <2>3, Greatest
  <2>5. u[s] = KeyedStep(d, u[s \ {Max(s)}], t[Max(s)])
    BY <1>11, <2>3
  <2>6. u[s] = KeyedStep(d, u[1..(k - 1)], t[k])
    BY <2>4, <2>5
  <2> QED
    BY <1>12, <2>1, <2>2, <2>6
<1>16. \A k \in 0..n : g[k] \in T
  <2> DEFINE Bad == {k \in Nat : k \in 0..n /\ g[k] \notin T}
  <2> SUFFICES ASSUME Bad # {} PROVE FALSE
    OBVIOUS
  <2>1. PICK k \in Bad : \A m \in Bad : k <= m
    BY LeastNumber
  <2>2. k # 0 /\ k \in 0..n
    BY <1>4, <1>14
  <2>3. k \in 1..n /\ k - 1 \in 0..n /\ ~(k <= k - 1) /\ k - 1 \in Nat
    BY <2>2
  <2>4. g[k - 1] \in T
    BY <2>1, <2>3
  <2>5. g[k] \in T
    BY <1>2, <1>15, <2>3, <2>4
  <2> QED
    BY <2>5
<1>17. g \in [0..n -> SUBSET Ids(d)]
  BY <1>13, <1>16 DEF T
<1>18. KeyedAlong(g, d, n, t)
  BY <1>14, <1>15, <1>17 DEF KeyedAlong
<1>19. Keyed(d) = g[n]
  BY <1>1, <1>10, <1>12
<1> QED
  BY <1>18, <1>19

\* An operator's output is keyed exactly if it is a key_by or has inputs that are all
\* keyed: looking at every operator once, behind its inputs, is enough.
LEMMA KeyedMeans ==
  ASSUME NEW d, Ordered(d, TopologicalOrder(d)),
         \A x \in Ids(d) : \E i \in 1..Len(TopologicalOrder(d)) : TopologicalOrder(d)[i] = x
  PROVE  /\ Keyed(d) \in SUBSET Ids(d)
         /\ \A x \in Ids(d) :
              x \in Keyed(d) <=> \/ TypeOf(d, x) = "key_by"
                                 \/ TypeOf(d, x) # "source" /\ Upstream(d, x) \subseteq Keyed(d)
<1>1. PICK t, n : t = TopologicalOrder(d) /\ n = Len(t)
  OBVIOUS
<1>2. /\ t \in Seq(Ids(d)) /\ n \in Nat /\ DOMAIN t = 1..n
      /\ \A i, k \in 1..n : t[i] = t[k] => i = k
      /\ \A i \in 1..n : \A up \in Upstream(d, t[i]) : \E k \in 1..n : k < i /\ t[k] = up
  BY <1>1 DEF Ordered
<1>3. PICK g : KeyedAlong(g, d, n, t) /\ Keyed(d) = g[n]
  BY <1>1, <1>2, KeyedGathered
<1>4. /\ g \in [0..n -> SUBSET Ids(d)] /\ g[0] = {}
      /\ \A k \in 1..n : g[k] = KeyedStep(d, g[k - 1], t[k])
  BY <1>3 DEF KeyedAlong
<1>5. \A k \in 1..n : k - 1 \in 0..n /\ k \in 0..n /\ k \in Nat /\ k - 1 \in Nat
  BY <1>2
\* What is known of an operator once it was looked at.
<1>6. \A k \in 0..n : \A i \in 1..n : t[i] \in g[k] <=> i <= k /\ t[i] \in g[i]
  <2> DEFINE Known(k) == \A i \in 1..n : t[i] \in g[k] <=> i <= k /\ t[i] \in g[i]
             Bad == {k \in Nat : k \in 0..n /\ ~Known(k)}
  <2> SUFFICES \A k \in 0..n : Known(k)
    OBVIOUS
  <2>1. Known(0)
    <3>1. \A i \in 1..n : ~(i <= 0)
      OBVIOUS
    <3> QED
      BY <1>4, <3>1
  <2>2. ASSUME NEW k \in 1..n, Known(k - 1) PROVE Known(k)
    <3> SUFFICES ASSUME NEW i \in 1..n PROVE t[i] \in g[k] <=> i <= k /\ t[i] \in g[i]
      OBVIOUS
    <3>1. g[k] = g[k - 1] \/ g[k] = g[k - 1] \cup {t[k]}
      BY <1>4 DEF KeyedStep
    <3>2. t[i] \in g[k - 1] <=> i <= k - 1 /\ t[i] \in g[i]
      BY <2>2
    <3>3. CASE i = k
      BY <3>3
    <3>4. CASE i # k
      <4>1. t[i] # t[k]
        BY <1>2, <3>4
      <4>2. i <= k <=> i <= k - 1
        BY <3>4
      <4> QED
        BY <3>1, <3>2, <4>1, <4>2
    <3> QED
      BY <3>3, <3>4
  <2> HIDE DEF Known
  <2> SUFFICES ASSUME Bad # {} PROVE FALSE
    OBVIOUS
  <2>3. PICK k \in Bad : \A m \in Bad : k <= m
    BY LeastNumber
  <2>4. k # 0 /\ k \in 0..n /\ k \in Nat /\ ~Known(k)
    BY <2>1
  <2>5. k \in 1..n /\ k - 1 \in 0..n /\ ~(k <= k - 1) /\ k - 1 \in Nat
    BY <1>2, <2>4
  <2>6. Known(k - 1)
    BY <2>3, <2>5
  <2> QED
    BY <2>2, <2>4, <2>5, <2>6
<1>7. n \in 0..n
  BY <1>2
<1>8. ASSUME NEW i \in 1..n
      PROVE  t[i] \in Keyed(d) <=>
               \/ TypeOf(d, t[i]) = "key_by"
               \/ TypeOf(d, t[i]) # "source" /\ Upstream(d, t[i]) \subseteq Keyed(d)
  <2>1. t[i] \in Keyed(d) <=> t[i] \in g[i]
    BY <1>3, <1>6, <1>7
  <2>2. t[i] \notin g[i - 1]
    <3>1. ~(i <= i - 1)
      OBVIOUS
    <3> QED
      BY <1>5, <1>6, <3>1
  <2>3. Upstream(d, t[i]) \subseteq g[i - 1] <=> Upstream(d, t[i]) \subseteq Keyed(d)
    <3> SUFFICES ASSUME NEW up \in Upstream(d, t[i]) PROVE up \in g[i - 1] <=> up \in Keyed(d)
      OBVIOUS
    <3>1. PICK k \in 1..n : k < i /\ t[k] = up
      BY <1>2
    <3>2. k <= i - 1 /\ k <= n
      BY <3>1
    <3> QED
      BY <1>3, <1>5, <1>6, <1>7, <3>1, <3>2
  <2>4. g[i] = KeyedStep(d, g[i - 1], t[i])
    BY <1>4
  <2> QED
    BY <2>1, <2>2, <2>3, <2>4 DEF KeyedStep
<1>9. \A x \in Ids(d) : \E i \in 1..n : t[i] = x
  BY <1>1
<1>10. Keyed(d) \in SUBSET Ids(d)
  BY <1>3, <1>4, <1>7
<1> QED
  BY <1>8, <1>9, <1>10

\* The channels that carry records of a key to an operator.
Carriers(j, d, id, key) ==
  {x \in Channels(j, d) :
     /\ x.target[2] = id
     /\ x.target[3] \in Route(d, <<x.source[2], id>>, x.source[3], key)}

LEMMA KeyHasOneOwner ==
  ASSUME NEW j, NEW d, Listed(d), Accepts(d), NEW id \in Ids(d), TypeOf(d, id) = "reduce",
         NEW key \in Keys
  PROVE  \E task : Carriers(j, d, id, key) # {} /\ \A c \in Carriers(j, d, id, key) : c.target = task
<1>1. /\ Ordered(d, TopologicalOrder(d)) /\ Sized(d)
      /\ \A y \in Ids(d) : \E i \in 1..Len(TopologicalOrder(d)) : TopologicalOrder(d)[i] = y
  BY AcceptedOrder
<1>2. Upstream(d, id) \subseteq Keyed(d)
  <2>1. id \in Keyed(d)
    BY DEF Accepts
  <2> QED
    BY <1>1, <2>1, KeyedMeans
<1>3. PICK q \in Nat \ {0} : q = Operator(d, id).parallelism
  BY <1>1, OperatorType DEF Sized
<1>4. PICK r : r = key % q
  OBVIOUS
<1>5. r \in 0..(q - 1)
  <2>1. key \in Nat
    BY PlanAssumption
  <2> QED
    BY <1>4, <2>1
<1>6. ASSUME NEW e \in Edges(d), e[2] = id
      PROVE  \A k : Route(d, e, k, key) = {r} /\ Route(d, <<e[1], id>>, k, key) = {r}
  <2>1. e[1] \in Keyed(d)
    BY <1>2, <1>6 DEF Upstream
  <2>2. PICK f : f = <<e[1], id>>
    OBVIOUS
  <2>3. f[1] = e[1] /\ f[2] = id
    BY <2>2
  <2>4. Partitioning(d, e) = "hash" /\ Partitioning(d, f) = "hash"
    BY <2>1, <2>3 DEF Partitioning
  <2>5. \A k : Route(d, e, k, key) = {r}
    BY <1>3, <1>4, <1>6, <2>4 DEF Route
  <2>6. \A k : Route(d, f, k, key) = {r}
    BY <1>3, <1>4, <2>3, <2>4 DEF Route
  <2> QED
    BY <2>2, <2>5, <2>6
<1>7. PICK task : task = <<j, id, r>>
  OBVIOUS
<1>8. ASSUME NEW c \in Channels(j, d), c.target[2] = id,
             c.target[3] \in Route(d, <<c.source[2], id>>, c.source[3], key)
      PROVE  c.target = task
  <2>1. PICK e \in Edges(d) : \E p \in Linked(d, e) :
          c = [source |-> <<j, e[1], p[1]>>, target |-> <<j, e[2], p[2]>>]
    BY DEF Channels
  <2>2. PICK p \in Linked(d, e) : c = [source |-> <<j, e[1], p[1]>>, target |-> <<j, e[2], p[2]>>]
    BY <2>1
  <2>3. e[2] = id /\ c.source[2] = e[1] /\ c.source[3] = p[1] /\ c.target[3] = p[2]
    BY <1>8, <2>2
  <2>4. Route(d, <<e[1], id>>, p[1], key) = {r}
    BY <1>6, <2>3
  <2>5. p[2] = r
    BY <1>8, <2>3, <2>4
  <2> QED
    BY <1>7, <2>2, <2>3, <2>5
<1>9. PICK e \in Edges(d) : e[2] = id
  <2>1. Upstream(d, id) # {}
    BY DEF Accepts, ValidEdges
  <2> QED
    BY <2>1 DEF Upstream
<1>10. 0 \in Subtasks(d, e[1])
  <2>1. e[1] \in Ids(d)
    BY DEF Accepts, ValidEdges
  <2>2. PICK b \in Nat \ {0} : b = Operator(d, e[1]).parallelism
    BY <1>1, <2>1, OperatorType DEF Sized
  <2> QED
    BY <2>2 DEF Subtasks
<1>11. PICK x : x = [source |-> <<j, e[1], 0>>, target |-> <<j, e[2], r>>]
  OBVIOUS
<1>12. r \in Route(d, e, 0, key) /\ r \in Route(d, <<e[1], id>>, 0, key)
  BY <1>6, <1>9
<1>13. x \in Channels(j, d)
  BY <1>10, <1>11, <1>12, RoutesStayInGraph
<1>14. /\ x.target = task /\ x.target[2] = id /\ x.target[3] = r
       /\ x.source[2] = e[1] /\ x.source[3] = 0
  BY <1>7, <1>9, <1>11
<1>15. x.target[3] \in Route(d, <<x.source[2], id>>, x.source[3], key)
  BY <1>12, <1>14
<1>16. x \in Carriers(j, d, id, key)
  BY <1>13, <1>14, <1>15 DEF Carriers
<1>17. \A c \in Carriers(j, d, id, key) : c.target = task
  BY <1>8 DEF Carriers
<1> QED
  BY <1>16, <1>17

\* All records of a key that reach a reduce operator, by whichever edge and from
\* whichever subtask, reach one of its tasks, on one worker: behind a key_by every
\* edge is partitioned by the key (StreamGraph._normalize_edge, ShuffleRouter.route).
THEOREM KeysHaveOneOwner == Spec => []OneOwnerPerKey
<1>1. PlanInv => OneOwnerPerKey
  <2> SUFFICES ASSUME PlanInv, NEW j \in Accepted, NEW id \in Ids(definition[j]), NEW key \in Keys,
                      TypeOf(definition[j], id) = "reduce"
               PROVE  Cardinality({<<c.target, Endpoint(j, c)>> : c \in {x \in Channels(j, definition[j]) :
                        /\ x.target[2] = id
                        /\ x.target[3] \in Route(definition[j], <<x.source[2], id>>, x.source[3], key)}}) = 1
    BY DEF OneOwnerPerKey
  <2>1. PICK d : d = definition[j]
    OBVIOUS
  <2>2. j \in Jobs /\ Listed(d) /\ Accepts(d)
    BY <2>1, OfferedType DEF PlanInv, Offered, Accepted
  <2> DEFINE S == Carriers(j, d, id, key)
  <2>3. PICK task : S # {} /\ \A c \in S : c.target = task
    BY <2>1, <2>2, KeyHasOneOwner
  <2> HIDE DEF S
  <2>4. {<<c.target, Endpoint(j, c)>> : c \in S} = {<<task, place[j][task][1]>>}
    BY <2>3 DEF Endpoint
  <2>5. Cardinality({<<c.target, Endpoint(j, c)>> : c \in S}) = 1
    BY <2>4, FS_Singleton
  <2> QED
    BY <2>1, <2>5 DEF S, Carriers
<1> QED
  BY <1>1, PlanAlways, PTL

-----------------------------------------------------------------------------
(* What is accepted *)

LEMMA UpstreamInGraph ==
  ASSUME NEW d, ValidEdges(d)
  PROVE  /\ \A e \in Edges(d) : e[1] \in Ids(d) /\ e[2] \in Ids(d) /\ e[1] \in Upstream(d, e[2])
         /\ \A id \in Ids(d) : \A up \in Upstream(d, id) :
              up \in Ids(d) /\ \E e \in Edges(d) : e[1] = up /\ e[2] = id
<1>1. \A e \in Edges(d) : e[1] \in Ids(d) /\ e[2] \in Ids(d)
  BY DEF ValidEdges
<1> QED
  BY <1>1 DEF Upstream

LEMMA SortedIsAcyclic ==
  ASSUME NEW d, Listed(d), Sortable(d)
  PROVE  Acyclic(d)
<1>1. PICK t, n : t = TopologicalOrder(d) /\ n = Len(t)
  OBVIOUS
<1>2. /\ \A i \in 1..n : \A up \in Upstream(d, t[i]) : \E k \in 1..n : k < i /\ t[k] = up
      /\ \A id \in Ids(d) : \E i \in 1..n : t[i] = id
  <2>1. Ordered(d, t) /\ \A id \in Ids(d) : \E i \in 1..n : t[i] = id
    BY <1>1, SortedInFull
  <2>2. \A i \in 1..n : \A up \in Upstream(d, t[i]) : \E k \in 1..n : k < i /\ t[k] = up
    BY <1>1, <2>1 DEF Ordered
  <2> QED
    BY <2>1, <2>2
<1> SUFFICES ASSUME NEW S \in SUBSET Ids(d), S # {}
             PROVE  \E id \in S : Upstream(d, id) \cap S = {}
  BY DEF Acyclic
<1> DEFINE T == {i \in Nat : i \in 1..n /\ t[i] \in S}
<1>3. T # {}
  <2>1. PICK id \in S : TRUE
    OBVIOUS
  <2>2. PICK i \in 1..n : t[i] = id
    BY <1>2
  <2>3. i \in T
    BY <2>2
  <2> QED
    BY <2>3
<1>4. PICK i \in T : \A k \in T : i <= k
  BY <1>3, LeastNumber
<1>5. ASSUME NEW up \in Upstream(d, t[i]), up \in S PROVE FALSE
  <2>1. PICK k \in 1..n : k < i /\ t[k] = up
    BY <1>2
  <2>2. k \in T
    BY <1>5, <2>1
  <2>3. i <= k /\ i \in Nat /\ k \in Nat
    BY <1>4, <2>2
  <2> QED
    BY <2>1, <2>3
<1> QED
  BY <1>5

LEMMA AcyclicIsSorted ==
  ASSUME NEW d, Listed(d), UniqueIds(d), ValidEdges(d), Acyclic(d)
  PROVE  Len(TopologicalOrder(d)) = Len(d.operators)
<1>1. PICK n : n = Len(d.operators) /\ n \in Nat
  BY ListedType
<1>2. PICK u : SortedAlong(u, d, n) /\ TopologicalOrder(d) = u[n]
  BY <1>1, SortSteps
<1>3. /\ u[0] = << >> /\ \A k \in 1..n : u[k] = SortStep(d, u[k - 1])
      /\ \A k \in 0..n : Ordered(d, u[k])
  BY <1>2 DEF SortedAlong
<1>4. \A k \in 0..n : u[k] \in Seq(Ids(d))
  BY <1>3 DEF Ordered
<1> DEFINE Grown(k) == Len(u[k]) = k \/ Ready(d, Range(u[k])) = {}
<1>5. ASSUME NEW k \in 1..n, Grown(k - 1) PROVE Grown(k)
  <2>1. k - 1 \in 0..n
    BY <1>1
  <2>2. PICK s \in Seq(Ids(d)) : s = u[k - 1]
    BY <1>4, <2>1
  <2>3. u[k] = SortStep(d, s)
    BY <1>3, <2>2
  <2>4. CASE Ready(d, Range(s)) = {}
    <3>1. u[k] = s
      BY <2>3, <2>4, SortStepChoice
    <3> QED
      BY <2>4, <3>1
  <2>5. CASE Ready(d, Range(s)) # {}
    <3>1. Len(s) = k - 1
      BY <1>5, <2>2, <2>5
    <3>2. PICK id \in Ready(d, Range(s)) : u[k] = Append(s, id)
      BY <2>3, <2>5, SortStepChoice
    <3>3. Len(u[k]) = (k - 1) + 1
      BY <3>1, <3>2
    <3> QED
      BY <3>3
  <2> QED
    BY <2>4, <2>5
<1>6. Grown(0)
  BY <1>3
<1> HIDE DEF Grown
<1>7. Grown(n)
  <2> DEFINE Bad == {k \in Nat : k \in 0..n /\ ~Grown(k)}
  <2>1. Bad = {}
    <3> SUFFICES ASSUME Bad # {} PROVE FALSE
      OBVIOUS
    <3>1. PICK k \in Bad : \A m \in Bad : k <= m
      BY LeastNumber
    <3>2. k # 0 /\ k \in 0..n /\ k \in Nat /\ ~Grown(k)
      BY <1>6
    <3>3. k \in 1..n /\ k - 1 \in 0..n /\ ~(k <= k - 1) /\ k - 1 \in Nat
      BY <1>1, <3>2
    <3>4. Grown(k - 1)
      BY <3>1, <3>3
    <3> QED
      BY <1>5, <3>2, <3>3, <3>4
  <2> QED
    BY <1>1, <2>1
<1>8. PICK t : t = u[n]
  OBVIOUS
<1>9. t \in Seq(Ids(d)) /\ Ordered(d, t)
  BY <1>1, <1>3, <1>4, <1>8
<1>10. CASE Ready(d, Range(t)) = {}
  <2>1. PICK m \in Nat : m = Len(t) /\ DOMAIN t = 1..m
    <3>1. Len(t) \in Nat /\ DOMAIN t = 1..Len(t)
      BY <1>9
    <3> QED
      BY <3>1
  <2>2. Ids(d) \ Range(t) = {}
    <3> SUFFICES ASSUME Ids(d) \ Range(t) # {} PROVE FALSE
      OBVIOUS
    <3>1. PICK id \in Ids(d) \ Range(t) : Upstream(d, id) \cap (Ids(d) \ Range(t)) = {}
      BY DEF Acyclic
    <3>2. Upstream(d, id) \subseteq Range(t)
      BY <3>1, UpstreamInGraph
    <3>3. id \in Ready(d, Range(t))
      BY <3>1, <3>2 DEF Ready
    <3> QED
      BY <1>10, <3>3
  <2>3. \A id \in Ids(d) : \E i \in 1..m : t[i] = id
    BY <2>1, <2>2 DEF Range
  <2>4. \A i \in 1..m : t[i] \in Ids(d)
    BY <1>9, <2>1
  <2>5. \A i, k \in 1..m : t[i] = t[k] => i = k
    BY <1>9, <2>1 DEF Ordered
  <2> DEFINE f == [i \in 1..m |-> t[i]]
  <2>6. f \in Bijection(1..m, Ids(d))
    BY <2>3, <2>4, <2>5 DEF Bijection, Injection, Surjection, IsInjective
  <2>7. ExistsBijection(1..m, Ids(d))
    BY <2>6 DEF ExistsBijection
  <2>8. IsFiniteSet(1..m) /\ Cardinality(1..m) = m
    <3>1. IsFiniteSet(1..m) /\ Cardinality(1..m) = IF 1 > m THEN 0 ELSE m - 1 + 1
      BY FS_Interval
    <3>2. (IF 1 > m THEN 0 ELSE m - 1 + 1) = m
      OBVIOUS
    <3> QED
      BY <3>1, <3>2
  <2>9. Cardinality(Ids(d)) = m
    BY <2>7, <2>8, FS_Bijection
  <2> QED
    BY <1>2, <1>8, <2>1, <2>9 DEF UniqueIds
<1> QED
  BY <1>1, <1>2, <1>7, <1>8, <1>10 DEF Grown

\* An operator's output is not keyed exactly if a path from a source comes to it past
\* every key_by.
LEMMA UnkeyedIsReached ==
  ASSUME NEW d, Listed(d), Sortable(d), NEW id \in Ids(d)
  PROVE  id \notin Keyed(d) <=> ReachedUnkeyed(d, id)
<1>1. PICK t, n : t = TopologicalOrder(d) /\ n = Len(t)
  OBVIOUS
<1>2. /\ Ordered(d, t)
      /\ \A x \in Ids(d) : \E i \in 1..n : t[i] = x
  BY <1>1, SortedInFull
<1>3. \A i \in 1..n : \A up \in Upstream(d, t[i]) : \E k \in 1..n : k < i /\ t[k] = up
  BY <1>1, <1>2 DEF Ordered
<1>4. /\ Keyed(d) \in SUBSET Ids(d)
      /\ \A x \in Ids(d) :
           x \in Keyed(d) <=> \/ TypeOf(d, x) = "key_by"
                              \/ TypeOf(d, x) # "source" /\ Upstream(d, x) \subseteq Keyed(d)
  BY <1>1, <1>2, KeyedMeans
<1>5. /\ \A e \in Edges(d) : e[1] \in Ids(d) /\ e[2] \in Ids(d) /\ e[1] \in Upstream(d, e[2])
      /\ \A x \in Ids(d) : \A up \in Upstream(d, x) :
           up \in Ids(d) /\ \E e \in Edges(d) : e[1] = up /\ e[2] = x
  BY UpstreamInGraph DEF Sortable
<1>6. ASSUME ReachedUnkeyed(d, id) PROVE id \notin Keyed(d)
  <2> DEFINE S == Ids(d) \ Keyed(d)
  <2>1. \A up \in Ids(d) : TypeOf(d, up) = "source" => up \in S
    BY <1>4
  <2>2. \A e \in Edges(d) : e[1] \in S /\ TypeOf(d, e[2]) # "key_by" => e[2] \in S
    BY <1>4, <1>5
  <2>3. S \in SUBSET Ids(d)
    OBVIOUS
  <2> HIDE DEF S
  <2>4. id \in S
    BY <1>6, <2>1, <2>2, <2>3 DEF ReachedUnkeyed
  <2> QED
    BY <2>4 DEF S
<1>7. ASSUME id \notin Keyed(d),
             NEW S \in SUBSET Ids(d),
             \A up \in Ids(d) : TypeOf(d, up) = "source" => up \in S,
             \A e \in Edges(d) : e[1] \in S /\ TypeOf(d, e[2]) # "key_by" => e[2] \in S
      PROVE  id \in S
  <2> DEFINE T == {i \in Nat : i \in 1..n /\ t[i] \in Ids(d) /\ t[i] \notin Keyed(d) /\ t[i] \notin S}
  <2>1. T = {}
    <3> SUFFICES ASSUME T # {} PROVE FALSE
      OBVIOUS
    <3>1. PICK i \in T : \A k \in T : i <= k
      BY LeastNumber
    <3>2. PICK x : x = t[i]
      OBVIOUS
    <3>3. i \in 1..n /\ x \in Ids(d) /\ x \notin Keyed(d) /\ x \notin S
      BY <3>2
    <3>4. TypeOf(d, x) # "key_by" /\ TypeOf(d, x) # "source" /\ ~(Upstream(d, x) \subseteq Keyed(d))
      BY <1>4, <1>7, <3>3
    <3>5. PICK up \in Upstream(d, x) : up \notin Keyed(d)
      BY <3>4
    <3>6. PICK k \in 1..n : k < i /\ t[k] = up
      BY <1>3, <3>2, <3>3
    <3>7. up \in Ids(d) /\ \E e \in Edges(d) : e[1] = up /\ e[2] = x
      BY <1>5, <3>3
    <3>8. up \notin S
      BY <1>7, <3>3, <3>4, <3>7
    <3>9. k \in T
      BY <3>5, <3>6, <3>7, <3>8
    <3>10. i <= k /\ i \in Nat /\ k \in Nat
      BY <3>1, <3>9
    <3> QED
      BY <3>6, <3>10
  <2>2. PICK i \in 1..n : t[i] = id
    BY <1>2
  <2>3. i \in Nat /\ i \notin T
    BY <2>1
  <2> QED
    BY <1>7, <2>2, <2>3
<1>8. ASSUME id \notin Keyed(d) PROVE ReachedUnkeyed(d, id)
  BY <1>7, <1>8 DEF ReachedUnkeyed
<1> QED
  BY <1>6, <1>8

\* The rule of AnsweredSoundly.
Sound(d) ==
  /\ \A o \in Range(d.operators) : WellFormed(o)
  /\ UniqueIds(d) /\ ValidEdges(d) /\ Acyclic(d)
  /\ \A id \in Ids(d) : TypeOf(d, id) = "reduce" => ~ReachedUnkeyed(d, id)

LEMMA AcceptsSound ==
  ASSUME NEW d, Listed(d)
  PROVE  Accepts(d) <=> Sound(d)
<1>1. ASSUME Accepts(d) PROVE Sound(d)
  <2>1. Sortable(d)
    BY <1>1 DEF Accepts, Sortable
  <2>2. Acyclic(d)
    BY <2>1, SortedIsAcyclic
  <2>3. \A id \in Ids(d) : TypeOf(d, id) = "reduce" => ~ReachedUnkeyed(d, id)
    BY <1>1, <2>1, UnkeyedIsReached DEF Accepts
  <2> QED
    BY <1>1, <2>2, <2>3 DEF Accepts, Sound
<1>2. ASSUME Sound(d) PROVE Accepts(d)
  <2>1. Len(TopologicalOrder(d)) = Len(d.operators)
    BY <1>2, AcyclicIsSorted DEF Sound
  <2>2. Sortable(d)
    BY <1>2, <2>1 DEF Sound, Sortable
  <2>3. \A id \in Ids(d) : TypeOf(d, id) = "reduce" => id \in Keyed(d)
    BY <1>2, <2>2, UnkeyedIsReached DEF Sound
  <2> QED
    BY <1>2, <2>1, <2>3 DEF Accepts, Sound
<1> QED
  BY <1>1, <1>2

\* The answer to every submission is right, whatever the graph and the order of its
\* declaration: Kahn's algorithm with its heap finds every cycle, and one look at each
\* operator and its direct inputs finds every path from a source to a reduce that
\* passes no key_by (StreamGraph.from_definition).
THEOREM AnswersAreSound == Spec => AnsweredSoundly
<1> DEFINE A == \A j \in Jobs :
                  answer[j] = "none" /\ answer'[j] # "none" =>
                    (answer'[j] = "accepted" <=> Sound(definition[j]))
<1>1. ASSUME PlanInv, [Next]_vars PROVE A
  <2> SUFFICES ASSUME NEW i \in Jobs, answer[i] = "none", answer'[i] # "none"
               PROVE  answer'[i] = "accepted" <=> Sound(definition[i])
    OBVIOUS
  <2>1. answer \in [Jobs -> {"none", "accepted", "refused"}]
    BY <1>1 DEF PlanInv, Offered
  <2>2. Accepts(definition[i]) <=> Sound(definition[i])
    <3>1. PICK d : d = definition[i]
      OBVIOUS
    <3>2. Listed(d)
      BY <1>1, <3>1, OfferedType DEF PlanInv
    <3> QED
      BY <3>1, <3>2, AcceptsSound
  <2>3. CASE UNCHANGED vars
    BY <2>3 DEF vars
  <2>4. ASSUME NEW j \in Jobs, Submit(j) PROVE answer'[i] = "accepted" <=> Sound(definition[i])
    <3>1. Accepts(definition[j]) /\ answer' = [answer EXCEPT ![j] = "accepted"]
      BY <2>4 DEF Submit
    <3>2. i = j
      BY <2>1, <3>1
    <3> QED
      BY <2>1, <2>2, <3>1, <3>2
  <2>5. ASSUME NEW j \in Jobs, Refuse(j) PROVE answer'[i] = "accepted" <=> Sound(definition[i])
    <3>1. ~Accepts(definition[j]) /\ answer' = [answer EXCEPT ![j] = "refused"]
      BY <2>5 DEF Refuse
    <3>2. i = j
      BY <2>1, <3>1
    <3> QED
      BY <2>1, <2>2, <3>1, <3>2
  <2>6. ASSUME NEW j \in Jobs, Finish(j) PROVE FALSE
    <3>1. answer[j] = "accepted" /\ answer' = [answer EXCEPT ![j] = "none"]
      BY <2>6 DEF Finish
    <3> QED
      BY <2>1, <3>1
  <2>7. ASSUME NEW w \in Workers, HealthChanges(w) /\ UNCHANGED <<definition, answer>> PROVE FALSE
    BY <2>7
  <2> QED
    BY <1>1, <2>3, <2>4, <2>5, <2>6, <2>7 DEF Next
<1>2. ASSUME A
      PROVE  \A j \in Jobs :
               LET d == definition[j] IN
               answer[j] = "none" /\ answer'[j] # "none" =>
                 (answer'[j] = "accepted" <=>
                    /\ \A o \in Range(d.operators) : WellFormed(o)
                    /\ UniqueIds(d) /\ ValidEdges(d) /\ Acyclic(d)
                    /\ \A id \in Ids(d) : TypeOf(d, id) = "reduce" => ~ReachedUnkeyed(d, id))
  BY <1>2 DEF Sound
<1> HIDE DEF A
<1> QED
  BY <1>1, <1>2, PlanAlways, PTL DEF Spec, AnsweredSoundly

-----------------------------------------------------------------------------
(* The promise of the scheduler *)

LEMMA TaskOrderType ==
  ASSUME NEW j, NEW d, Listed(d), Accepts(d), NEW order, order = TaskOrder(j, d)
  PROVE  /\ order \in Seq(Tasks(j, d)) /\ Distinct(order) /\ Len(order) \in Nat \ {0}
         /\ DOMAIN order = 1..Len(order)
<1>1. PICK t : t = TopologicalOrder(d)
  OBVIOUS
<1>2. Sized(d) /\ t \in Seq(Ids(d)) /\ t # << >> /\ Distinct(t)
  BY <1>1, AcceptedOrder
<1>3. order = Expanded(j, d, t)
  BY <1>1 DEF TaskOrder
<1>4. order \in Seq(Tasks(j, d)) /\ Distinct(order)
  BY <1>2, <1>3, ExpandedPlaces, ExpandedDistinct
<1>5. PICK g : Expands(g, j, d, t)
  BY <1>2, ExpandedPlaces
<1>6. 1 \in 1..Len(t) /\ t[1] \in Ids(d)
  BY <1>2
<1>7. PICK b \in Nat \ {0} : b = Width(d, t[1])
  BY <1>2, <1>6, OperatorType DEF Sized, Width
<1>8. 1 \in 1..Width(d, t[1])
  BY <1>7
<1>9. At(g, 1, 1) \in 1..Len(order)
  BY <1>3, <1>5, <1>6, <1>8 DEF Expands
<1>10. Len(order) \in Nat /\ DOMAIN order = 1..Len(order)
  BY <1>4
<1> QED
  BY <1>4, <1>9, <1>10

\* A job is placed.
Placed(j, d, order, n, plan, p) ==
  /\ Healthy /\ Booked /\ j \in Jobs /\ Listed(d) /\ Accepts(d) /\ NoTask \notin Tasks(j, d)
  /\ order = TaskOrder(j, d) /\ Schedule(j, order)
  /\ n = Len(order) /\ plan = PlanOf(n) /\ p = place'[j]

LEMMA PlacedFacts ==
  ASSUME NEW j, NEW d, NEW order, NEW n, NEW plan, NEW p, Placed(j, d, order, n, plan, p)
  PROVE  /\ Placing(j, order, n, plan, p) /\ n \in Nat \ {0} /\ n <= FreeTotal
         /\ DOMAIN order = 1..n /\ Distinct(order)
         /\ \A k \in 1..n : p[order[k]] = SlotAt(plan, k) /\ order[k] # NoTask
         /\ plan \in Seq(Available) /\ Len(plan) = n
         /\ \A w \in Available : w \in Workers /\ w \in healthy
<1>1. /\ Healthy /\ Booked /\ j \in Jobs /\ Listed(d) /\ Accepts(d) /\ NoTask \notin Tasks(j, d)
      /\ order = TaskOrder(j, d) /\ Schedule(j, order)
      /\ n = Len(order) /\ plan = PlanOf(n) /\ p = place'[j]
  BY DEF Placed
<1>2. /\ order \in Seq(Tasks(j, d)) /\ Distinct(order) /\ Len(order) \in Nat \ {0}
      /\ DOMAIN order = 1..Len(order)
  BY <1>1, TaskOrderType
<1>3. place = [i \in Jobs |-> place[i]]
  BY <1>1 DEF Booked
<1>4. Placing(j, order, n, plan, p)
  BY <1>1, <1>2, <1>3, ScheduleEffect
<1>5. n <= FreeTotal /\ \A k \in 1..n : p[order[k]] = SlotAt(plan, k)
  BY <1>2, <1>4 DEF Placing
<1>6. \A k \in 1..n : order[k] # NoTask
  BY <1>1, <1>2
<1>7. plan \in Seq(Available) /\ Len(plan) = n
  BY <1>1, <1>2, <1>5, PlanPicks
<1>8. \A w \in Available : w \in Workers /\ w \in healthy
  BY <1>1 DEF Available, Healthy
<1> QED
  BY <1>1, <1>2, <1>4, <1>5, <1>6, <1>7, <1>8

\* Where two workers have room, the first two tasks are put on two.
LEMMA FirstTwoApart ==
  ASSUME Healthy, NEW n \in Nat, n <= FreeTotal, 2 <= n, Cardinality(Available) # 1,
         NEW plan, plan = PlanOf(n)
  PROVE  plan[1] # plan[2]
<1>1. plan \in Seq(Available) /\ Len(plan) = n /\ \A k \in 1..n : Picked(plan[k], n, SubSeq(plan, 1, k - 1))
  BY PlanPicks
<1>2. 1 \in 1..n /\ 2 \in 1..n /\ 2 - 1 = 1
  OBVIOUS
<1>3. plan[1] \in Available
  BY <1>1, <1>2
<1>4. IsFiniteSet(Available) /\ Cardinality(Available) \in Nat /\ Cardinality(Available) # 0
  <2>1. IsFiniteSet(Available) /\ Cardinality(Available) \in Nat
    BY SpreadTargetType
  <2> QED
    BY <1>3, <2>1, FS_EmptySet
<1>5. SpreadTarget(n) = 2
  <2>1. /\ SpreadTarget(n) \in Nat /\ SpreadTarget(n) <= 2
        /\ SpreadTarget(n) \in {2, n, Cardinality(Available)}
    BY SpreadTargetType
  <2> QED
    BY <1>4, <2>1
<1>6. PICK s : s = SubSeq(plan, 1, 1)
  OBVIOUS
<1>7. s \in Seq(Available) /\ Len(s) = 1 /\ s[1] = plan[1]
  BY <1>1, <1>2, <1>6
<1>8. Picked(plan[2], n, s)
  BY <1>1, <1>2, <1>6
<1>9. Planned(plan[2], s) = 0
  BY <1>5, <1>7, <1>8 DEF Picked, Candidates
<1>10. PlannedAt(plan[2], s) = {}
  <2>1. IsFiniteSet(PlannedAt(plan[2], s)) /\ Planned(plan[2], s) = Cardinality(PlannedAt(plan[2], s))
    BY <1>7, PlannedType
  <2> QED
    BY <1>9, <2>1, FS_EmptySet
<1>11. 1 \in 1..Len(s)
  BY <1>7
<1> QED
  BY <1>7, <1>10, <1>11 DEF PlannedAt

LEMMA PromiseKept ==
  ASSUME NEW j, NEW d, NEW order, NEW n, NEW plan, NEW p, Placed(j, d, order, n, plan, p)
  PROVE  PlacesAsPromised(j, order)
<1>1. /\ Healthy /\ n = Len(order) /\ plan = PlanOf(n) /\ p = place'[j]
  BY DEF Placed
<1>2. /\ Placing(j, order, n, plan, p) /\ n \in Nat \ {0} /\ n <= FreeTotal
      /\ DOMAIN order = 1..n
      /\ \A k \in 1..n : p[order[k]] = SlotAt(plan, k)
      /\ plan \in Seq(Available) /\ Len(plan) = n
      /\ \A w \in Available : w \in Workers /\ w \in healthy
  BY PlacedFacts
<1>3. PICK free : free = [w \in healthy |-> FreeSlots(w)]
  OBVIOUS
<1>4. DOMAIN free = healthy /\ \A w \in healthy : free[w] = FreeSlots(w)
  BY <1>3
<1>5. /\ \A k \in 1..n : \E w \in Available : \E i \in FreeSlots(w) :
           SlotAt(plan, k) = <<w, i>> /\ plan[k] = w
      /\ \A k, m \in 1..n : SlotAt(plan, k) = SlotAt(plan, m) => k = m
      /\ \A k \in 1..n : \A i \in FreeSlots(plan[k]) :
           i < SlotAt(plan, k)[2] => \E m \in 1..n : SlotAt(plan, m) = <<plan[k], i>>
  <2>1. Healthy /\ n \in Nat /\ n <= FreeTotal /\ plan = PlanOf(n)
    BY <1>1, <1>2
  <2>2. \A k \in 1..n : \E w \in Available : \E i \in FreeSlots(w) :
          /\ SlotAt(plan, k) = <<w, i>> /\ plan[k] = w
          /\ Rank(FreeSlots(w), i) = Rank(PlannedAt(w, plan), k)
    BY <2>1, SlotsReserved
  <2>3. \A k, m \in 1..n : SlotAt(plan, k) = SlotAt(plan, m) => k = m
    BY <2>1, SlotsReserved
  <2>4. \A k \in 1..n : \A i \in FreeSlots(plan[k]) :
          i < SlotAt(plan, k)[2] => \E m \in 1..n : SlotAt(plan, m) = <<plan[k], i>>
    BY <2>1, SlotsReserved
  <2>5. \A k \in 1..n : \E w \in Available : \E i \in FreeSlots(w) :
          SlotAt(plan, k) = <<w, i>> /\ plan[k] = w
    BY <2>2, Zenon
  <2> QED
    BY <2>3, <2>4, <2>5, Zenon
<1>6. PICK tasks : tasks = {order[i] : i \in 1..Len(order)}
  OBVIOUS
<1>7. tasks = Range(order) /\ \A t \in tasks : \E k \in 1..n : t = order[k]
  BY <1>1, <1>2, <1>6 DEF Range
<1>8. ASSUME NEW t \in tasks
      PROVE  \E k \in 1..n : \E w \in healthy : \E i \in FreeSlots(w) :
               t = order[k] /\ p[t] = <<w, i>> /\ p[t] = SlotAt(plan, k) /\ plan[k] = w
  <2>1. PICK k \in 1..n : t = order[k]
    BY <1>7
  <2>2. PICK w \in Available : \E i \in FreeSlots(w) : SlotAt(plan, k) = <<w, i>> /\ plan[k] = w
    BY <1>5
  <2> QED
    BY <1>2, <2>1, <2>2
<1>9. DOMAIN p = Range(order)
  BY <1>2 DEF Placing
<1>10. ASSUME NEW t \in tasks PROVE p[t] \in PlacedOn(free) /\ p[t][2] \in free[p[t][1]]
  <2>1. PICK w \in healthy : \E i \in FreeSlots(w) : p[t] = <<w, i>>
    BY <1>8
  <2>2. PICK i \in FreeSlots(w) : p[t] = <<w, i>>
    BY <2>1
  <2>3. w \in DOMAIN free /\ i \in free[w]
    BY <1>4
  <2>4. i \in UNION {free[v] : v \in DOMAIN free}
    BY <2>3
  <2> QED
    BY <2>2, <2>3, <2>4 DEF PlacedOn
<1>11. ASSUME NEW t \in tasks, NEW u \in tasks, p[t] = p[u] PROVE t = u
  <2>1. PICK k \in 1..n : t = order[k] /\ p[t] = SlotAt(plan, k)
    BY <1>8
  <2>2. PICK m \in 1..n : u = order[m] /\ p[u] = SlotAt(plan, m)
    BY <1>8
  <2>3. k = m
    BY <1>5, <1>11, <2>1, <2>2
  <2> QED
    BY <2>1, <2>2, <2>3
<1>12. ASSUME NEW t \in tasks, NEW i \in free[p[t][1]], i < p[t][2]
       PROVE  \E u \in tasks : p[u] = <<p[t][1], i>>
  <2>1. PICK k \in 1..n : \E w \in healthy : \E h \in FreeSlots(w) :
          t = order[k] /\ p[t] = <<w, h>> /\ p[t] = SlotAt(plan, k) /\ plan[k] = w
    BY <1>8
  <2>2. PICK w \in healthy : \E h \in FreeSlots(w) :
          p[t] = <<w, h>> /\ p[t] = SlotAt(plan, k) /\ plan[k] = w
    BY <2>1
  <2>3. p[t][1] = w /\ plan[k] = w /\ p[t] = SlotAt(plan, k)
    BY <2>2
  <2>4. i \in FreeSlots(plan[k]) /\ i < SlotAt(plan, k)[2]
    BY <1>4, <1>12, <2>3
  <2>5. PICK m \in 1..n : SlotAt(plan, m) = <<plan[k], i>>
    BY <1>5, <2>4
  <2>6. order[m] \in tasks /\ p[order[m]] = SlotAt(plan, m)
    BY <1>1, <1>2, <1>6
  <2> QED
    BY <2>3, <2>5, <2>6
<1>13. \/ n = 1 \/ Cardinality({w \in DOMAIN free : free[w] # {}}) = 1
       \/ p[order[1]][1] # p[order[2]][1]
  <2> SUFFICES ASSUME n # 1, Cardinality({w \in DOMAIN free : free[w] # {}}) # 1
               PROVE  p[order[1]][1] # p[order[2]][1]
    OBVIOUS
  <2>1. {w \in DOMAIN free : free[w] # {}} = Available
    BY <1>4 DEF Available
  <2>2. Cardinality(Available) # 1
    BY <2>1
  <2>3. n \in Nat /\ 2 <= n
    BY <1>2
  <2>4. plan[1] # plan[2]
    BY <1>1, <1>2, <2>2, <2>3, FirstTwoApart
  <2>5. 1 \in 1..n /\ 2 \in 1..n
    BY <2>3
  <2>6. p[order[1]] = SlotAt(plan, 1) /\ p[order[2]] = SlotAt(plan, 2)
    BY <1>2, <2>5
  <2> QED
    BY <2>4, <2>6 DEF SlotAt
<1>14. KeepsPromise(p, order, free)
  BY <1>1, <1>6, <1>10, <1>11, <1>12, <1>13 DEF KeepsPromise
<1>15. \A t \in Range(order) : p[t] \in PlacedOn(free)
  BY <1>7, <1>10
<1> QED
  BY <1>1, <1>3, <1>9, <1>14, <1>15 DEF PlacesAsPromised


\* What a worker has left.
LEMMA UsedAfter ==
  ASSUME NEW j, NEW d, NEW order, NEW n, NEW plan, NEW p, Placed(j, d, order, n, plan, p),
         NEW x \in Workers
  PROVE  /\ FreeSlots(x)' \in SUBSET FreeSlots(x)
         /\ Used(x)' = Used(x) + Planned(x, plan)
         /\ FreeSlots(x)' # {} => Planned(x, plan) < Cardinality(FreeSlots(x))
<1>1. /\ Healthy /\ plan = PlanOf(n)
  BY DEF Placed
<1>2. /\ Placing(j, order, n, plan, p) /\ n \in Nat \ {0} /\ n <= FreeTotal
      /\ DOMAIN order = 1..n
      /\ \A k \in 1..n : p[order[k]] = SlotAt(plan, k) /\ order[k] # NoTask
      /\ plan \in Seq(Available) /\ Len(plan) = n
  BY PlacedFacts
<1>3. /\ \A k \in 1..n : \E w \in Available : \E i \in FreeSlots(w) :
           SlotAt(plan, k) = <<w, i>> /\ plan[k] = w
      /\ \A k, m \in 1..n : SlotAt(plan, k) = SlotAt(plan, m) => k = m
  BY <1>1, <1>2, SlotsReserved
<1>4. \A i \in SlotIds(x) :
        owner'[x][i] = IF \E t \in Range(order) : p[t] = <<x, i>>
                       THEN CHOOSE t \in Range(order) : p[t] = <<x, i>>
                       ELSE owner[x][i]
  BY <1>2, Zenon DEF Placing
<1> DEFINE P == PlannedAt(x, plan)
           F == FreeSlots(x)
           f == [k \in P |-> SlotAt(plan, k)[2]]
           T == {f[k] : k \in P}
<1>5. ASSUME NEW k \in P
      PROVE  k \in 1..n /\ f[k] \in F /\ SlotAt(plan, k) = <<x, f[k]>>
  <2>1. k \in 1..n /\ plan[k] = x
    BY <1>2 DEF PlannedAt
  <2>2. PICK w \in Available : \E i \in FreeSlots(w) : SlotAt(plan, k) = <<w, i>> /\ plan[k] = w
    BY <1>3, <2>1
  <2>3. PICK i \in FreeSlots(w) : SlotAt(plan, k) = <<w, i>> /\ plan[k] = w
    BY <2>2
  <2>4. f[k] = i /\ w = x
    BY <2>1, <2>3
  <2> QED
    BY <2>1, <2>3, <2>4
<1>6. f = [k \in P |-> f[k]]
  OBVIOUS
<1> HIDE DEF f
<1>7. \A k, m \in P : f[k] = f[m] => k = m
  <2> SUFFICES ASSUME NEW k \in P, NEW m \in P, f[k] = f[m] PROVE k = m
    OBVIOUS
  <2>1. SlotAt(plan, k) = SlotAt(plan, m) /\ k \in 1..n /\ m \in 1..n
    BY <1>5
  <2> QED
    BY <1>3, <2>1
<1>8. f \in Bijection(P, T)
  <2>1. f \in [P -> T]
    BY <1>6
  <2>2. \A y \in T : \E k \in P : f[k] = y
    OBVIOUS
  <2> QED
    BY <1>7, <2>1, <2>2 DEF Bijection, Injection, Surjection, IsInjective
<1>9. /\ IsFiniteSet(P) /\ Planned(x, plan) = Cardinality(P) /\ Planned(x, plan) \in Nat
  BY <1>2, PlannedType
<1>10. ExistsBijection(P, T)
  BY <1>8 DEF ExistsBijection
<1>11. Cardinality(T) = Planned(x, plan)
  BY <1>9, <1>10, FS_Bijection
<1>12. T \in SUBSET F
  BY <1>5
<1>13. \A i \in SlotIds(x) : (\E t \in Range(order) : p[t] = <<x, i>>) <=> i \in T
  <2> SUFFICES ASSUME NEW i \in SlotIds(x)
               PROVE  (\E t \in Range(order) : p[t] = <<x, i>>) <=> i \in T
    OBVIOUS
  <2>1. ASSUME NEW t \in Range(order), p[t] = <<x, i>> PROVE i \in T
    <3>1. PICK k \in 1..n : t = order[k]
      BY <1>2 DEF Range
    <3>2. SlotAt(plan, k) = <<x, i>>
      BY <1>2, <2>1, <3>1
    <3>3. plan[k] = x
      <4>1. SlotAt(plan, k)[1] = plan[k]
        BY DEF SlotAt
      <4> QED
        BY <3>2, <4>1
    <3>4. k \in P
      BY <1>2, <3>3 DEF PlannedAt
    <3>5. <<x, f[k]>> = <<x, i>>
      BY <1>5, <3>2, <3>4
    <3> QED
      BY <3>4, <3>5
  <2>2. ASSUME i \in T PROVE \E t \in Range(order) : p[t] = <<x, i>>
    <3>1. PICK k \in P : i = f[k]
      BY <2>2
    <3>2. k \in 1..n /\ SlotAt(plan, k) = <<x, i>>
      BY <1>5, <3>1
    <3>3. order[k] \in Range(order) /\ p[order[k]] = <<x, i>>
      BY <1>2, <3>2 DEF Range
    <3> QED
      BY <3>3
  <2> QED
    BY <2>1, <2>2
<1>14. ASSUME NEW i \in SlotIds(x), i \in T PROVE owner'[x][i] # NoTask
  <2>1. PICK t : t = CHOOSE u \in Range(order) : p[u] = <<x, i>>
    OBVIOUS
  <2>2. \E u \in Range(order) : p[u] = <<x, i>>
    BY <1>13, <1>14
  <2>3. t \in Range(order)
    BY <2>1, <2>2
  <2>4. owner'[x][i] = t
    BY <1>4, <2>1, <2>2
  <2>5. PICK k \in 1..n : t = order[k]
    BY <1>2, <2>3 DEF Range
  <2> QED
    BY <1>2, <2>4, <2>5
<1>15. PICK F1 : F1 = FreeSlots(x)' /\ F1 = {i \in SlotIds(x) : owner'[x][i] = NoTask}
  BY DEF FreeSlots
<1>16. F = {i \in SlotIds(x) : owner[x][i] = NoTask}
  BY DEF FreeSlots
<1> HIDE DEF T, F
<1>17. F1 = F \ T
  <2>1. \A i \in SlotIds(x) : i \in T => owner'[x][i] # NoTask
    BY <1>14
  <2>2. \A i \in SlotIds(x) : i \notin T => owner'[x][i] = owner[x][i]
    BY <1>4, <1>13
  <2> QED
    BY <1>15, <1>16, <2>1, <2>2
<1>18. IsFiniteSet(F) /\ Cardinality(F) \in Nat /\ SlotsOf[x] \in Nat
  BY WorkerType, FS_CardinalityType DEF F
<1>19. Cardinality(F \ T) = Cardinality(F) - Planned(x, plan) /\ IsFiniteSet(F \ T)
  <2>1. F \cap T = T
    BY <1>12
  <2>2. /\ Cardinality(F \ T) = Cardinality(F) - Cardinality(F \cap T)
        /\ IsFiniteSet(F \ T)
    BY <1>18, FS_Difference, Zenon
  <2>3. Cardinality(F \cap T) = Planned(x, plan)
    BY <1>11, <2>1
  <2> QED
    BY <2>2, <2>3
<1>20. Used(x)' = SlotsOf[x] - Cardinality(F1)
  BY <1>15 DEF Used
<1>21. Used(x) = SlotsOf[x] - Cardinality(F)
  BY DEF Used, F
<1>22. Used(x)' = Used(x) + Planned(x, plan)
  BY <1>9, <1>17, <1>18, <1>19, <1>20, <1>21
<1>23. ASSUME F1 # {} PROVE Planned(x, plan) < Cardinality(F)
  <2>1. Cardinality(F1) # 0 /\ Cardinality(F1) \in Nat
    BY <1>17, <1>19, <1>23, FS_EmptySet, FS_CardinalityType
  <2> QED
    BY <1>9, <1>17, <1>18, <1>19, <2>1
<1>24. F1 \in SUBSET F
  BY <1>17
<1> QED
  BY <1>15, <1>22, <1>23, <1>24 DEF F

\* The last task that a worker with one of the later tasks gets.
LEMMA LastOfWorker ==
  ASSUME NEW S, NEW plan \in Seq(S), NEW w, NEW k \in 1..Len(plan), plan[k] = w
  PROVE  \E m \in 1..Len(plan) :
           /\ k <= m /\ plan[m] = w
           /\ m > 1 => Planned(w, SubSeq(plan, 1, m - 1)) = Planned(w, plan) - 1
<1>1. PICK n \in Nat : n = Len(plan)
  OBVIOUS
<1>2. PICK P : P = PlannedAt(w, plan)
  OBVIOUS
<1>3. k \in P /\ P \in SUBSET (1..n) /\ P # {}
  BY <1>1, <1>2 DEF PlannedAt
<1>4. PICK m : m = Max(P)
  OBVIOUS
<1>5. m \in P /\ k <= m /\ m \in 1..n /\ \A y \in P : y <= m
  <2>1. m \in P /\ \A y \in P : m >= y
    BY <1>3, <1>4, Greatest
  <2>2. \A y \in P : y \in Nat
    BY <1>3
  <2> QED
    BY <1>3, <2>1, <2>2
<1>6. plan[m] = w
  BY <1>2, <1>5 DEF PlannedAt
<1>7. ASSUME m > 1 PROVE Planned(w, SubSeq(plan, 1, m - 1)) = Planned(w, plan) - 1
  <2>1. m - 1 \in 1..n /\ m \in Int
    BY <1>5, <1>7
  <2>2. Planned(w, SubSeq(plan, 1, m - 1)) = Rank(P, m - 1)
    BY <1>1, <1>2, <2>1, PlannedRank
  <2>3. P \in SUBSET Nat /\ \A y \in P : y <= n
    BY <1>3
  <2>4. Rank(P, m) = Rank(P, m - 1) + 1
    BY <1>5, <2>1, <2>3, RankNext
  <2>5. {y \in P : y <= m} = P
    BY <1>5
  <2>6. Rank(P, m) = Cardinality(P)
    BY <2>5 DEF Rank
  <2>7. Planned(w, plan) = Cardinality(P)
    BY <1>2, PlannedType
  <2>8. Rank(P, m - 1) \in Nat
    <3>1. n \in Nat /\ m - 1 \in Int
      BY <2>1
    <3> QED
      BY <2>3, <3>1, RankType
  <2> QED
    BY <2>2, <2>4, <2>6, <2>7, <2>8
<1> QED
  BY <1>1, <1>5, <1>6, <1>7

LEMMA BalanceKept ==
  ASSUME NEW j, NEW d, NEW order, NEW n, NEW plan, NEW p, Placed(j, d, order, n, plan, p)
  PROVE  PlacesBalanced(j, order)
<1>1. /\ Healthy /\ n = Len(order) /\ plan = PlanOf(n) /\ p = place'[j]
  BY DEF Placed
<1>2. /\ n \in Nat \ {0} /\ n <= FreeTotal /\ DOMAIN order = 1..n
      /\ \A k \in 1..n : p[order[k]] = SlotAt(plan, k)
      /\ plan \in Seq(Available) /\ Len(plan) = n
      /\ \A w \in Available : w \in Workers /\ w \in healthy
  BY PlacedFacts
<1>3. \A k \in 1..n : Picked(plan[k], n, SubSeq(plan, 1, k - 1))
  BY <1>1, <1>2, PlanPicks
<1>4. ASSUME NEW w \in Workers, NEW u \in healthy, NEW k \in 1..n, k > 2, plan[k] = w,
             FreeSlots(u)' # {}
      PROVE  (Used(w)' - 1) * SlotsOf[u] <= Used(u)' * SlotsOf[w]
  <2>1. PICK m \in 1..n :
          /\ k <= m /\ plan[m] = w
          /\ m > 1 => Planned(w, SubSeq(plan, 1, m - 1)) = Planned(w, plan) - 1
    BY <1>2, <1>4, LastOfWorker
  <2>2. m > 2 /\ m > 1 /\ m - 1 \in 1..n /\ m - 1 \in Nat /\ m - 1 >= 2
    BY <1>2, <1>4, <2>1
  <2>3. PICK s : s = SubSeq(plan, 1, m - 1)
    OBVIOUS
  <2>4. s \in Seq(Available) /\ Len(s) = m - 1
    BY <1>2, <2>2, <2>3
  <2>5. s \in Seq(Workers)
    BY <1>2, <2>4
  <2>6. Planned(w, s) = Planned(w, plan) - 1
    BY <2>1, <2>2, <2>3
  <2>7. u \in Workers
    BY <1>1 DEF Healthy
  <2>8. PICK a : a = Used(w)' /\ a = Used(w) + Planned(w, plan)
    BY UsedAfter
  <2>9. PICK c : c = Used(u)' /\ c = Used(u) + Planned(u, plan)
    BY <2>7, UsedAfter
  <2>10. FreeSlots(u)' \in SUBSET FreeSlots(u) /\ Planned(u, plan) < Cardinality(FreeSlots(u))
    BY <1>4, <2>7, UsedAfter
  <2>11. u \in Available
    BY <1>4, <2>10 DEF Available
  <2>12. /\ Used(w) \in Nat /\ Used(u) \in Nat /\ SlotsOf[w] \in Nat \ {0} /\ SlotsOf[u] \in Nat \ {0}
         /\ Cardinality(FreeSlots(u)) \in Nat
         /\ Planned(w, plan) \in Nat /\ Planned(u, plan) \in Nat
         /\ Planned(w, s) \in Nat /\ Planned(u, s) \in Nat
    <3>1. Cardinality(FreeSlots(u)) \in 0..SlotsOf[u] /\ SlotsOf[u] \in Nat
      BY <2>7, WorkerType
    <3>2. Cardinality(FreeSlots(u)) \in Nat
      BY <3>1
    <3>3. Planned(w, plan) \in Nat /\ Planned(u, plan) \in Nat
      BY <1>2, PlannedType
    <3>4. Planned(w, s) \in Nat /\ Planned(u, s) \in Nat
      BY <2>4, PlannedType
    <3> QED
      BY <2>7, <3>2, <3>3, <3>4, WorkerType
  <2>13. Planned(u, s) <= Planned(u, plan)
    <3>1. PICK Q : Q = PlannedAt(u, plan)
      OBVIOUS
    <3>2. Planned(u, s) = Rank(Q, m - 1)
      BY <1>2, <2>2, <2>3, <3>1, PlannedRank
    <3>3. Q \in SUBSET Nat /\ (\A y \in Q : y <= n) /\ Planned(u, plan) = Cardinality(Q)
      BY <1>2, <3>1, PlannedType
    <3>4. n \in Nat /\ m - 1 \in Int
      BY <1>2, <2>2
    <3>5. Rank(Q, m - 1) <= Cardinality(Q)
      BY <3>3, <3>4, RankType
    <3> QED
      BY <3>2, <3>3, <3>5
  <2>14. SpreadTarget(n) <= 2 /\ SpreadTarget(n) \in Nat
    BY <1>1, <1>2, SpreadTargetType
  <2>15. PICK C : C = Candidates(Available, s, SpreadTarget(n))
    OBVIOUS
  <2>16. u \in C
    <3>1. ~(Len(s) < SpreadTarget(n))
      BY <2>2, <2>4, <2>14
    <3>2. Planned(u, s) < Cardinality(FreeSlots(u))
      BY <2>10, <2>12, <2>13
    <3> QED
      BY <2>11, <2>15, <3>1, <3>2 DEF Candidates
  <2>17. w \in C /\ \A v \in C \ {w} : Before(w, v, s)
    BY <1>3, <2>1, <2>3, <2>15 DEF Picked
  <2>18. PICK aw, cu : aw = Load(w, s) /\ cu = Load(u, s)
    OBVIOUS
  <2>19. aw = a - 1 /\ aw \in Nat /\ cu \in Nat /\ cu <= c /\ c \in Nat
    BY <2>6, <2>8, <2>9, <2>12, <2>13, <2>18 DEF Load
  <2>20. PICK x, y \in Nat \ {0} : x = SlotsOf[u] /\ y = SlotsOf[w]
    BY <2>12
  <2>21. aw * x <= cu * y
    <3>0. aw * x \in Nat /\ cu * y \in Nat
      BY <2>19, <2>20
    <3>1. CASE u = w
      BY <2>18, <2>20, <3>0, <3>1
    <3>2. CASE u # w
      <4>1. Before(w, u, s)
        BY <2>16, <2>17, <3>2
      <4>2. aw * x < cu * y \/ aw * x = cu * y
        BY <2>18, <2>20, <4>1, BeforeMeans
      <4> QED
        BY <3>0, <4>2
    <3> QED
      BY <3>1, <3>2
  <2>22. cu * y <= c * y
    <3>1. y * cu <= y * c
      BY <2>19, <2>20, Scaled
    <3> QED
      BY <2>19, <2>20, <3>1
  <2>23. aw * x \in Nat /\ cu * y \in Nat /\ c * y \in Nat
    BY <2>19, <2>20
  <2>24. (a - 1) * x <= c * y
    BY <2>19, <2>21, <2>22, <2>23
  <2> QED
    BY <2>8, <2>9, <2>20, <2>24
<1>5. \A k \in 1..n : p[order[k]][1] = plan[k]
  BY <1>2 DEF SlotAt
<1> QED
  BY <1>1, <1>2, <1>4, <1>5 DEF PlacesBalanced

\* Every job that is accepted gets a free slot of a healthy worker for each task, no
\* slot twice, the lowest of a worker first, the first two tasks on two workers where
\* two have room, and is balanced by occupied fraction; a job that is not accepted has no
\* slot, and to refuse one changes no other's. Whatever the slots, the workers and the
\* graph (SlotScheduler.schedule; WorkerRegistry.reserve).
THEOREM PlacementPromiseKept == Spec => KeepsPlacementPromise
<1> DEFINE Kept(i) == PlacesAsPromised(i, TaskOrder(i, definition[i]))
                      /\ PlacesBalanced(i, TaskOrder(i, definition[i]))
           A == \A i \in Jobs : answer[i] = "none" =>
                  IF answer'[i] = "accepted" THEN Kept(i)
                  ELSE place'[i] = NoPlaces /\ (answer'[i] = "refused" => owner' = owner)
<1>1. ASSUME PlanInv, [Next]_vars PROVE A
  <2> SUFFICES ASSUME NEW i \in Jobs, answer[i] = "none"
               PROVE  IF answer'[i] = "accepted" THEN Kept(i)
                      ELSE place'[i] = NoPlaces /\ (answer'[i] = "refused" => owner' = owner)
    OBVIOUS
  <2>1. answer = [k \in Jobs |-> answer[k]]
    BY <1>1 DEF PlanInv, Offered
  <2>2. answer'[i] # "accepted" => place'[i] = NoPlaces
    <3>1. PlanInv'
      BY <1>1, PlanNext
    <3> QED
      BY <3>1 DEF PlanInv, Unplaced
  <2>3. ASSUME answer'[i] \in {"accepted", "refused"} PROVE Submit(i) \/ Refuse(i)
    <3>1. ~UNCHANGED answer
      BY <2>3
    <3>2. ASSUME NEW j \in Jobs, Submit(j) PROVE Submit(i)
      <4>1. answer' = [answer EXCEPT ![j] = "accepted"]
        BY <3>2 DEF Submit
      <4>2. i = j
        BY <2>1, <2>3, <4>1
      <4> QED
        BY <3>2, <4>2
    <3>3. ASSUME NEW j \in Jobs, Refuse(j) PROVE Refuse(i)
      <4>1. answer' = [answer EXCEPT ![j] = "refused"]
        BY <3>3 DEF Refuse
      <4>2. i = j
        BY <2>1, <2>3, <4>1
      <4> QED
        BY <3>3, <4>2
    <3>4. ASSUME NEW j \in Jobs, Finish(j) PROVE FALSE
      <4>1. answer' = [answer EXCEPT ![j] = "none"]
        BY <3>4 DEF Finish
      <4> QED
        BY <2>1, <2>3, <4>1
    <3>5. UNCHANGED vars => UNCHANGED answer
      BY DEF vars
    <3> QED
      BY <1>1, <3>1, <3>2, <3>3, <3>4, <3>5 DEF Next
  <2>4. ASSUME answer'[i] = "refused" PROVE owner' = owner
    <3>1. ~Submit(i)
      BY <2>1, <2>4 DEF Submit
    <3> QED
      BY <2>3, <2>4, <3>1 DEF Refuse, slotVars
  <2>5. ASSUME answer'[i] = "accepted" PROVE Kept(i)
    <3>1. ~Refuse(i)
      BY <2>1, <2>5 DEF Refuse
    <3>2. Submit(i)
      BY <2>3, <2>5, <3>1
    <3>3. PICK order : order = TaskOrder(i, definition[i])
      OBVIOUS
    <3>4. PICK d, n, plan, p : /\ d = definition[i] /\ n = Len(order)
                               /\ plan = PlanOf(n) /\ p = place'[i]
      OBVIOUS
    <3>5. Schedule(i, order) /\ Accepts(d)
      BY <3>2, <3>3, <3>4 DEF Submit
    <3>6. Listed(d) /\ NoTask \notin Tasks(i, d)
      BY <1>1, <3>4, OfferedType DEF PlanInv
    <3>7. Placed(i, d, order, n, plan, p)
      BY <1>1, <3>3, <3>4, <3>5, <3>6 DEF Placed, PlanInv
    <3>8. PlacesAsPromised(i, order) /\ PlacesBalanced(i, order)
      BY <3>7, PromiseKept, BalanceKept
    <3> QED
      BY <3>3, <3>8
  <2> HIDE DEF Kept
  <2> QED
    BY <2>2, <2>4, <2>5
<1>2. ASSUME A
      PROVE  \A j \in Jobs : answer[j] = "none" =>
               IF answer'[j] = "accepted"
               THEN LET order == TaskOrder(j, definition[j])
                    IN PlacesAsPromised(j, order) /\ PlacesBalanced(j, order)
               ELSE place'[j] = NoPlaces /\ (answer'[j] = "refused" => owner' = owner)
  BY <1>2
<1> HIDE DEF A
<1> QED
  BY <1>1, <1>2, PlanAlways, PTL DEF Spec, KeepsPlacementPromise
=============================================================================
