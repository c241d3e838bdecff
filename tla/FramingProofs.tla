--------------------------- MODULE FramingProofs ---------------------------
(***************************************************************************)
(* For any bytes, bodies, limits and pieces: both decoders find the frames *)
(* that were written, and the connection implements FrameLink.             *)
(***************************************************************************)
EXTENDS Framing, FiniteSetTheorems, WellFoundedInduction, TLAPS

-----------------------------------------------------------------------------
(* Numbers and iterations *)

LEMMA LeastNumber ==
  ASSUME NEW S, S \subseteq Nat, S # {}
  PROVE  \E m \in S : \A k \in S : m <= k
<1>1. PICK m \in S : \A k \in S : <<k, m>> \notin OpToRel(<, Nat)
  BY NatLessThanWellFounded, WFMin
<1>2. ASSUME NEW k \in S PROVE ~(k < m)
  <2>1. k \in Nat /\ m \in Nat
    OBVIOUS
  <2>2. <<k, m>> \notin {p \in Nat \X Nat : p[1] < p[2]}
    BY <1>1 DEF OpToRel
  <2> QED
    BY <2>1, <2>2
<1>3. \A k \in S : m <= k
  BY <1>2
<1> QED
  BY <1>3

\* g iterates F from s0, n times.
Iterates(g, n, S, s0, F) ==
  g \in [0..n -> S] /\ g[0] = s0 /\ \A k \in 1..n : g[k] = F[<<k, g[k - 1]>>]

LEMMA Iterated ==
  ASSUME NEW n \in Nat, NEW S, NEW s0 \in S, NEW F \in [(1..n) \X S -> S]
  PROVE  \E g : Iterates(g, n, S, s0, F)
<1> DEFINE Fits(g, m) == /\ g \in [0..m -> S] /\ g[0] = s0
                         /\ \A k \in 1..m : g[k] = F[<<k, g[k - 1]>>]
           Bad == {m \in Nat : m \in 0..n /\ \A g : ~Fits(g, m)}
<1>1. Bad = {}
  <2> SUFFICES ASSUME Bad # {} PROVE FALSE
    OBVIOUS
  <2>1. PICK m \in Bad : \A k \in Bad : m <= k
    BY LeastNumber
  <2>2. m \in Nat /\ m \in 0..n /\ \A g : ~Fits(g, m)
    OBVIOUS
  <2>3. CASE m = 0
    <3> DEFINE g == [k \in 0..0 |-> s0]
    <3>1. g \in [0..0 -> S] /\ g[0] = s0 /\ \A k \in 1..0 : g[k] = F[<<k, g[k - 1]>>]
      OBVIOUS
    <3> HIDE DEF g
    <3>2. Fits(g, 0)
      BY <3>1
    <3> QED
      BY <2>2, <2>3, <3>2
  <2>4. CASE m # 0
    <3>1. m - 1 \in Nat /\ m - 1 \in 0..n /\ ~(m <= m - 1) /\ m \in 1..n /\ m - 1 \in 0..(m - 1)
      BY <2>2, <2>4
    <3>2. PICK h : Fits(h, m - 1)
      BY <2>1, <3>1
    <3> DEFINE s == F[<<m, h[m - 1]>>]
               g == [k \in 0..m |-> IF k = m THEN s ELSE h[k]]
    <3>3. s \in S
      BY <3>1, <3>2
    <3>4. \A k \in 0..m : k # m => k \in 0..(m - 1)
      BY <2>2
    <3>5. g \in [0..m -> S]
      BY <3>2, <3>3, <3>4
    <3>6. g[0] = s0
      BY <2>2, <2>4, <3>2
    <3>7. ASSUME NEW k \in 1..m PROVE g[k] = F[<<k, g[k - 1]>>]
      <4>1. k - 1 \in 0..m /\ k - 1 # m /\ k \in 0..m
        BY <2>2
      <4>2. g[k - 1] = h[k - 1]
        BY <4>1
      <4>3. CASE k = m
        BY <4>1, <4>2, <4>3
      <4>4. CASE k # m
        <5>1. k \in 1..(m - 1)
          BY <2>2, <4>4
        <5>2. h[k] = F[<<k, h[k - 1]>>]
          BY <3>2, <5>1
        <5> QED
          BY <4>1, <4>2, <4>4, <5>2
      <4> QED
        BY <4>3, <4>4
    <3> HIDE DEF g
    <3>8. Fits(g, m)
      BY <3>5, <3>6, <3>7
    <3> QED
      BY <2>2, <3>8
  <2> QED
    BY <2>3, <2>4
<1>2. n \in 0..n
  OBVIOUS
<1> HIDE DEF Fits
<1>3. PICK g : Fits(g, n)
  <2>1. n \notin Bad
    BY <1>1
  <2> QED
    BY <1>2, <2>1
<1> QED
  BY <1>3 DEF Iterates, Fits

-----------------------------------------------------------------------------
(* The bytes that frames take *)

LEMMA BodyTypes ==
  /\ Radix \in Nat \ {0, 1} /\ ReaderLimit \in Nat \ {0}
  /\ \A b \in Bodies : b \in Seq(Nat) /\ Len(b) \in Nat \ {0}
<1>1. Radix \in Nat \ {0, 1} /\ ReaderLimit \in Nat \ {0} /\ Bodies \subseteq Seq(Bytes) \ {<< >>}
  BY FramingAssumption
<1>2. ASSUME NEW b \in Bodies PROVE b \in Seq(Nat) /\ Len(b) \in Nat \ {0}
  <2>1. b \in Seq(Bytes) /\ b # << >> /\ Bytes \subseteq Nat
    BY <1>1 DEF Bytes
  <2>2. b \in Seq(Nat)
    <3>1. Len(b) \in Nat /\ b = [j \in 1..Len(b) |-> b[j]] /\ \A j \in 1..Len(b) : b[j] \in Bytes
      BY <2>1
    <3>2. \A j \in 1..Len(b) : b[j] \in Nat
      BY <2>1, <3>1
    <3> QED
      BY <3>1, <3>2
  <2>3. Len(b) \in Nat /\ (Len(b) = 0 => b = << >>)
    BY <2>2
  <2> QED
    BY <2>1, <2>2, <2>3
<1> QED
  BY <1>1, <1>2

\* The partial sums, frame by frame.
LEMMA Sums ==
  ASSUME NEW w \in Seq(Bodies)
  PROVE  /\ Total(w, 0) = 0
         /\ \A i \in 0..Len(w) : Total(w, i) \in Nat
         /\ \A i \in 1..Len(w) : Total(w, i) = Total(w, i - 1) + PrefixSize + Len(w[i])
<1> DEFINE n == Len(w)
           More(i, s) == s + PrefixSize + Len(w[i])
           F == [p \in (1..n) \X Nat |-> More(p[1], p[2])]
           G(h) == [i \in 0..n |-> IF i = 0 THEN 0 ELSE h[i - 1] + PrefixSize + Len(w[i])]
           sum == CHOOSE h : h = G(h)
<1>1. n \in Nat /\ \A i \in 1..n : w[i] \in Bodies
  OBVIOUS
<1>2. F \in [(1..n) \X Nat -> Nat]
  <2>1. ASSUME NEW i \in 1..n, NEW s \in Nat PROVE More(i, s) \in Nat
    <3>1. Len(w[i]) \in Nat
      BY <1>1, BodyTypes
    <3>2. \A l \in Nat : s + PrefixSize + l \in Nat
      BY DEF PrefixSize
    <3> QED
      BY <3>1, <3>2
  <2> HIDE DEF More
  <2> QED
    BY <2>1
<1>3. \A i \in 1..n, s \in Nat : F[<<i, s>>] = s + PrefixSize + Len(w[i])
  OBVIOUS
<1> HIDE DEF F
<1>4. PICK g : Iterates(g, n, Nat, 0, F)
  BY <1>1, <1>2, Iterated
<1>5. ASSUME NEW i \in 0..n, i # 0 PROVE g[i] = g[i - 1] + PrefixSize + Len(w[i])
  <2>1. i \in 1..n /\ i - 1 \in 0..n
    BY <1>1, <1>5
  <2>2. g[i - 1] \in Nat
    BY <1>4, <2>1 DEF Iterates
  <2> QED
    BY <1>3, <1>4, <2>1, <2>2 DEF Iterates
<1>6. g = G(g)
  BY <1>4, <1>5 DEF Iterates
<1>7. sum = G(sum)
  BY <1>6
<1>8. \A k : Total(w, k) = sum[k]
  BY DEF Total
<1> HIDE DEF sum
<1>9. sum[0] = 0
  BY <1>1, <1>7
<1>10. ASSUME NEW i \in 1..n PROVE sum[i] = sum[i - 1] + PrefixSize + Len(w[i])
  BY <1>1, <1>7
<1>11. \A i \in 0..n : sum[i] \in Nat
  <2> DEFINE Bad == {i \in Nat : i \in 0..n /\ sum[i] \notin Nat}
  <2> SUFFICES ASSUME Bad # {} PROVE FALSE
    BY <1>1
  <2>1. PICK m \in Bad : \A k \in Bad : m <= k
    BY LeastNumber
  <2>2. m # 0
    BY <1>9, <2>1
  <2>3. m - 1 \in Nat /\ m - 1 \in 0..n /\ ~(m <= m - 1) /\ m \in 1..n
    BY <1>1, <2>2
  <2>4. sum[m - 1] \in Nat
    BY <2>1, <2>3
  <2>5. Len(w[m]) \in Nat
    BY <1>1, <2>3, BodyTypes
  <2> QED
    BY <1>10, <2>1, <2>3, <2>4, <2>5 DEF PrefixSize
<1> QED
  BY <1>8, <1>9, <1>10, <1>11

\* Every frame takes some bytes.
LEMMA SumsGrow ==
  ASSUME NEW w \in Seq(Bodies), NEW i \in 0..Len(w), NEW j \in 0..Len(w), i < j
  PROVE  Total(w, i) + PrefixSize < Total(w, j)
<1> DEFINE Bad == {k \in Nat : k \in (i + 1)..Len(w) /\ ~(Total(w, i) + PrefixSize < Total(w, k))}
<1>1. \A k \in 0..Len(w) : Total(w, k) \in Nat
  BY Sums
<1>2. Bad = {}
  <2> SUFFICES ASSUME Bad # {} PROVE FALSE
    OBVIOUS
  <2>1. PICK m \in Bad : \A k \in Bad : m <= k
    BY LeastNumber
  <2>2. m \in 1..Len(w) /\ m - 1 \in 0..Len(w) /\ m - 1 \in Nat /\ m \in 0..Len(w) /\ m \in (i + 1)..Len(w)
    OBVIOUS
  <2>3. w[m] \in Bodies /\ Len(w[m]) \in Nat \ {0}
    BY <2>2, BodyTypes
  <2>4. Total(w, m) = Total(w, m - 1) + PrefixSize + Len(w[m])
    BY <2>2, Sums
  <2>5. CASE m - 1 = i
    BY <1>1, <2>1, <2>2, <2>3, <2>4, <2>5 DEF PrefixSize
  <2>6. CASE m - 1 # i
    <3>1. m - 1 \in (i + 1)..Len(w) /\ ~(m <= m - 1)
      BY <2>2, <2>6
    <3>2. Total(w, i) + PrefixSize < Total(w, m - 1)
      BY <2>1, <2>2, <3>1
    <3>3. Total(w, i) \in Nat /\ Total(w, m - 1) \in Nat /\ Total(w, m) \in Nat
      BY <1>1, <2>2
    <3>4. ~(Total(w, i) + PrefixSize < Total(w, m))
      BY <2>1
    <3>5. PICK x \in Nat, y \in Nat, z \in Nat, l \in Nat :
            x = Total(w, i) /\ y = Total(w, m - 1) /\ z = Total(w, m) /\ l = Len(w[m])
      BY <2>3, <3>3
    <3>6. x + 2 < y /\ z = y + 2 + l /\ ~(x + 2 < z)
      BY <2>4, <3>2, <3>4, <3>5 DEF PrefixSize
    <3> QED
      BY <3>6
  <2> QED
    BY <2>5, <2>6
<1>3. j \in Nat /\ j \in (i + 1)..Len(w)
  OBVIOUS
<1> QED
  BY <1>2, <1>3

\* Writing a frame leaves the sums before it alone.
LEMMA SumsKept ==
  ASSUME NEW w \in Seq(Bodies), NEW b \in Bodies, NEW i \in 0..Len(w)
  PROVE  Total(Append(w, b), i) = Total(w, i)
<1> DEFINE v == Append(w, b)
           Bad == {k \in Nat : k \in 0..Len(w) /\ Total(v, k) # Total(w, k)}
<1>1. v \in Seq(Bodies) /\ Len(v) = Len(w) + 1 /\ \A k \in 1..Len(w) : v[k] = w[k]
  OBVIOUS
<1> HIDE DEF v
<1>2. Bad = {}
  <2> SUFFICES ASSUME Bad # {} PROVE FALSE
    OBVIOUS
  <2>1. PICK m \in Bad : \A k \in Bad : m <= k
    BY LeastNumber
  <2>2. m # 0
    BY <1>1, <2>1, Sums
  <2>3. m - 1 \in Nat /\ m - 1 \in 0..Len(w) /\ ~(m <= m - 1) /\ m \in 1..Len(w) /\ m \in 1..Len(v)
    BY <1>1, <2>2
  <2>4. Total(v, m - 1) = Total(w, m - 1)
    BY <2>1, <2>3
  <2>5. Total(v, m) = Total(v, m - 1) + PrefixSize + Len(v[m])
    BY <1>1, <2>3, Sums
  <2>6. Total(w, m) = Total(w, m - 1) + PrefixSize + Len(w[m])
    BY <2>3, Sums
  <2> QED
    BY <1>1, <2>1, <2>3, <2>4, <2>5, <2>6
<1>3. i \in Nat
  OBVIOUS
<1> QED
  BY <1>2, <1>3 DEF v

\* Of the frames from the k-th on, the m-th is the last that ends within the first e bytes.
LastWithin(w, k, m, e) ==
  /\ m \in k..Len(w) /\ Total(w, m) <= e
  /\ m = Len(w) \/ e < Total(w, m + 1)

LEMMA LastExists ==
  ASSUME NEW w \in Seq(Bodies), NEW k \in 0..Len(w), NEW e \in Nat, Total(w, k) <= e
  PROVE  \E m \in k..Len(w) : LastWithin(w, k, m, e)
<1> DEFINE Beyond == {j \in Nat : j \in (k + 1)..Len(w) /\ e < Total(w, j)}
<1>1. \A j \in 0..Len(w) : Total(w, j) \in Nat
  BY Sums
<1>2. CASE Beyond = {}
  <2>1. Len(w) \in k..Len(w)
    OBVIOUS
  <2>2. Total(w, Len(w)) <= e
    <3>1. CASE k = Len(w)
      BY <3>1
    <3>2. CASE k # Len(w)
      <4>1. Len(w) \in Nat /\ Len(w) \in (k + 1)..Len(w) /\ Len(w) \in 0..Len(w)
        BY <3>2
      <4> QED
        BY <1>1, <1>2, <4>1
    <3> QED
      BY <3>1, <3>2
  <2> QED
    BY <2>1, <2>2 DEF LastWithin
<1>3. CASE Beyond # {}
  <2>1. PICK j \in Beyond : \A i \in Beyond : j <= i
    BY <1>3, LeastNumber
  <2>2. j \in (k + 1)..Len(w) /\ e < Total(w, j)
    OBVIOUS
  <2>3. j - 1 \in k..Len(w) /\ j - 1 \in Nat /\ ~(j <= j - 1) /\ (j - 1) + 1 = j /\ j - 1 \in 0..Len(w)
    BY <2>2
  <2>4. Total(w, j - 1) <= e
    <3>1. CASE j - 1 = k
      BY <3>1
    <3>2. CASE j - 1 # k
      <4>1. j - 1 \in (k + 1)..Len(w)
        BY <2>3, <3>2
      <4> QED
        BY <1>1, <2>1, <2>3, <4>1
    <3> QED
      BY <3>1, <3>2
  <2> QED
    BY <2>2, <2>3, <2>4 DEF LastWithin
<1> QED
  BY <1>2, <1>3

\* WholeAfter counts the frames between the two.
LEMMA WholeCount ==
  ASSUME NEW w \in Seq(Bodies), NEW k \in 0..Len(w), NEW e \in Nat, NEW m \in k..Len(w),
         LastWithin(w, k, m, e)
  PROVE  WholeAfter(w, k, e - Total(w, k)) = m - k
<1> DEFINE S == {i \in (k + 1)..Len(w) : Total(w, i) - Total(w, k) <= e - Total(w, k)}
<1>1. \A j \in 0..Len(w) : Total(w, j) \in Nat
  BY Sums
<1>2. Total(w, m) <= e /\ (m = Len(w) \/ e < Total(w, m + 1))
  BY DEF LastWithin
<1>3. ASSUME NEW i \in (k + 1)..Len(w) PROVE i \in S <=> i <= m
  <2>1. i \in 0..Len(w) /\ k \in 0..Len(w) /\ m \in 0..Len(w)
    OBVIOUS
  <2>2. i \in S <=> Total(w, i) <= e
    BY <1>1, <2>1
  <2>3. CASE i < m
    BY <1>1, <1>2, <2>1, <2>2, <2>3, SumsGrow DEF PrefixSize
  <2>4. CASE i = m
    BY <1>2, <2>2, <2>4
  <2>5. CASE i = m + 1
    BY <1>1, <1>2, <2>1, <2>2, <2>5
  <2>6. CASE i > m + 1
    <3>1. m + 1 \in 0..Len(w) /\ m + 1 < i
      BY <2>6
    <3>2. Total(w, m + 1) + PrefixSize < Total(w, i)
      BY <2>1, <3>1, SumsGrow
    <3> QED
      BY <1>1, <1>2, <2>1, <2>2, <2>6, <3>1, <3>2 DEF PrefixSize
  <2>7. i < m \/ i = m \/ i = m + 1 \/ i > m + 1
    OBVIOUS
  <2> QED
    BY <2>3, <2>4, <2>5, <2>6, <2>7
<1>4. \A i : i \in (k + 1)..m <=> i \in (k + 1)..Len(w) /\ i <= m
  OBVIOUS
<1>5. S = (k + 1)..m
  BY <1>3, <1>4
<1>6. Cardinality((k + 1)..m) = m - k
  <2>1. k + 1 \in Int /\ m \in Int
    OBVIOUS
  <2>2. Cardinality((k + 1)..m) = IF k + 1 > m THEN 0 ELSE m - (k + 1) + 1
    BY <2>1, FS_Interval
  <2> QED
    BY <2>2
<1> QED
  BY <1>5, <1>6 DEF WholeAfter

-----------------------------------------------------------------------------
(* Where bytes lie in all the bytes that were written *)

\* Byte p + j of B is byte j of s.
Lies(s, B, p) ==
  /\ s \in Seq(Nat) /\ p \in Nat /\ p + Len(s) <= Len(B)
  /\ \A j \in 1..Len(s) : s[j] = B[p + j]

\* B is the bytes of the frames of w.
Spells(B, w) ==
  /\ B \in Seq(Nat) /\ Len(B) = Total(w, Len(w))
  /\ \A i \in 1..Len(w) :
       /\ B[Total(w, i - 1) + 1] * Radix + B[Total(w, i - 1) + 2] = Len(w[i])
       /\ Lies(w[i], B, Total(w, i - 1) + PrefixSize)

\* t is the bytes of s behind the m-th, up to the n-th.
Cuts(t, s, m, n) ==
  t \in Seq(Nat) /\ Len(t) = n - m /\ \A j \in 1..(n - m) : t[j] = s[m + j]

LEMMA Slice ==
  ASSUME NEW s \in Seq(Nat), NEW m \in Nat, NEW n \in Nat, m <= n, n <= Len(s),
         NEW a, a = m + 1, NEW t, t = SubSeq(s, a, n)
  PROVE  Cuts(t, s, m, n)
<1>1. t = [j \in 1..(n - m) |-> s[m + j]]
  <2>1. t = [j \in 1..(n - (m + 1) + 1) |-> s[(m + 1) + j - 1]]
    OBVIOUS
  <2>2. n - (m + 1) + 1 = n - m /\ \A j \in 1..(n - m) : (m + 1) + j - 1 = m + j
    OBVIOUS
  <2>3. [j \in 1..(n - m) |-> s[(m + 1) + j - 1]] = [j \in 1..(n - m) |-> s[m + j]]
    BY <2>2
  <2> QED
    BY <2>1, <2>2, <2>3
<1>2. n - m \in Nat /\ \A j \in 1..(n - m) : s[m + j] \in Nat
  <2>1. ASSUME NEW j \in 1..(n - m) PROVE s[m + j] \in Nat
    <3>1. m + j \in 1..Len(s)
      OBVIOUS
    <3> QED
      BY <3>1
  <2> QED
    BY <2>1
<1> QED
  BY <1>1, <1>2 DEF Cuts

LEMMA Joined ==
  ASSUME NEW s \in Seq(Nat), NEW t \in Seq(Nat)
  PROVE  /\ s \o t \in Seq(Nat) /\ Len(s \o t) = Len(s) + Len(t)
         /\ \A j \in 1..Len(s) : (s \o t)[j] = s[j]
         /\ \A j \in 1..Len(t) : (s \o t)[Len(s) + j] = t[j]
OBVIOUS

LEMMA RestLies ==
  ASSUME NEW B \in Seq(Nat), NEW p, NEW s, Lies(s, B, p), NEW n \in 0..Len(s)
  PROVE  Lies(Rest(s, n), B, p + n) /\ Len(Rest(s, n)) = Len(s) - n
<1>1. s \in Seq(Nat) /\ p \in Nat /\ p + Len(s) <= Len(B) /\ \A j \in 1..Len(s) : s[j] = B[p + j]
  BY DEF Lies
<1>2. PICK t : t = Rest(s, n)
  OBVIOUS
<1>3. t \in Seq(Nat) /\ Len(t) = Len(s) - n /\ \A j \in 1..(Len(s) - n) : t[j] = s[n + j]
  <2>1. n \in Nat /\ Len(s) \in Nat /\ n <= Len(s) /\ t = SubSeq(s, n + 1, Len(s))
    BY <1>1, <1>2 DEF Rest
  <2>2. PICK l \in Nat : l = Len(s)
    BY <2>1
  <2>3. PICK a : a = n + 1
    OBVIOUS
  <2>4. n <= l /\ l <= Len(s) /\ t = SubSeq(s, a, l)
    BY <2>1, <2>2, <2>3
  <2>5. Cuts(t, s, n, l)
    BY <1>1, <2>1, <2>3, <2>4, Slice
  <2> QED
    BY <2>2, <2>5 DEF Cuts
<1>4. ASSUME NEW j \in 1..Len(t) PROVE t[j] = B[(p + n) + j]
  <2>1. n + j \in 1..Len(s) /\ p + (n + j) = (p + n) + j
    BY <1>1, <1>3
  <2> QED
    BY <1>1, <1>3, <2>1
<1>5. p + n \in Nat /\ (p + n) + Len(t) <= Len(B)
  BY <1>1, <1>3
<1> QED
  BY <1>2, <1>3, <1>4, <1>5 DEF Lies

LEMMA FirstLies ==
  ASSUME NEW B \in Seq(Nat), NEW p, NEW s, Lies(s, B, p), NEW n \in 0..Len(s)
  PROVE  Lies(SubSeq(s, 1, n), B, p) /\ Len(SubSeq(s, 1, n)) = n
<1>1. s \in Seq(Nat) /\ p \in Nat /\ p + Len(s) <= Len(B) /\ \A j \in 1..Len(s) : s[j] = B[p + j]
  BY DEF Lies
<1>2. PICK t : t = SubSeq(s, 1, n)
  OBVIOUS
<1>3. t \in Seq(Nat) /\ Len(t) = n /\ \A j \in 1..n : t[j] = s[j]
  <2>1. n \in Nat /\ n <= Len(s) /\ 0 \in Nat /\ 0 <= n /\ t = SubSeq(s, 1, n) /\ 1 = 0 + 1 /\ n - 0 = n
    BY <1>1, <1>2
  <2>2. \A j \in 1..n : 0 + j = j
    OBVIOUS
  <2>3. Cuts(t, s, 0, n)
    BY <1>1, <2>1, Slice
  <2> QED
    BY <2>1, <2>2, <2>3 DEF Cuts
<1>4. ASSUME NEW j \in 1..Len(t) PROVE t[j] = B[p + j]
  <2>1. j \in 1..n /\ j \in 1..Len(s)
    BY <1>1, <1>3
  <2> QED
    BY <1>1, <1>3, <2>1
<1>5. p + Len(t) <= Len(B)
  BY <1>1, <1>3
<1> QED
  BY <1>1, <1>2, <1>3, <1>4, <1>5 DEF Lies

LEMMA BothLie ==
  ASSUME NEW B \in Seq(Nat), NEW p, NEW s, Lies(s, B, p), NEW t, Lies(t, B, p + Len(s))
  PROVE  Lies(s \o t, B, p) /\ Len(s \o t) = Len(s) + Len(t)
<1>1. s \in Seq(Nat) /\ p \in Nat /\ \A j \in 1..Len(s) : s[j] = B[p + j]
  BY DEF Lies
<1>2. /\ t \in Seq(Nat) /\ (p + Len(s)) + Len(t) <= Len(B)
      /\ \A j \in 1..Len(t) : t[j] = B[(p + Len(s)) + j]
  BY DEF Lies
<1>3. PICK u : u = s \o t
  OBVIOUS
<1>4. /\ u \in Seq(Nat) /\ Len(u) = Len(s) + Len(t)
      /\ \A j \in 1..Len(s) : u[j] = s[j]
      /\ \A j \in (Len(s) + 1)..(Len(s) + Len(t)) : u[j] = t[j - Len(s)]
  BY <1>1, <1>2, <1>3
<1>5. ASSUME NEW j \in 1..Len(u) PROVE u[j] = B[p + j]
  <2>1. CASE j <= Len(s)
    <3>1. j \in 1..Len(s)
      BY <1>1, <2>1
    <3> QED
      BY <1>1, <1>4, <3>1
  <2>2. CASE ~(j <= Len(s))
    <3>1. j \in (Len(s) + 1)..(Len(s) + Len(t)) /\ j - Len(s) \in 1..Len(t)
      BY <1>1, <1>2, <1>4, <2>2
    <3>2. (p + Len(s)) + (j - Len(s)) = p + j
      BY <1>1, <3>1
    <3> QED
      BY <1>2, <1>4, <3>1, <3>2
  <2> QED
    BY <2>1, <2>2
<1>6. p + Len(u) <= Len(B)
  BY <1>1, <1>2, <1>4
<1> QED
  BY <1>1, <1>3, <1>4, <1>5, <1>6 DEF Lies

LEMMA StillLies ==
  ASSUME NEW B \in Seq(Nat), NEW c \in Seq(Nat), NEW p, NEW s, Lies(s, B, p)
  PROVE  Lies(s, B \o c, p)
<1>1. s \in Seq(Nat) /\ p \in Nat /\ p + Len(s) <= Len(B) /\ \A j \in 1..Len(s) : s[j] = B[p + j]
  BY DEF Lies
<1>2. PICK D : D = B \o c
  OBVIOUS
<1>3. Len(D) = Len(B) + Len(c) /\ \A j \in 1..Len(B) : D[j] = B[j]
  BY <1>2
<1>4. ASSUME NEW j \in 1..Len(s) PROVE s[j] = D[p + j]
  <2>1. p + j \in 1..Len(B)
    BY <1>1
  <2> QED
    BY <1>1, <1>3, <2>1
<1>5. p + Len(s) <= Len(D)
  BY <1>1, <1>3
<1> QED
  BY <1>1, <1>2, <1>4, <1>5 DEF Lies

LEMMA EndLies ==
  ASSUME NEW B \in Seq(Nat), NEW c \in Seq(Nat)
  PROVE  Lies(c, B \o c, Len(B)) /\ B \o c \in Seq(Nat) /\ Len(B \o c) = Len(B) + Len(c)
<1>1. PICK D : D = B \o c
  OBVIOUS
<1>2. /\ D \in Seq(Nat) /\ Len(D) = Len(B) + Len(c)
      /\ \A j \in 1..Len(c) : D[Len(B) + j] = c[j]
  BY <1>1
<1>3. Len(B) \in Nat
  OBVIOUS
<1> QED
  BY <1>1, <1>2, <1>3 DEF Lies

-----------------------------------------------------------------------------
(* A frame among them *)

LEMMA Digits ==
  ASSUME NEW n \in Nat, NEW r \in Nat \ {0}
  PROVE  n \div r \in Nat /\ n % r \in Nat /\ (n \div r) * r + (n % r) = n
OBVIOUS

\* Encode spells one frame, whatever is behind it.
LEMMA EncodeBytes ==
  ASSUME NEW b \in Bodies
  PROVE  /\ Encode(b) \in Seq(Nat) /\ Len(Encode(b)) = PrefixSize + Len(b)
         /\ Encode(b)[1] * Radix + Encode(b)[2] = Len(b)
         /\ \A j \in 1..Len(b) : Encode(b)[PrefixSize + j] = b[j]
<1>1. b \in Seq(Nat) /\ Len(b) \in Nat /\ Radix \in Nat \ {0}
  BY BodyTypes
<1>2. PICK x \in Nat, y \in Nat : x = Len(b) \div Radix /\ y = Len(b) % Radix /\ x * Radix + y = Len(b)
  BY <1>1, Digits
<1>3. PICK d : d = <<x, y>>
  OBVIOUS
<1>4. d \in Seq(Nat) /\ Len(d) = 2 /\ d[1] = x /\ d[2] = y
  BY <1>3
<1>5. PICK e : e = d \o b
  OBVIOUS
<1>6. /\ e \in Seq(Nat) /\ Len(e) = 2 + Len(b) /\ e[1] = x /\ e[2] = y
      /\ \A j \in 1..Len(b) : e[2 + j] = b[j]
  <2>1. /\ e \in Seq(Nat) /\ Len(e) = Len(d) + Len(b) /\ \A j \in 1..Len(d) : e[j] = d[j]
        /\ \A j \in 1..Len(b) : e[Len(d) + j] = b[j]
    BY <1>1, <1>4, <1>5, Joined
  <2> QED
    BY <1>4, <2>1
<1>7. Encode(b) = e
  BY <1>2, <1>3, <1>5 DEF Encode
<1> QED
  BY <1>2, <1>6, <1>7 DEF PrefixSize

LEMMA SpellsNext ==
  ASSUME NEW w \in Seq(Bodies), NEW b \in Bodies, NEW B, Spells(B, w)
  PROVE  Spells(B \o Encode(b), Append(w, b))
<1>1. PICK c : c = Encode(b)
  OBVIOUS
<1>2. c \in Seq(Nat) /\ Len(c) = PrefixSize + Len(b) /\ c[1] * Radix + c[2] = Len(b)
      /\ \A j \in 1..Len(b) : c[PrefixSize + j] = b[j]
  BY <1>1, EncodeBytes
<1>3. PICK D : D = B \o c
  OBVIOUS
<1>4. PICK v : v = Append(w, b)
  OBVIOUS
<1>5. /\ v \in Seq(Bodies) /\ Len(v) = Len(w) + 1 /\ v[Len(w) + 1] = b
      /\ \A k \in 1..Len(w) : v[k] = w[k]
  BY <1>4
<1>6. \A k \in 0..Len(w) : Total(v, k) = Total(w, k)
  BY <1>4, SumsKept
<1>7. B \in Seq(Nat) /\ Len(B) = Total(w, Len(w)) /\ Total(w, Len(w)) \in Nat
  BY Sums DEF Spells
<1>8. /\ D \in Seq(Nat) /\ Len(D) = Len(B) + Len(c) /\ Lies(c, D, Len(B))
      /\ \A j \in 1..Len(B) : D[j] = B[j]
  <2>1. \A j \in 1..Len(B) : D[j] = B[j]
    BY <1>2, <1>3, <1>7
  <2> QED
    BY <1>2, <1>3, <1>7, <2>1, EndLies
<1>9. Len(D) = Total(v, Len(v))
  <2>1. Len(v) \in 1..Len(v) /\ Len(v) - 1 = Len(w) /\ Len(w) \in 0..Len(w)
    BY <1>5
  <2>2. Total(v, Len(v)) = Total(v, Len(w)) + PrefixSize + Len(b)
    BY <1>5, <2>1, Sums
  <2>3. Len(b) \in Nat
    BY BodyTypes
  <2>4. Total(v, Len(w)) = Len(B) /\ Len(B) \in Nat
    BY <1>6, <1>7, <2>1
  <2>5. Len(D) = Len(B) + (PrefixSize + Len(b))
    BY <1>2, <1>8
  <2> QED
    BY <2>2, <2>3, <2>4, <2>5 DEF PrefixSize
<1>10. ASSUME NEW i \in 1..Len(v)
       PROVE  /\ D[Total(v, i - 1) + 1] * Radix + D[Total(v, i - 1) + 2] = Len(v[i])
              /\ Lies(v[i], D, Total(v, i - 1) + PrefixSize)
  <2>1. CASE i = Len(w) + 1
    <3>1. i - 1 = Len(w) /\ Total(v, i - 1) = Len(B) /\ v[i] = b
      <4>1. Len(w) \in 0..Len(w) /\ i - 1 = Len(w)
        BY <2>1
      <4> QED
        BY <1>5, <1>6, <1>7, <2>1, <4>1
    <3>2. b \in Seq(Nat) /\ Len(b) \in Nat
      BY BodyTypes
    <3>3. Len(B) \in Nat /\ Len(B) + Len(c) <= Len(D) /\ \A j \in 1..Len(c) : D[Len(B) + j] = c[j]
      BY <1>8 DEF Lies
    <3>4. D[Len(B) + 1] = c[1] /\ D[Len(B) + 2] = c[2]
      <4>1. 1 \in 1..Len(c) /\ 2 \in 1..Len(c)
        BY <1>2, <3>2 DEF PrefixSize
      <4> QED
        BY <3>3, <4>1
    <3>5. ASSUME NEW j \in 1..Len(b) PROVE b[j] = D[(Len(B) + PrefixSize) + j]
      <4>1. PrefixSize + j \in 1..Len(c) /\ Len(B) + (PrefixSize + j) = (Len(B) + PrefixSize) + j
        BY <1>2, <3>2, <3>3 DEF PrefixSize
      <4> QED
        BY <1>2, <3>3, <4>1
    <3>6. Len(B) + PrefixSize \in Nat /\ (Len(B) + PrefixSize) + Len(b) <= Len(D)
      <4>1. Len(B) + (PrefixSize + Len(b)) <= Len(D)
        BY <1>2, <3>3
      <4> QED
        BY <3>2, <3>3, <4>1 DEF PrefixSize
    <3>7. Lies(b, D, Len(B) + PrefixSize)
      BY <3>2, <3>5, <3>6 DEF Lies
    <3> QED
      BY <1>2, <3>1, <3>4, <3>7
  <2>2. CASE i # Len(w) + 1
    <3>1. i \in 1..Len(w) /\ i - 1 \in 0..Len(w)
      BY <1>5, <2>2
    <3>2. v[i] = w[i] /\ Total(v, i - 1) = Total(w, i - 1)
      BY <1>5, <1>6, <3>1
    <3>3. PICK q : q = Total(w, i - 1)
      OBVIOUS
    <3>4. B[q + 1] * Radix + B[q + 2] = Len(w[i]) /\ Lies(w[i], B, q + PrefixSize)
      BY <3>1, <3>3 DEF Spells
    <3>5. q \in Nat /\ q + 1 \in 1..Len(B) /\ q + 2 \in 1..Len(B)
      <4>1. q \in Nat
        BY <3>1, <3>3, Sums
      <4>2. (q + PrefixSize) + Len(w[i]) <= Len(B) /\ Len(w[i]) \in Nat
        BY <3>4 DEF Lies
      <4>3. Len(B) \in Nat
        BY <1>7
      <4>4. PICK l \in Nat : l = Len(B)
        BY <4>3
      <4>5. PICK x \in Nat : x = Len(w[i])
        BY <4>2
      <4>6. q + 2 <= l
        <5>1. (q + PrefixSize) + x <= l
          BY <4>2, <4>4, <4>5
        <5> QED
          BY <4>1, <5>1 DEF PrefixSize
      <4>7. q + 1 \in 1..l /\ q + 2 \in 1..l
        BY <4>1, <4>6
      <4> QED
        BY <4>1, <4>4, <4>7
    <3>6. D[q + 1] = B[q + 1] /\ D[q + 2] = B[q + 2]
      BY <1>8, <3>5
    <3>7. Lies(w[i], D, q + PrefixSize)
      BY <1>2, <1>3, <1>7, <3>4, StillLies
    <3> QED
      BY <3>2, <3>3, <3>4, <3>6, <3>7
  <2> QED
    BY <2>1, <2>2
<1>11. Spells(D, v)
  BY <1>8, <1>9, <1>10 DEF Spells
<1> QED
  BY <1>1, <1>3, <1>4, <1>11

\* Bytes that start where a frame's body does are that body, once there are enough.
\* Behind o bytes of s, which lie at p, is the body of the frame after the k-th.
BodyBehind(w, B, k, s, p, o) ==
  /\ Spells(B, w) /\ k \in 0..Len(w) /\ k < Len(w)
  /\ Lies(s, B, p) /\ o \in Nat /\ p + o = Total(w, k) + PrefixSize
  /\ o + Len(w[k + 1]) <= Len(s)

LEMMA BodyThere ==
  ASSUME NEW w \in Seq(Bodies), NEW B, NEW k, NEW s, NEW p, NEW o, BodyBehind(w, B, k, s, p, o)
  PROVE  SubSeq(s, o + 1, o + Len(w[k + 1])) = w[k + 1]
<1> PICK x, q, a, e : /\ x = w[k + 1] /\ q = Total(w, k) + PrefixSize
                      /\ a = o + 1 /\ e = o + Len(x)
  OBVIOUS
<1>0. /\ Spells(B, w) /\ k \in 0..Len(w) /\ k < Len(w)
      /\ Lies(s, B, p) /\ o \in Nat /\ q = p + o /\ e <= Len(s)
  BY DEF BodyBehind
<1> USE <1>0
<1>1. k + 1 \in 1..Len(w) /\ (k + 1) - 1 = k
  OBVIOUS
<1>2. PICK b \in Bodies : b = x /\ b = w[k + 1]
  BY <1>1
<1>3. b \in Seq(Nat) /\ Len(b) \in Nat
  BY BodyTypes
<1>4. q = Total(w, k) + PrefixSize
  OBVIOUS
<1>5. Lies(b, B, q)
  BY <1>1, <1>2, <1>4 DEF Spells
<1>6. s \in Seq(Nat) /\ p \in Nat /\ \A j \in 1..Len(s) : s[j] = B[p + j]
  BY DEF Lies
<1>7. q = p + o /\ \A j \in 1..Len(b) : b[j] = B[q + j]
  BY <1>4, <1>5 DEF Lies
<1>8. PICK t : t = SubSeq(s, a, e)
  OBVIOUS
<1>9. e \in Nat /\ o <= e /\ e = o + Len(b)
  BY <1>2, <1>3
<1>10. Cuts(t, s, o, e)
  BY <1>6, <1>8, <1>9, Slice
<1>11. t \in Seq(Nat) /\ Len(t) = Len(b)
  BY <1>3, <1>9, <1>10 DEF Cuts
<1>12. ASSUME NEW j \in 1..Len(b) PROVE t[j] = b[j]
  <2>1. j \in 1..(e - o) /\ o + j \in 1..Len(s) /\ p + (o + j) = (p + o) + j
    <3>1. PICK l \in Nat : l = Len(s)
      BY <1>6
    <3>2. PICK c \in Nat : c = Len(b)
      BY <1>3
    <3>3. e <= l /\ e = o + c /\ j \in 1..c
      BY <1>9, <3>1, <3>2
    <3>4. j \in 1..(e - o) /\ o + j \in 1..l
      BY <3>3
    <3>5. p + (o + j) = (p + o) + j
      BY <1>6
    <3> QED
      BY <3>1, <3>4, <3>5
  <2>2. t[j] = s[o + j]
    BY <1>10, <2>1 DEF Cuts
  <2> QED
    BY <1>6, <1>7, <2>1, <2>2
<1>13. t = [j \in 1..Len(b) |-> t[j]] /\ b = [j \in 1..Len(b) |-> b[j]]
  BY <1>3, <1>11
<1>14. [j \in 1..Len(b) |-> t[j]] = [j \in 1..Len(b) |-> b[j]]
  BY <1>12
<1> QED
  BY <1>2, <1>8, <1>13, <1>14

\* Bytes that start where a frame does tell the size of its body.
LEMMA SizeThere ==
  ASSUME NEW w \in Seq(Bodies), NEW B, Spells(B, w), NEW k \in 0..Len(w),
         NEW s, Lies(s, B, Total(w, k)), PrefixSize <= Len(s)
  PROVE  k < Len(w) /\ Size(s) = Len(w[k + 1])
<1>1. PICK q : q = Total(w, k)
  OBVIOUS
<1>2. q \in Nat /\ Total(w, Len(w)) \in Nat
  BY <1>1, Sums
<1>3. s \in Seq(Nat) /\ q + Len(s) <= Len(B) /\ \A j \in 1..Len(s) : s[j] = B[q + j]
  BY <1>1 DEF Lies
<1>4. B \in Seq(Nat) /\ Len(B) = Total(w, Len(w))
  BY DEF Spells
<1>5. k < Len(w)
  BY <1>1, <1>2, <1>3, <1>4 DEF PrefixSize
<1>6. k + 1 \in 1..Len(w) /\ (k + 1) - 1 = k
  BY <1>5
<1>7. B[q + 1] * Radix + B[q + 2] = Len(w[k + 1])
  BY <1>1, <1>6 DEF Spells
<1>8. s[1] = B[q + 1] /\ s[2] = B[q + 2]
  <2>1. 1 \in 1..Len(s) /\ 2 \in 1..Len(s)
    BY <1>3 DEF PrefixSize
  <2> QED
    BY <1>3, <2>1
<1> QED
  BY <1>5, <1>7, <1>8 DEF Size

-----------------------------------------------------------------------------
(* The loop of feed_data *)

LEMMA DrainStepTyped ==
  ASSUME NEW s \in Decoders
  PROVE  DrainStep[s] \in Decoders
<1>1. s.rest \in Seq(Nat) /\ s.frames \in Seq(Seq(Nat)) /\ s.raised \in BOOLEAN
  BY DEF Decoders
<1>2. PICK r \in Seq(Nat) : r = s.rest
  BY <1>1
<1>3. CASE s.raised \/ Len(r) < PrefixSize
  BY <1>2, <1>3 DEF DrainStep
<1>4. CASE ~(s.raised \/ Len(r) < PrefixSize)
  <2>1. Len(r) \in Nat /\ 2 <= Len(r)
    BY <1>4 DEF PrefixSize
  <2>2. PICK n : n = Size(r)
    OBVIOUS
  <2>3. n \in Nat
    <3>1. r[1] \in Nat /\ r[2] \in Nat
      BY <2>1
    <3>2. r[1] * Radix \in Nat
      BY <3>1, BodyTypes
    <3> QED
      BY <2>2, <3>1, <3>2 DEF Size
  <2>4. CASE Refused(n)
    BY <1>2, <1>4, <2>2, <2>4 DEF DrainStep, Decoders
  <2>5. CASE ~Refused(n) /\ Len(r) < PrefixSize + n
    BY <1>2, <1>4, <2>2, <2>5 DEF DrainStep
  <2>6. CASE ~Refused(n) /\ ~(Len(r) < PrefixSize + n)
    <3>1. PICK e \in Nat : e = PrefixSize + n
      BY <2>3 DEF PrefixSize
    <3>2. e <= Len(r) /\ PrefixSize \in Nat /\ PrefixSize <= e
      BY <2>1, <2>3, <2>6, <3>1 DEF PrefixSize
    <3>3. PICK t : t = Rest(r, e)
      OBVIOUS
    <3>4. t \in Seq(Nat)
      <4>1. Len(r) \in Nat /\ Len(r) <= Len(r) /\ t = SubSeq(r, e + 1, Len(r))
        BY <3>3 DEF Rest
      <4>2. PICK a \in Nat, l \in Nat : a = e + 1 /\ l = Len(r)
        BY <4>1
      <4>3. Cuts(t, r, e, l)
        BY <3>2, <4>1, <4>2, Slice
      <4> QED
        BY <4>3 DEF Cuts
    <3>5. PICK c : c = SubSeq(r, PrefixSize + 1, e)
      OBVIOUS
    <3>6. c \in Seq(Nat)
      <4>1. PICK a : a = PrefixSize + 1
        OBVIOUS
      <4>2. Cuts(c, r, PrefixSize, e)
        BY <3>2, <3>5, <4>1, Slice
      <4> QED
        BY <4>2 DEF Cuts
    <3>7. Append(s.frames, c) \in Seq(Seq(Nat))
      BY <1>1, <3>6
    <3>8. DrainStep[s] = [rest |-> t, raised |-> ~WellFormed(c),
                          frames |-> IF WellFormed(c) THEN Append(s.frames, c) ELSE << >>]
      BY <1>2, <1>4, <2>2, <2>6, <3>1, <3>3, <3>5 DEF DrainStep
    <3>9. (IF WellFormed(c) THEN Append(s.frames, c) ELSE << >>) \in Seq(Seq(Nat))
      BY <3>7
    <3>10. (~WellFormed(c)) \in BOOLEAN
      OBVIOUS
    <3> QED
      BY <3>4, <3>8, <3>9, <3>10 DEF Decoders
  <2> QED
    BY <2>4, <2>5, <2>6
<1> QED
  BY <1>3, <1>4

\* The round that g[k] is, of the loop that feed_data runs on a buffer.
Drains(g, buffer) ==
  /\ g \in [0..Len(buffer) -> Decoders]
  /\ g[0] = [rest |-> buffer, frames |-> << >>, raised |-> FALSE]
  /\ \A k \in 1..Len(buffer) : g[k] = DrainStep[g[k - 1]]

LEMMA DrainedByRounds ==
  ASSUME NEW buffer \in Seq(Nat)
  PROVE  \E g : Drains(g, buffer) /\ Drained(buffer) = g[Len(buffer)]
<1> DEFINE n == Len(buffer)
           d == [rest |-> buffer, frames |-> << >>, raised |-> FALSE]
           F == [p \in (1..n) \X Decoders |-> DrainStep[p[2]]]
           G(h) == [k \in 0..n |-> IF k = 0 THEN d ELSE DrainStep[h[k - 1]]]
           loop == CHOOSE h : h = G(h)
<1>1. n \in Nat /\ d \in Decoders
  BY DEF Decoders
<1>2. F \in [(1..n) \X Decoders -> Decoders]
  BY DrainStepTyped
<1>3. \A k \in 1..n, s \in Decoders : F[<<k, s>>] = DrainStep[s]
  OBVIOUS
<1>4. Drained(buffer) = loop[n]
  BY DEF Drained
<1> HIDE DEF F, d
<1>5. PICK g : Iterates(g, n, Decoders, d, F)
  BY <1>1, <1>2, Iterated
<1>6. ASSUME NEW k \in 0..n, k # 0 PROVE g[k] = DrainStep[g[k - 1]]
  <2>1. k \in 1..n /\ k - 1 \in 0..n
    BY <1>1, <1>6
  <2>2. g[k - 1] \in Decoders
    BY <1>5, <2>1 DEF Iterates
  <2> QED
    BY <1>3, <1>5, <2>1, <2>2 DEF Iterates
<1>7. g = G(g)
  BY <1>5, <1>6 DEF Iterates
<1>8. loop = G(loop)
  BY <1>7
<1> HIDE DEF loop
<1>9. loop[0] = d /\ \A k \in 1..n : k - 1 \in 0..n /\ loop[k] = DrainStep[loop[k - 1]]
  <2>1. \A k \in 0..n : loop[k] = IF k = 0 THEN d ELSE DrainStep[loop[k - 1]]
    BY <1>8
  <2>2. 0 \in 0..n /\ \A k \in 1..n : k \in 0..n /\ k # 0 /\ k - 1 \in 0..n
    BY <1>1
  <2> QED
    BY <2>1, <2>2
<1>10. \A k \in 0..n : loop[k] \in Decoders
  <2> DEFINE Bad == {k \in Nat : k \in 0..n /\ loop[k] \notin Decoders}
  <2> SUFFICES ASSUME Bad # {} PROVE FALSE
    BY <1>1
  <2>1. PICK m \in Bad : \A k \in Bad : m <= k
    BY LeastNumber
  <2>2. m # 0
    BY <1>1, <1>9, <2>1
  <2>3. m - 1 \in Nat /\ m - 1 \in 0..n /\ ~(m <= m - 1) /\ m \in 1..n
    BY <1>1, <2>2
  <2>4. loop[m - 1] \in Decoders
    BY <2>1, <2>3
  <2> QED
    BY <1>9, <2>1, <2>3, <2>4, DrainStepTyped
<1>11. loop = [k \in 0..n |-> loop[k]]
  BY <1>8
<1>12. loop \in [0..n -> Decoders]
  BY <1>10, <1>11
<1> QED
  BY <1>4, <1>9, <1>12 DEF Drains, d

\* A decoder whose loop would change nothing.
Stopped(d) ==
  \/ d.raised \/ Len(d.rest) < PrefixSize
  \/ ~Refused(Size(d.rest)) /\ Len(d.rest) < PrefixSize + Size(d.rest)

LEMMA RoundsShrink ==
  ASSUME NEW s \in Decoders
  PROVE  /\ Stopped(s) => DrainStep[s] = s
         /\ ~Stopped(s) => \/ DrainStep[s].raised
                           \/ Len(DrainStep[s].rest) < Len(s.rest)
<1>1. PICK r \in Seq(Nat) : r = s.rest
  BY DEF Decoders
<1>2. PICK n : n = Size(r)
  OBVIOUS
<1>3. CASE Stopped(s)
  BY <1>3 DEF Stopped, DrainStep
<1>4. CASE ~Stopped(s)
  <2>1. ~s.raised /\ ~(Len(r) < PrefixSize) /\ (Refused(n) \/ ~(Len(r) < PrefixSize + n))
    BY <1>1, <1>2, <1>4 DEF Stopped
  <2>2. CASE Refused(n)
    <3>1. DrainStep[s] = [rest |-> << >>, frames |-> << >>, raised |-> TRUE]
      BY <1>1, <1>2, <2>1, <2>2 DEF DrainStep
    <3> QED
      BY <1>4, <3>1
  <2>3. CASE ~Refused(n)
    <3>1. DrainStep[s].rest = Rest(r, PrefixSize + n)
      BY <1>1, <1>2, <2>1, <2>3 DEF DrainStep
    <3>2. n \in Nat /\ PrefixSize + n <= Len(r) /\ Len(r) \in Nat
      BY <1>1, <2>1, <2>3 DEF Refused, PrefixSize
    <3>3. PICK e \in Nat, l \in Nat : e = PrefixSize + n /\ l = Len(r) /\ e > 0
      BY <3>2 DEF PrefixSize
    <3>4. PICK a, t : a = e + 1 /\ t = SubSeq(r, a, l)
      OBVIOUS
    <3>5. e \in Nat /\ e <= l /\ l <= Len(r)
      BY <3>2, <3>3 DEF PrefixSize
    <3>6. Cuts(t, r, e, l)
      BY <3>3, <3>4, <3>5, Slice
    <3>7. Len(t) = l - e
      BY <3>6 DEF Cuts
    <3>8. DrainStep[s].rest = t
      BY <3>1, <3>3, <3>4 DEF Rest
    <3>9. Len(t) < l
      BY <3>3, <3>5, <3>7
    <3> QED
      BY <1>1, <1>4, <3>3, <3>8, <3>9
  <2> QED
    BY <2>2, <2>3
<1> QED
  BY <1>3, <1>4

\* There are as many rounds as bytes, and no more frames than bytes.
LEMMA DrainedStopped ==
  ASSUME NEW buffer \in Seq(Nat)
  PROVE  Drained(buffer) \in Decoders /\ Stopped(Drained(buffer))
<1>1. PICK n \in Nat : n = Len(buffer)
  OBVIOUS
<1>2. PICK g : Drains(g, buffer) /\ Drained(buffer) = g[n]
  BY <1>1, DrainedByRounds
<1>3. /\ g \in [0..n -> Decoders] /\ g[0].rest = buffer
      /\ \A k \in 1..n : g[k] = DrainStep[g[k - 1]]
  BY <1>1, <1>2 DEF Drains
<1> DEFINE Bad == {k \in Nat : k \in 0..n /\ ~(Stopped(g[k]) \/ Len(g[k].rest) + k <= n)}
<1>4. Bad = {}
  <2> SUFFICES ASSUME Bad # {} PROVE FALSE
    OBVIOUS
  <2>1. PICK m \in Bad : \A k \in Bad : m <= k
    BY LeastNumber
  <2>2. m # 0
    BY <1>1, <1>3, <2>1
  <2>3. m - 1 \in Nat /\ m - 1 \in 0..n /\ ~(m <= m - 1) /\ m \in 1..n
    BY <2>2
  <2>4. PICK s \in Decoders : s = g[m - 1]
    BY <1>3, <2>3
  <2>5. PICK t \in Decoders : t = g[m] /\ t = DrainStep[s]
    BY <1>3, <2>3, <2>4, DrainStepTyped
  <2>6. Stopped(s) \/ Len(s.rest) + (m - 1) <= n
    BY <2>1, <2>3, <2>4
  <2>7. ~Stopped(t) /\ ~(Len(t.rest) + m <= n)
    BY <2>1, <2>5
  <2>8. ~Stopped(s)
    BY <2>5, <2>7, RoundsShrink
  <2>9. ~t.raised
    BY <2>7 DEF Stopped
  <2>10. Len(t.rest) < Len(s.rest)
    BY <2>5, <2>8, <2>9, RoundsShrink
  <2>11. PICK x \in Nat, y \in Nat : x = Len(t.rest) /\ y = Len(s.rest)
    BY DEF Decoders
  <2> QED
    BY <2>3, <2>6, <2>7, <2>8, <2>10, <2>11
<1>5. n \in 0..n /\ g[n] \in Decoders
  BY <1>3
<1>6. Stopped(g[n])
  <2>1. Stopped(g[n]) \/ Len(g[n].rest) + n <= n
    BY <1>4, <1>5
  <2>2. Len(g[n].rest) \in Nat
    BY <1>5 DEF Decoders
  <2>3. Len(g[n].rest) + n <= n => Len(g[n].rest) < PrefixSize
    BY <2>2 DEF PrefixSize
  <2> QED
    BY <2>1, <2>3 DEF Stopped
<1> QED
  BY <1>2, <1>5, <1>6

-----------------------------------------------------------------------------
(* What the loop finds *)

\* A frame that no reader could use starts, with its length, in the first n bytes.
Unusable(w, n) ==
  \E i \in 1..Len(w) :
     /\ Refused(Len(w[i])) \/ ~WellFormed(w[i])
     /\ Total(w, i - 1) + PrefixSize <= n

\* With the frames of base before them, the frames of s are the first of w, and its rest is
\* what follows them in the first n bytes.
Finds(w, B, n, base, s) ==
  IF s.raised THEN Unusable(w, n)
  ELSE \E k \in 0..Len(w) :
         /\ base \o s.frames = SubSeq(w, 1, k)
         /\ Total(w, k) + Len(s.rest) = n /\ Lies(s.rest, B, Total(w, k))

\* Appending to the second of two joined sequences appends to the join.
Joins(b, f, x) ==
  b \o Append(f, x) = Append(b \o f, x)

LEMMA AppendJoined ==
  ASSUME NEW S, NEW b \in Seq(S), NEW f \in Seq(S), NEW x \in S
  PROVE  Joins(b, f, x)
BY DEF Joins

LEMMA OneMore ==
  ASSUME NEW S, NEW w \in Seq(S), NEW k \in 0..Len(w), k < Len(w)
  PROVE  SubSeq(w, 1, k + 1) = Append(SubSeq(w, 1, k), w[k + 1])
OBVIOUS

LEMMA StepFinds ==
  ASSUME NEW w \in Seq(Bodies), NEW B, Spells(B, w), NEW n \in Nat,
         NEW base \in Seq(Seq(Nat)), NEW s \in Decoders, Finds(w, B, n, base, s)
  PROVE  Finds(w, B, n, base, DrainStep[s])
<1>1. CASE Stopped(s)
  BY <1>1, RoundsShrink
<1>2. CASE ~Stopped(s)
  <2>1. PICK r \in Seq(Nat) : r = s.rest
    BY DEF Decoders
  <2>2. PICK f \in Seq(Seq(Nat)) : f = s.frames
    BY DEF Decoders
  <2>3. ~s.raised /\ PrefixSize <= Len(r) /\ (Refused(Size(r)) \/ PrefixSize + Size(r) <= Len(r))
    <3>1. ~s.raised /\ ~(Len(r) < PrefixSize)
          /\ (Refused(Size(r)) \/ ~(Len(r) < PrefixSize + Size(r)))
      BY <1>2, <2>1 DEF Stopped
    <3>2. Size(r) \in Nat \/ Refused(Size(r))
      BY DEF Refused
    <3> QED
      BY <3>1, <3>2 DEF PrefixSize
  <2>4. PICK k \in 0..Len(w) : /\ base \o f = SubSeq(w, 1, k)
                               /\ Total(w, k) + Len(r) = n /\ Lies(r, B, Total(w, k))
    BY <2>1, <2>2, <2>3 DEF Finds
  <2>5. k < Len(w) /\ Size(r) = Len(w[k + 1])
    BY <2>3, <2>4, SizeThere
  <2>6. k + 1 \in 1..Len(w) /\ (k + 1) - 1 = k /\ k + 1 \in 0..Len(w)
    BY <2>5
  <2>7. PICK b \in Bodies : b = w[k + 1]
    BY <2>6
  <2>8. PICK q \in Nat : q = Total(w, k)
    BY Sums
  <2>9. q + PrefixSize <= n
    BY <2>3, <2>4, <2>8 DEF PrefixSize
  <2>10. PICK z \in Nat : z = Len(b) /\ z = Size(r)
    BY <2>5, <2>7, BodyTypes
  <2>11. CASE Refused(z)
    <3>1. DrainStep[s] = [rest |-> << >>, frames |-> << >>, raised |-> TRUE]
      <4>1. ~(s.raised \/ Len(r) < PrefixSize)
        BY <2>3 DEF PrefixSize
      <4> QED
        BY <2>1, <2>10, <2>11, <4>1 DEF DrainStep
    <3>2. Unusable(w, n)
      BY <2>6, <2>7, <2>8, <2>9, <2>10, <2>11 DEF Unusable
    <3> QED
      BY <3>1, <3>2 DEF Finds
  <2>12. CASE ~Refused(z)
    <3>1. PICK e \in Nat : e = PrefixSize + z
      BY DEF PrefixSize
    <3>2. e <= Len(r)
      BY <2>3, <2>10, <2>12, <3>1
    <3>3. PICK t : t = Rest(r, e)
      OBVIOUS
    <3>4. SubSeq(r, PrefixSize + 1, e) = b
      <4>1. PICK o \in Nat : o = PrefixSize
        BY DEF PrefixSize
      <4>2. Lies(r, B, q) /\ e = o + Len(b)
        BY <2>4, <2>8, <2>10, <3>1, <4>1
      <4>3. BodyBehind(w, B, k, r, q, o)
        BY <2>5, <2>7, <2>8, <3>2, <4>1, <4>2 DEF BodyBehind
      <4>4. SubSeq(r, o + 1, o + Len(w[k + 1])) = w[k + 1]
        BY <4>3, BodyThere
      <4> QED
        BY <2>7, <4>1, <4>2, <4>4
    <3>5. DrainStep[s] = [rest |-> t, raised |-> ~WellFormed(b),
                          frames |-> IF WellFormed(b) THEN Append(f, b) ELSE << >>]
      <4>1. ~(s.raised \/ Len(r) < PrefixSize) /\ ~(Len(r) < e)
        BY <2>3, <3>2 DEF PrefixSize
      <4> QED
        BY <2>1, <2>2, <2>10, <2>12, <3>1, <3>3, <3>4, <4>1 DEF DrainStep
    <3>6. CASE ~WellFormed(b)
      <4>1. Unusable(w, n)
        BY <2>6, <2>7, <2>8, <2>9, <3>6 DEF Unusable
      <4>2. DrainStep[s].raised
        <5>1. DrainStep[s] = [rest |-> t, raised |-> TRUE, frames |-> << >>]
          BY <3>5, <3>6
        <5> QED
          BY <5>1
      <4> QED
        BY <4>1, <4>2 DEF Finds
    <3>7. CASE WellFormed(b)
      <4>1. ~DrainStep[s].raised /\ DrainStep[s].rest = t /\ DrainStep[s].frames = Append(f, b)
        <5>1. DrainStep[s] = [rest |-> t, raised |-> FALSE, frames |-> Append(f, b)]
          BY <3>5, <3>7
        <5> QED
          BY <5>1
      <4>2. base \o Append(f, b) = SubSeq(w, 1, k + 1)
        <5>1. b \in Seq(Nat)
          BY BodyTypes
        <5>2. base \o Append(f, b) = Append(base \o f, b)
          <6>1. PICK S : S = Seq(Nat)
            OBVIOUS
          <6>2. base \in Seq(S)
            BY <6>1
          <6>3. f \in Seq(S)
            BY <6>1
          <6>4. b \in S
            BY <5>1, <6>1
          <6>5. Joins(base, f, b)
            BY <6>2, <6>3, <6>4, AppendJoined
          <6> QED
            BY <6>5 DEF Joins
        <5>3. SubSeq(w, 1, k + 1) = Append(SubSeq(w, 1, k), b)
          BY <2>5, <2>7, OneMore
        <5> QED
          BY <2>4, <5>2, <5>3
      <4>3. Total(w, k + 1) = q + e
        <5>1. Total(w, k + 1) = q + PrefixSize + z
          BY <2>6, <2>7, <2>8, <2>10, Sums
        <5> QED
          BY <3>1, <5>1 DEF PrefixSize
      <4>4. B \in Seq(Nat) /\ e \in 0..Len(r) /\ Lies(r, B, q)
        BY <2>4, <2>8, <3>2 DEF Spells
      <4>5. Lies(t, B, q + e) /\ Len(t) = Len(r) - e
        <5>1. Lies(Rest(r, e), B, q + e) /\ Len(Rest(r, e)) = Len(r) - e
          BY <4>4, RestLies
        <5> QED
          BY <3>3, <5>1
      <4>6. (q + e) + Len(t) = n
        BY <2>4, <2>8, <4>5
      <4> QED
        BY <2>6, <4>1, <4>2, <4>3, <4>5, <4>6 DEF Finds
    <3> QED
      BY <3>6, <3>7
  <2> QED
    BY <2>11, <2>12
<1> QED
  BY <1>1, <1>2

LEMMA DrainedFinds ==
  ASSUME NEW w \in Seq(Bodies), NEW B, Spells(B, w), NEW n \in Nat,
         NEW base \in Seq(Seq(Nat)), NEW buffer \in Seq(Nat),
         NEW d, d = [rest |-> buffer, frames |-> << >>, raised |-> FALSE],
         Finds(w, B, n, base, d)
  PROVE  Finds(w, B, n, base, Drained(buffer))
<1>1. PICK l \in Nat : l = Len(buffer)
  OBVIOUS
<1>2. PICK g : Drains(g, buffer) /\ Drained(buffer) = g[l]
  BY <1>1, DrainedByRounds
<1>3. /\ g \in [0..l -> Decoders] /\ g[0] = d
      /\ \A k \in 1..l : g[k] = DrainStep[g[k - 1]]
  BY <1>1, <1>2 DEF Drains
<1> DEFINE Bad == {k \in Nat : k \in 0..l /\ ~Finds(w, B, n, base, g[k])}
<1>4. Bad = {}
  <2> SUFFICES ASSUME Bad # {} PROVE FALSE
    OBVIOUS
  <2>1. PICK m \in Bad : \A k \in Bad : m <= k
    BY LeastNumber
  <2>2. m # 0
    BY <1>3, <2>1
  <2>3. m - 1 \in Nat /\ m - 1 \in 0..l /\ ~(m <= m - 1) /\ m \in 1..l
    BY <2>2
  <2>4. PICK s \in Decoders : s = g[m - 1]
    BY <1>3, <2>3
  <2>5. Finds(w, B, n, base, s)
    BY <2>1, <2>3, <2>4
  <2>6. g[m] = DrainStep[s]
    BY <1>3, <2>3, <2>4
  <2>7. Finds(w, B, n, base, g[m])
    BY <2>5, <2>6, StepFinds
  <2> QED
    BY <2>1, <2>7
<1>5. l \in Nat /\ l \in 0..l
  OBVIOUS
<1> QED
  BY <1>2, <1>4, <1>5

\* The frames a decoder has returned and its rest are what the first n bytes hold.
Found(w, B, n, d) ==
  IF d.raised THEN Unusable(w, n)
  ELSE \E k \in 0..Len(w) :
         /\ d.frames = SubSeq(w, 1, k)
         /\ Total(w, k) + Len(d.rest) = n /\ Lies(d.rest, B, Total(w, k))

LEMMA FeedFinds ==
  ASSUME NEW w \in Seq(Bodies), NEW B, Spells(B, w), NEW n \in Nat, NEW data, Lies(data, B, n),
         decoder \in Decoders, Stopped(decoder), Found(w, B, n, decoder),
         NEW N, N = n + Len(data)
  PROVE  /\ FeedData(data) \in Decoders /\ Stopped(FeedData(data))
         /\ Found(w, B, N, FeedData(data))
<1>1. data \in Seq(Nat) /\ Len(data) \in Nat /\ N \in Nat /\ n <= N
  BY DEF Lies
<1>2. CASE decoder.raised
  <2>1. FeedData(data) = decoder
    BY <1>2 DEF FeedData
  <2>2. PICK i \in 1..Len(w) : /\ Refused(Len(w[i])) \/ ~WellFormed(w[i])
                               /\ Total(w, i - 1) + PrefixSize <= n
    BY <1>2 DEF Found, Unusable
  <2>3. Total(w, i - 1) \in Nat
    <3>1. i - 1 \in 0..Len(w)
      OBVIOUS
    <3> QED
      BY <3>1, Sums
  <2>4. Total(w, i - 1) + PrefixSize <= N
    BY <1>1, <2>2, <2>3 DEF PrefixSize
  <2>5. Unusable(w, N)
    BY <2>2, <2>4 DEF Unusable
  <2> QED
    BY <1>2, <2>1, <2>5 DEF Found
<1>3. CASE ~decoder.raised
  <2>1. PICK k \in 0..Len(w) : /\ decoder.frames = SubSeq(w, 1, k)
                               /\ Total(w, k) + Len(decoder.rest) = n
                               /\ Lies(decoder.rest, B, Total(w, k))
    BY <1>3 DEF Found
  <2>2. PICK r \in Seq(Nat), base \in Seq(Seq(Nat)) : r = decoder.rest /\ base = decoder.frames
    BY DEF Decoders
  <2>3. PICK q \in Nat : q = Total(w, k)
    BY Sums
  <2>4. PICK buffer : buffer = r \o data
    OBVIOUS
  <2>5. B \in Seq(Nat) /\ Lies(r, B, q) /\ q + Len(r) = n /\ Lies(data, B, q + Len(r))
    BY <2>1, <2>2, <2>3 DEF Spells
  <2>6. Lies(buffer, B, q) /\ Len(buffer) = Len(r) + Len(data)
    BY <2>4, <2>5, BothLie
  <2>7. buffer \in Seq(Nat) /\ q + Len(buffer) = N
    <3>1. buffer \in Seq(Nat)
      BY <2>6 DEF Lies
    <3> QED
      BY <1>1, <2>5, <2>6, <3>1
  <2>8. PICK d : d = [rest |-> buffer, frames |-> << >>, raised |-> FALSE]
    OBVIOUS
  <2>9. Finds(w, B, N, base, d)
    <3>1. d.frames = << >> /\ ~d.raised /\ d.rest = buffer
      BY <2>8
    <3>2. base \o << >> = base
      OBVIOUS
    <3>3. base \o d.frames = SubSeq(w, 1, k)
      BY <2>1, <2>2, <3>1, <3>2
    <3> QED
      BY <2>3, <2>6, <2>7, <3>1, <3>3 DEF Finds
  <2>10. PICK x \in Decoders : x = Drained(buffer) /\ Stopped(x)
    BY <2>7, DrainedStopped
  <2>11. Finds(w, B, N, base, x)
    BY <1>1, <2>7, <2>8, <2>9, <2>10, DrainedFinds
  <2>12. PICK y : y = [x EXCEPT !.frames = base \o @]
    OBVIOUS
  <2>13. y \in Decoders /\ y.rest = x.rest /\ y.raised = x.raised /\ y.frames = base \o x.frames
    <3>1. x.frames \in Seq(Seq(Nat)) /\ x.rest \in Seq(Nat) /\ x.raised \in BOOLEAN
      BY DEF Decoders
    <3>2. PICK f \in Seq(Seq(Nat)) : f = x.frames
      BY <3>1
    <3>3. base \o f \in Seq(Seq(Nat))
      OBVIOUS
    <3>4. y = [rest |-> x.rest, frames |-> base \o f, raised |-> x.raised]
      BY <2>12, <3>2 DEF Decoders
    <3> QED
      BY <3>1, <3>2, <3>3, <3>4 DEF Decoders
  <2>14. FeedData(data) = y
    BY <1>3, <2>2, <2>4, <2>10, <2>12 DEF FeedData
  <2>15. Stopped(y)
    BY <2>10, <2>13 DEF Stopped
  <2>16. Found(w, B, N, y)
    BY <2>11, <2>13 DEF Finds, Found
  <2> QED
    BY <2>13, <2>14, <2>15, <2>16
<1> QED
  BY <1>2, <1>3

\* What has been found is all there is, and the rest is less than a frame.
LEMMA FoundIsAll ==
  ASSUME NEW w \in Seq(Bodies), NEW B, Spells(B, w), NEW n \in Nat, NEW d \in Decoders,
         Stopped(d), Found(w, B, n, d), ~d.raised
  PROVE  /\ d.frames = SubSeq(w, 1, WholeAfter(w, 0, n))
         /\ Len(d.rest) = n - Total(w, WholeAfter(w, 0, n))
         /\ Len(d.rest) < PrefixSize + ReaderLimit
<1>1. PICK k \in 0..Len(w) : /\ d.frames = SubSeq(w, 1, k)
                             /\ Total(w, k) + Len(d.rest) = n /\ Lies(d.rest, B, Total(w, k))
  BY DEF Found
<1>2. PICK r \in Seq(Nat) : r = d.rest
  BY DEF Decoders
<1>3. PICK q \in Nat : q = Total(w, k)
  BY Sums
<1>4. PICK l \in Nat : l = Len(r) /\ q + l = n
  BY <1>1, <1>2, <1>3
<1>5. ASSUME PrefixSize <= l
      PROVE  /\ k < Len(w) /\ Size(r) = Len(w[k + 1])
             /\ ~Refused(Size(r)) /\ l < PrefixSize + Size(r)
  <2>1. k < Len(w) /\ Size(r) = Len(w[k + 1])
    BY <1>1, <1>2, <1>4, <1>5, SizeThere
  <2>2. ~(l < PrefixSize)
    BY <1>5 DEF PrefixSize
  <2> QED
    BY <1>2, <1>4, <2>1, <2>2 DEF Stopped
<1>6. l < PrefixSize + ReaderLimit
  <2>1. CASE l < PrefixSize
    BY <2>1, BodyTypes DEF PrefixSize
  <2>2. CASE ~(l < PrefixSize)
    <3>1. ~Refused(Size(r)) /\ l < PrefixSize + Size(r)
      BY <1>5, <2>2 DEF PrefixSize
    <3>2. Size(r) \in Nat /\ Size(r) <= ReaderLimit
      BY <3>1, BodyTypes DEF Refused
    <3>3. PICK z \in Nat : z = Size(r)
      BY <3>2
    <3> QED
      BY <3>1, <3>2, <3>3, BodyTypes DEF PrefixSize
  <2> QED
    BY <2>1, <2>2
<1>7. LastWithin(w, 0, k, n)
  <2>1. q <= n
    BY <1>4
  <2>2. ASSUME k # Len(w) PROVE n < Total(w, k + 1)
    <3>1. k + 1 \in 1..Len(w) /\ (k + 1) - 1 = k
      BY <2>2
    <3>2. PICK z \in Nat \ {0} : z = Len(w[k + 1])
      BY <3>1, BodyTypes
    <3>3. Total(w, k + 1) = q + PrefixSize + z
      BY <1>3, <3>1, <3>2, Sums
    <3>4. l < PrefixSize + z
      <4>1. CASE l < PrefixSize
        BY <4>1 DEF PrefixSize
      <4>2. CASE ~(l < PrefixSize)
        BY <1>5, <3>2, <4>2 DEF PrefixSize
      <4> QED
        BY <4>1, <4>2
    <3> QED
      BY <1>4, <3>3, <3>4 DEF PrefixSize
  <2>3. k \in 0..Len(w)
    OBVIOUS
  <2> QED
    BY <1>3, <2>1, <2>2, <2>3 DEF LastWithin
<1>8. WholeAfter(w, 0, n) = k
  <2>1. 0 \in 0..Len(w) /\ Total(w, 0) = 0
    BY Sums
  <2>2. WholeAfter(w, 0, n - Total(w, 0)) = k - 0
    BY <1>7, <2>1, WholeCount
  <2>3. n - 0 = n /\ k - 0 = k
    OBVIOUS
  <2> QED
    BY <2>1, <2>2, <2>3
<1>9. Len(d.rest) = n - Total(w, k)
  BY <1>2, <1>3, <1>4
<1> QED
  BY <1>1, <1>2, <1>4, <1>6, <1>8, <1>9

-----------------------------------------------------------------------------
(* The inductive invariant *)

Shape ==
  /\ written \in Seq(Bodies) /\ taken \in Seq(Bodies)
  /\ line \in {"open", "fin", "cut"}
  /\ handler \in {"hello", "stream", "ended", "failed"}
  /\ awaited \in Nat /\ arrived \in Nat
  /\ decoder \in Decoders /\ Stopped(decoder)

\* A handler that is over has closed its connection.
Over == Reading \/ (line = "cut" /\ wire = << >>)

InOrder ==
  Len(taken) <= Len(written) /\ \A i \in 1..Len(taken) : taken[i] = written[i]

\* Where the reader is in the bytes that were written.
Position == Total(written, Len(taken)) + IF awaited = 0 THEN 0 ELSE PrefixSize

\* A body is awaited with the size it has.
Awaits ==
  awaited # 0 => Len(taken) < Len(written) /\ awaited = Len(written[Len(taken) + 1])

\* What the reader has not used yet, and what is under way, is what was written there, with
\* nothing missing between the two and, as long as the connection is whole, nothing behind.
InPlace(B) ==
  /\ Lies(stream, B, Position) /\ Lies(wire, B, arrived)
  /\ line # "cut" \/ wire # << >> => Position + Len(stream) = arrived
  /\ line # "cut" => arrived + Len(wire) = Len(B)

Passes(frame) == IsBatch(frame) \/ frame[1] = HEARTBEAT

\* The frames the handler has seen so far.
Served ==
  /\ handler = "hello" => taken = << >>
  /\ handler = "stream" =>
       /\ Len(taken) >= 1 /\ taken[1] = <<HELLO>>
       /\ \A i \in 2..Len(taken) : Passes(taken[i])
  /\ handler = "ended" =>
       /\ Len(taken) >= 2 /\ taken[1] = <<HELLO>> /\ Last(taken) = <<END_OF_STREAM>>
       /\ \A i \in 2..(Len(taken) - 1) : Passes(taken[i])

\* The bytes B, of which some have arrived, explain what both ends hold.
Explains(B) ==
  /\ Spells(B, written) /\ arrived <= Len(B)
  /\ Found(written, B, arrived, decoder)
  /\ Reading => Awaits /\ InPlace(B)

FrameInv == Shape /\ Over /\ InOrder /\ Served /\ \E B : Explains(B)

LEMMA InitFrameInv == Init => FrameInv
<1> SUFFICES ASSUME Init PROVE FrameInv
  OBVIOUS
<1>1. /\ written = << >> /\ wire = << >> /\ line = "open" /\ stream = << >> /\ awaited = 0
      /\ taken = << >> /\ handler = "hello" /\ arrived = 0
      /\ decoder = [rest |-> << >>, frames |-> << >>, raised |-> FALSE]
  BY DEF Init
<1>2. written \in Seq(Bodies) /\ Len(written) = 0 /\ 0 \in 0..Len(written)
  BY <1>1
<1>3. Total(written, 0) = 0
  BY <1>2, Sums
<1>4. \A p : Lies(<< >>, << >>, p) <=> p \in Nat /\ p <= 0
  <2>1. << >> \in Seq(Nat) /\ Len(<< >>) = 0 /\ 1..0 = {}
    OBVIOUS
  <2> QED
    BY <2>1 DEF Lies
<1>5. Spells(<< >>, written)
  BY <1>2, <1>3 DEF Spells
<1>6. Shape
  <2>1. decoder \in Decoders /\ decoder.rest = << >> /\ Len(decoder.rest) = 0
    BY <1>1 DEF Decoders
  <2>2. Stopped(decoder)
    BY <2>1 DEF Stopped, PrefixSize
  <2> QED
    BY <1>1, <2>1, <2>2 DEF Shape
<1>7. Found(written, << >>, 0, decoder)
  <2>1. ~decoder.raised /\ decoder.frames = << >> /\ decoder.rest = << >>
    BY <1>1
  <2>2. SubSeq(written, 1, 0) = << >>
    BY <1>1
  <2>3. Lies(<< >>, << >>, 0)
    BY <1>4
  <2> QED
    BY <1>2, <1>3, <2>1, <2>2, <2>3 DEF Found
<1>8. InPlace(<< >>) /\ Awaits
  <2>1. Position = 0
    BY <1>1, <1>2, <1>3 DEF Position
  <2> QED
    BY <1>1, <1>4, <2>1 DEF InPlace, Awaits
<1>9. Explains(<< >>)
  BY <1>1, <1>5, <1>7, <1>8 DEF Explains
<1>10. Over /\ InOrder /\ Served
  BY <1>1, <1>2 DEF Over, Reading, InOrder, Served
<1> QED
  BY <1>6, <1>9, <1>10 DEF FrameInv

LEMMA PositionType ==
  ASSUME Shape, InOrder
  PROVE  /\ Len(taken) \in 0..Len(written) /\ Total(written, Len(taken)) \in Nat
         /\ Position \in Nat /\ Position <= Total(written, Len(taken)) + PrefixSize
         /\ Total(written, Len(taken)) <= Position
<1>1. Len(taken) \in 0..Len(written) /\ written \in Seq(Bodies)
  BY DEF Shape, InOrder
<1>2. Total(written, Len(taken)) \in Nat
  BY <1>1, Sums
<1> QED
  BY <1>1, <1>2 DEF Position, PrefixSize

\* What was found stays found when more is written.
LEMMA FoundKept ==
  ASSUME NEW w \in Seq(Bodies), NEW b \in Bodies, NEW B \in Seq(Nat), NEW c \in Seq(Nat),
         NEW n, NEW d, Found(w, B, n, d)
  PROVE  Found(Append(w, b), B \o c, n, d)
<1>1. PICK v : v = Append(w, b)
  OBVIOUS
<1>2. /\ v \in Seq(Bodies) /\ Len(v) = Len(w) + 1 /\ \A i \in 1..Len(w) : v[i] = w[i]
      /\ Len(w) \in Nat
  BY <1>1
<1>3. \A i \in 0..Len(w) : Total(v, i) = Total(w, i)
  BY <1>1, SumsKept
<1>4. PICK D : D = B \o c
  OBVIOUS
<1>5. CASE d.raised
  <2>1. PICK i \in 1..Len(w) : /\ Refused(Len(w[i])) \/ ~WellFormed(w[i])
                               /\ Total(w, i - 1) + PrefixSize <= n
    BY <1>5 DEF Found, Unusable
  <2>2. i \in 1..Len(v) /\ i - 1 \in 0..Len(w)
    BY <1>2
  <2>3. v[i] = w[i] /\ Total(v, i - 1) = Total(w, i - 1)
    BY <1>2, <1>3, <2>2
  <2>4. Unusable(v, n)
    BY <2>1, <2>2, <2>3 DEF Unusable
  <2> QED
    BY <1>1, <1>4, <1>5, <2>4 DEF Found
<1>6. CASE ~d.raised
  <2>1. PICK k \in 0..Len(w) : /\ d.frames = SubSeq(w, 1, k)
                               /\ Total(w, k) + Len(d.rest) = n /\ Lies(d.rest, B, Total(w, k))
    BY <1>6 DEF Found
  <2>2. Total(v, k) = Total(w, k) /\ k \in 0..Len(v)
    BY <1>2, <1>3
  <2>3. SubSeq(v, 1, k) = SubSeq(w, 1, k)
    <3>1. SubSeq(v, 1, k) = [j \in 1..k |-> v[j]] /\ SubSeq(w, 1, k) = [j \in 1..k |-> w[j]]
      BY <1>2
    <3>2. \A j \in 1..k : v[j] = w[j]
      BY <1>2
    <3> QED
      BY <3>1, <3>2
  <2>4. Lies(d.rest, D, Total(w, k))
    BY <1>4, <2>1, StillLies
  <2>5. Found(v, D, n, d)
    BY <1>6, <2>1, <2>2, <2>3, <2>4 DEF Found
  <2> QED
    BY <1>1, <1>4, <2>5
<1> QED
  BY <1>5, <1>6

LEMMA CloseKeeps ==
  ASSUME FrameInv, line = "open", line' = "fin",
         UNCHANGED <<written, wire, readerVars, decoder, arrived>>
  PROVE  FrameInv'
<1>1. /\ written' = written /\ wire' = wire /\ stream' = stream /\ awaited' = awaited
      /\ taken' = taken /\ handler' = handler /\ decoder' = decoder /\ arrived' = arrived
  BY DEF readerVars
<1>2. Shape' /\ Over' /\ InOrder' /\ Served'
  BY <1>1 DEF FrameInv, Shape, Over, Reading, InOrder, Served, Stopped
<1>3. PICK B : Explains(B)
  BY DEF FrameInv
<1>4. Position' = Position /\ (Awaits' <=> Awaits) /\ (Reading' <=> Reading)
  BY <1>1 DEF Position, Awaits, Reading
<1>5. InPlace(B) => InPlace(B)'
  BY <1>1, <1>4 DEF InPlace
<1>6. Explains(B)'
  BY <1>1, <1>3, <1>4, <1>5 DEF Explains
<1> QED
  BY <1>2, <1>6 DEF FrameInv

LEMMA WriteKeeps ==
  ASSUME FrameInv, WriteFrame
  PROVE  FrameInv'
<1>1. line = "open" /\ UNCHANGED <<readerVars, decoder, arrived>>
  BY DEF WriteFrame
<1>2. /\ stream' = stream /\ awaited' = awaited /\ taken' = taken /\ handler' = handler
      /\ decoder' = decoder /\ arrived' = arrived
  BY <1>1 DEF readerVars
<1>3. Shape /\ Over /\ InOrder /\ Served
  BY DEF FrameInv
<1>4. Reading
  BY <1>1, <1>3 DEF Over
<1>5. PICK B : Explains(B)
  BY DEF FrameInv
<1>6. PICK body \in Bodies :
        \/ written' = Append(written, body) /\ wire' = wire \o Encode(body) /\ line' = line
        \/ line' = "fin" /\ written' = written /\ wire' = wire
  BY DEF WriteFrame
<1>7. CASE line' = "fin" /\ written' = written /\ wire' = wire
  BY <1>1, <1>7, CloseKeeps
<1>8. CASE written' = Append(written, body) /\ wire' = wire \o Encode(body) /\ line' = line
  <2>1. PICK w \in Seq(Bodies), k \in Nat : w = written /\ k = Len(taken) /\ k <= Len(w)
    BY <1>3 DEF Shape, InOrder
  <2>2. PICK v : v = written' /\ v = Append(w, body)
    BY <1>8, <2>1
  <2>3. /\ v \in Seq(Bodies) /\ Len(v) = Len(w) + 1 /\ \A i \in 1..Len(w) : v[i] = w[i]
        /\ Len(w) \in Nat
    BY <2>2
  <2>4. PICK c \in Seq(Nat) : c = Encode(body) /\ Len(c) = PrefixSize + Len(body)
    BY EncodeBytes
  <2>5. PICK D : D = B \o c
    OBVIOUS
  <2>6. /\ Spells(B, w) /\ B \in Seq(Nat) /\ arrived <= Len(B) /\ Found(w, B, arrived, decoder)
        /\ Awaits /\ InPlace(B)
    BY <1>4, <1>5, <2>1 DEF Explains, Spells
  <2>7. Spells(D, v)
    BY <2>2, <2>4, <2>5, <2>6, SpellsNext
  <2>8. D \in Seq(Nat) /\ Len(D) = Len(B) + Len(c) /\ Lies(c, D, Len(B))
    BY <2>4, <2>5, <2>6, EndLies
  <2>9. Found(v, D, arrived, decoder)
    BY <2>2, <2>4, <2>5, <2>6, FoundKept
  <2>10. Shape'
    BY <1>2, <1>3, <1>8, <2>2, <2>3 DEF Shape, Stopped
  <2>11. Over' /\ Served' /\ Reading'
    BY <1>2, <1>3, <1>4 DEF Over, Served, Reading
  <2>12. InOrder'
    <3>1. Len(taken) <= Len(v) /\ \A i \in 1..Len(taken) : taken[i] = v[i]
      <4>1. \A i \in 1..k : taken[i] = w[i] /\ i \in 1..Len(w)
        BY <1>3, <2>1 DEF InOrder
      <4> QED
        BY <2>1, <2>3, <4>1
    <3> QED
      BY <1>2, <2>2, <3>1 DEF InOrder
  <2>13. Awaits'
    <3>1. awaited # 0 => k < Len(w) /\ awaited = Len(w[k + 1])
      BY <2>1, <2>6 DEF Awaits
    <3>2. k < Len(w) => k < Len(v) /\ v[k + 1] = w[k + 1]
      BY <2>3
    <3>3. awaited # 0 => k < Len(v) /\ awaited = Len(v[k + 1])
      BY <3>1, <3>2
    <3> QED
      BY <1>2, <2>1, <2>2, <3>3 DEF Awaits
  <2>14. PICK p \in Nat : p = Position /\ p = Position'
    <3>1. k \in 0..Len(w)
      BY <2>1
    <3>2. Total(v, k) = Total(w, k)
      BY <2>2, <3>1, SumsKept
    <3>3. Position' = Position
      BY <1>2, <2>1, <2>2, <3>2 DEF Position
    <3> QED
      BY <1>3, <3>3, PositionType
  <2>15. InPlace(D)'
    <3>1. /\ Lies(stream, B, p) /\ Lies(wire, B, arrived) /\ p + Len(stream) = arrived
          /\ arrived + Len(wire) = Len(B)
      BY <1>1, <2>6, <2>14 DEF InPlace
    <3>2. Lies(stream, D, p) /\ Lies(wire, D, arrived)
      BY <2>4, <2>5, <2>6, <3>1, StillLies
    <3>3. Lies(wire \o c, D, arrived) /\ Len(wire \o c) = Len(wire) + Len(c)
      BY <2>8, <3>1, <3>2, BothLie
    <3>4. arrived + Len(wire \o c) = Len(D)
      <4>1. Len(wire) \in Nat /\ arrived \in Nat /\ Len(c) \in Nat
        BY <1>3, <3>1 DEF Shape, Lies
      <4>2. PICK x \in Nat, y \in Nat, z \in Nat : x = Len(wire) /\ y = arrived /\ z = Len(c)
        BY <4>1
      <4>3. y + (x + z) = (y + x) + z
        BY <4>2
      <4>4. y + x = Len(B) /\ Len(D) = Len(B) + z /\ Len(wire \o c) = x + z
        BY <2>8, <3>1, <3>3, <4>2
      <4> QED
        BY <4>2, <4>3, <4>4
    <3>5. wire' = wire \o c
      BY <1>8, <2>4
    <3> QED
      BY <1>2, <2>14, <3>1, <3>2, <3>3, <3>4, <3>5 DEF InPlace
  <2>16. arrived <= Len(D)
    <3>1. arrived \in Nat /\ Len(B) \in Nat /\ Len(c) \in Nat
      BY <1>3, <2>6 DEF Shape
    <3> QED
      BY <2>6, <2>8, <3>1
  <2>17. Explains(D)'
    BY <1>2, <2>2, <2>7, <2>9, <2>13, <2>15, <2>16 DEF Explains
  <2> QED
    BY <2>10, <2>11, <2>12, <2>17 DEF FrameInv
<1> QED
  BY <1>6, <1>7, <1>8

LEMMA DeliverKeeps ==
  ASSUME FrameInv, Deliver
  PROVE  FrameInv'
<1>1. /\ written' = written /\ line' = line /\ awaited' = awaited /\ taken' = taken
      /\ handler' = handler /\ handler \notin {"ended", "failed"}
  BY DEF Deliver
<1>2. Shape /\ Over /\ InOrder /\ Served
  BY DEF FrameInv
<1>3. Reading
  BY <1>1, <1>2 DEF Shape, Reading
<1>4. PICK n \in 1..Len(wire) :
        /\ stream' = stream \o SubSeq(wire, 1, n) /\ decoder' = FeedData(SubSeq(wire, 1, n))
        /\ arrived' = arrived + n /\ wire' = Rest(wire, n)
  BY DEF Deliver
<1>5. PICK data : data = SubSeq(wire, 1, n)
  OBVIOUS
<1>6. PICK B : Explains(B)
  BY DEF FrameInv
<1>7. PICK p \in Nat : p = Position
  BY <1>2, PositionType
<1>8. Position' = p
  BY <1>1, <1>7 DEF Position
<1>9. /\ Spells(B, written) /\ B \in Seq(Nat) /\ arrived <= Len(B)
      /\ Found(written, B, arrived, decoder) /\ Awaits /\ InPlace(B)
  BY <1>3, <1>6 DEF Explains, Spells
<1>10. wire \in Seq(Nat) /\ Len(wire) \in Nat /\ stream \in Seq(Nat) /\ Len(stream) \in Nat
  <2>1. Lies(stream, B, p) /\ Lies(wire, B, arrived)
    BY <1>7, <1>9 DEF InPlace
  <2>2. wire \in Seq(Nat) /\ stream \in Seq(Nat)
    BY <2>1 DEF Lies
  <2> QED
    BY <2>2
<1>11. n \in 0..Len(wire) /\ wire # << >> /\ n \in Nat
  BY <1>10
<1>12. /\ Lies(stream, B, p) /\ Lies(wire, B, arrived) /\ p + Len(stream) = arrived
       /\ line # "cut" => arrived + Len(wire) = Len(B)
  BY <1>7, <1>9, <1>11 DEF InPlace
<1>13. Lies(data, B, arrived) /\ Len(data) = n
  BY <1>5, <1>9, <1>11, <1>12, FirstLies
<1>14. Lies(Rest(wire, n), B, arrived + n) /\ Len(Rest(wire, n)) = Len(wire) - n
  BY <1>9, <1>11, <1>12, RestLies
<1>15. Lies(stream \o data, B, p) /\ Len(stream \o data) = Len(stream) + Len(data)
  <2>1. PICK s : s = stream
    OBVIOUS
  <2>2. Lies(s, B, p) /\ Lies(data, B, p + Len(s))
    BY <1>12, <1>13, <2>1
  <2>3. Lies(s \o data, B, p) /\ Len(s \o data) = Len(s) + Len(data)
    BY <1>9, <2>2, BothLie
  <2> QED
    BY <2>1, <2>3
<1>16. arrived \in Nat /\ arrived + n <= Len(B)
  BY <1>2, <1>11, <1>13 DEF Shape, Lies
<1>17. FeedData(data) \in Decoders /\ Stopped(FeedData(data)) /\ Found(written, B, arrived + n, FeedData(data))
  <2>1. PICK N : N = arrived + n /\ N = arrived + Len(data)
    BY <1>13
  <2>2. written \in Seq(Bodies) /\ decoder \in Decoders /\ Stopped(decoder)
    BY <1>2 DEF Shape
  <2> QED
    BY <1>9, <1>13, <1>16, <2>1, <2>2, FeedFinds
<1>18. PICK x : x = FeedData(data)
  OBVIOUS
<1>19. decoder' = x /\ arrived' = arrived + n /\ stream' = stream \o data /\ wire' = Rest(wire, n)
  BY <1>4, <1>5, <1>18
<1>20. Shape'
  <2>1. x \in Decoders /\ Stopped(x)
    BY <1>17, <1>18
  <2>2. Stopped(decoder)'
    BY <1>19, <2>1 DEF Stopped
  <2>3. arrived' \in Nat
    BY <1>11, <1>16, <1>19
  <2> QED
    BY <1>1, <1>2, <1>19, <2>1, <2>2, <2>3 DEF Shape
<1>21. Over' /\ InOrder' /\ Served' /\ Awaits'
  BY <1>1, <1>2, <1>3, <1>9 DEF Over, InOrder, Served, Awaits, Reading
<1>22. InPlace(B)'
  <2>1. p + Len(stream \o data) = arrived + n
    BY <1>10, <1>12, <1>13, <1>15
  <2>2. line # "cut" => (arrived + n) + Len(Rest(wire, n)) = Len(B)
    <3>1. PICK size \in Nat, from \in Nat : size = Len(wire) /\ from = arrived
      BY <1>10, <1>16
    <3>2. line # "cut" => from + size = Len(B)
      BY <1>12, <3>1
    <3>3. (from + n) + (size - n) = from + size
      BY <1>11
    <3> QED
      BY <1>14, <3>1, <3>2, <3>3
  <2> QED
    BY <1>1, <1>8, <1>14, <1>15, <1>19, <2>1, <2>2 DEF InPlace
<1>23. Explains(B)'
  <2>1. Found(written, B, arrived + n, x)
    BY <1>17, <1>18
  <2> QED
    BY <1>1, <1>9, <1>16, <1>19, <1>21, <1>22, <2>1 DEF Explains
<1> QED
  BY <1>20, <1>21, <1>23 DEF FrameInv

LEMMA FirstParts ==
  ASSUME NEW B \in Seq(Nat), NEW p, NEW s, Lies(s, B, p), NEW n \in Int
  PROVE  /\ Lies(First(s, n), B, p)
         /\ n <= 0 => First(s, n) = << >>
         /\ n >= Len(s) => Len(First(s, n)) = Len(s)
<1>1. s \in Seq(Nat) /\ Len(s) \in Nat
  BY DEF Lies
<1>2. CASE n < 0
  <2>1. First(s, n) = SubSeq(s, 1, n)
    BY <1>1, <1>2 DEF First
  <2>2. SubSeq(s, 1, n) = << >>
    BY <1>1, <1>2
  <2>3. Lies(<< >>, B, p)
    <3>1. p \in Nat /\ p <= Len(B)
      <4>1. p \in Nat /\ p + Len(s) <= Len(B) /\ Len(B) \in Nat
        BY DEF Lies
      <4> QED
        BY <1>1, <4>1
    <3>2. << >> \in Seq(Nat) /\ Len(<< >>) = 0 /\ p + 0 = p /\ 1..0 = {}
      BY <3>1
    <3> QED
      BY <3>1, <3>2 DEF Lies
  <2>4. ~(n >= Len(s))
    BY <1>1, <1>2
  <2> QED
    BY <2>1, <2>2, <2>3, <2>4
<1>3. CASE ~(n < 0)
  <2>1. PICK m : m = IF n < Len(s) THEN n ELSE Len(s)
    OBVIOUS
  <2>2. m \in 0..Len(s) /\ (n <= 0 => m = 0) /\ (n >= Len(s) => m = Len(s))
    BY <1>1, <1>3, <2>1
  <2>3. First(s, n) = SubSeq(s, 1, m)
    BY <2>1 DEF First
  <2>4. Lies(SubSeq(s, 1, m), B, p) /\ Len(SubSeq(s, 1, m)) = m
    BY <2>2, FirstLies
  <2>5. m = 0 => SubSeq(s, 1, m) = << >>
    BY <1>1
  <2> QED
    BY <2>2, <2>3, <2>4, <2>5
<1> QED
  BY <1>2, <1>3

LEMMA BreaksKeep ==
  ASSUME FrameInv, Breaks
  PROVE  FrameInv'
<1>1. /\ written' = written /\ awaited' = awaited /\ taken' = taken /\ handler' = handler
      /\ decoder' = decoder /\ arrived' = arrived /\ line' = "cut" /\ line # "cut"
      /\ handler \notin {"ended", "failed"}
  BY DEF Breaks
<1>2. Shape /\ Over /\ InOrder /\ Served
  BY DEF FrameInv
<1>3. Reading
  BY <1>1, <1>2 DEF Shape, Reading
<1>4. PICK n \in 0..(Len(stream) + Len(wire)) :
        stream' = First(stream, n) /\ wire' = First(wire, n - Len(stream))
  BY DEF Breaks
<1>5. PICK B : Explains(B)
  BY DEF FrameInv
<1>6. PICK p \in Nat : p = Position
  BY <1>2, PositionType
<1>7. Position' = p
  BY <1>1, <1>6 DEF Position
<1>8. /\ Spells(B, written) /\ B \in Seq(Nat) /\ arrived <= Len(B)
      /\ Found(written, B, arrived, decoder) /\ Awaits /\ InPlace(B)
  BY <1>3, <1>5 DEF Explains, Spells
<1>9. Lies(stream, B, p) /\ Lies(wire, B, arrived) /\ p + Len(stream) = arrived
  BY <1>1, <1>6, <1>8 DEF InPlace
<1>10. PICK l \in Nat, m \in Nat : l = Len(stream) /\ m = Len(wire)
  BY <1>9 DEF Lies
<1>11. n \in Int /\ n - l \in Int
  BY <1>10
<1>12. Lies(stream', B, p) /\ (n >= l => Len(stream') = l)
  BY <1>4, <1>8, <1>9, <1>10, <1>11, FirstParts
<1>13. Lies(wire', B, arrived) /\ (n - l <= 0 => wire' = << >>)
  BY <1>4, <1>8, <1>9, <1>10, <1>11, FirstParts
<1>14. wire' # << >> => p + Len(stream') = arrived
  <2>1. ~(n - l <= 0) => n >= l
    BY <1>10, <1>11
  <2> QED
    BY <1>9, <1>10, <1>12, <1>13, <2>1
<1>15. InPlace(B)'
  BY <1>1, <1>7, <1>12, <1>13, <1>14 DEF InPlace
<1>16. Shape'
  BY <1>1, <1>2 DEF Shape, Stopped
<1>17. Over' /\ InOrder' /\ Served' /\ Awaits'
  BY <1>1, <1>2, <1>3, <1>8 DEF Over, InOrder, Served, Awaits, Reading
<1>18. Explains(B)'
  BY <1>1, <1>8, <1>15, <1>17 DEF Explains
<1> QED
  BY <1>16, <1>17, <1>18 DEF FrameInv

\* A handler that closes its connection has nothing more to read.
LEMMA ClosesKeeps ==
  ASSUME FrameInv, NEW as \in {"ended", "failed"}, Closes(as),
         UNCHANGED <<written, decoder, arrived>>, awaited' \in Nat,
         taken' \in Seq(Bodies), InOrder', Served'
  PROVE  FrameInv'
<1>1. Shape /\ line' = "cut" /\ wire' = << >> /\ handler' = as
  BY DEF FrameInv, Closes
<1>2. Shape' /\ Over'
  BY <1>1 DEF Shape, Over, Stopped
<1>3. ~Reading'
  BY <1>1 DEF Reading
<1>4. PICK B : Explains(B)
  BY DEF FrameInv
<1>5. Explains(B)'
  BY <1>3, <1>4 DEF Explains
<1> QED
  BY <1>2, <1>5 DEF FrameInv

LEMMA EofKeeps ==
  ASSUME FrameInv, EofFails
  PROVE  FrameInv'
<1>1. Closes("failed") /\ UNCHANGED <<written, stream, awaited, taken, heartbeat, decoder, arrived>>
  BY DEF EofFails
<1>2. awaited' \in Nat /\ taken' \in Seq(Bodies) /\ InOrder'
  BY <1>1 DEF FrameInv, Shape, InOrder
<1>3. Served'
  BY <1>1 DEF Served, Closes
<1> QED
  BY <1>1, <1>2, <1>3, ClosesKeeps

\* The next frame, read as far as its length.
LEMMA PrefixKeeps ==
  ASSUME FrameInv, ReadPrefix
  PROVE  FrameInv'
<1>1. /\ Reading /\ awaited = 0 /\ Len(stream) >= PrefixSize
      /\ stream' = Rest(stream, PrefixSize)
      /\ UNCHANGED <<written, taken, heartbeat, decoder, arrived>>
  BY DEF ReadPrefix
<1>2. Shape /\ Over /\ InOrder /\ Served
  BY DEF FrameInv
<1>3. CASE ~Refused(Size(stream)) /\ awaited' = Size(stream) /\ UNCHANGED <<wire, line, handler>>
  <2>1. PICK B : Explains(B)
    BY DEF FrameInv
  <2>2. /\ Spells(B, written) /\ B \in Seq(Nat) /\ arrived <= Len(B)
        /\ Found(written, B, arrived, decoder) /\ InPlace(B)
    BY <1>1, <2>1 DEF Explains, Spells
  <2>3. PICK k \in 0..Len(written) : k = Len(taken)
    BY <1>2, PositionType
  <2>4. PICK p \in Nat : p = Position /\ p = Total(written, k)
    <3>1. Total(written, k) \in Nat /\ Position = Total(written, k) + 0
      BY <1>1, <1>2, <2>3, PositionType DEF Position
    <3> QED
      BY <3>1
  <2>5. Lies(stream, B, p) /\ Lies(wire, B, arrived)
    BY <2>2, <2>4 DEF InPlace
  <2>6. PICK l \in Nat : l = Len(stream) /\ l >= PrefixSize
    BY <1>1, <2>5 DEF Lies
  <2>7. PrefixSize <= Len(stream) /\ written \in Seq(Bodies)
    BY <1>1, <1>2, <2>6 DEF Shape, PrefixSize
  <2>8. k < Len(written) /\ Size(stream) = Len(written[k + 1])
    BY <2>2, <2>4, <2>5, <2>7, SizeThere
  <2>9. Size(stream) \in Nat /\ Size(stream) # 0
    BY <1>3, BodyTypes DEF Refused
  <2>10. PICK o \in Nat : o = PrefixSize /\ o = 2
    BY DEF PrefixSize
  <2>11. o \in 0..Len(stream)
    BY <2>6, <2>10
  <2>12. Lies(Rest(stream, o), B, p + o) /\ Len(Rest(stream, o)) = Len(stream) - o
    BY <2>2, <2>5, <2>11, RestLies
  <2>13. Position' = p + o
    BY <1>1, <1>3, <2>3, <2>4, <2>9, <2>10 DEF Position
  <2>14. (p + o) + Len(Rest(stream, o)) = p + Len(stream)
    BY <2>6, <2>10, <2>12
  <2>15. InPlace(B)'
    BY <1>1, <1>3, <2>2, <2>4, <2>5, <2>10, <2>12, <2>13, <2>14 DEF InPlace
  <2>16. Awaits'
    BY <1>1, <1>3, <2>3, <2>8 DEF Awaits
  <2>17. Shape' /\ Over' /\ InOrder' /\ Served'
    BY <1>1, <1>2, <1>3, <2>9 DEF Shape, Over, InOrder, Served, Reading, Stopped
  <2>18. Explains(B)'
    BY <1>1, <2>2, <2>15, <2>16 DEF Explains
  <2> QED
    BY <2>17, <2>18 DEF FrameInv
<1>4. CASE Closes("failed") /\ UNCHANGED awaited
  <2>1. awaited' \in Nat /\ taken' \in Seq(Bodies) /\ InOrder'
    BY <1>1, <1>2, <1>4 DEF Shape, InOrder
  <2>2. Served'
    BY <1>4 DEF Served, Closes
  <2> QED
    BY <1>1, <1>4, <2>1, <2>2, ClosesKeeps
<1> QED
  BY <1>3, <1>4 DEF ReadPrefix

\* The body that is read is the one of the next frame.
LEMMA NextBody ==
  ASSUME FrameInv, Reading, awaited > 0, Len(stream) >= awaited
  PROVE  /\ Len(taken) < Len(written) /\ awaited = Len(written[Len(taken) + 1])
         /\ SubSeq(stream, 1, awaited) = written[Len(taken) + 1]
<1>1. Shape /\ Over /\ InOrder /\ Served
  BY DEF FrameInv
<1>2. PICK B : Explains(B)
  BY DEF FrameInv
<1>3. Spells(B, written) /\ Awaits /\ InPlace(B)
  BY <1>2 DEF Explains
<1>4. PICK k \in 0..Len(written), p \in Nat : k = Len(taken) /\ p = Position
  BY <1>1, PositionType
<1>5. awaited \in Nat /\ awaited # 0
  BY <1>1 DEF Shape
<1>6. k < Len(written) /\ awaited = Len(written[k + 1])
  BY <1>3, <1>4, <1>5 DEF Awaits
<1>7. p + 0 = Total(written, k) + PrefixSize
  BY <1>4, <1>5 DEF Position
<1>8. Lies(stream, B, p) /\ 0 + Len(written[k + 1]) <= Len(stream) /\ 0 + awaited = awaited
  <2>1. Lies(stream, B, p) /\ Len(stream) \in Nat
    BY <1>3, <1>4 DEF InPlace, Lies
  <2> QED
    BY <1>5, <1>6, <2>1
<1>9. BodyBehind(written, B, k, stream, p, 0)
  BY <1>3, <1>6, <1>7, <1>8 DEF BodyBehind
<1>10. written \in Seq(Bodies)
  BY <1>1 DEF Shape
<1>11. SubSeq(stream, 0 + 1, 0 + Len(written[k + 1])) = written[k + 1]
  BY <1>9, <1>10, BodyThere
<1> QED
  BY <1>4, <1>6, <1>8, <1>11

LEMMA BodyKeeps ==
  ASSUME FrameInv, ReadBody
  PROVE  FrameInv'
<1>1. /\ Reading /\ awaited > 0 /\ Len(stream) >= awaited
      /\ stream' = Rest(stream, awaited) /\ awaited' = 0
      /\ UNCHANGED <<written, decoder, arrived>>
  BY DEF ReadBody
<1>2. Shape /\ Over /\ InOrder /\ Served
  BY DEF FrameInv
<1>3. PICK w \in Seq(Bodies), k \in 0..Len(written) : w = written /\ k = Len(taken)
  BY <1>2, PositionType DEF Shape
<1>4. k < Len(w) /\ awaited = Len(w[k + 1]) /\ SubSeq(stream, 1, awaited) = w[k + 1]
  BY <1>1, <1>3, NextBody
<1>5. k + 1 \in 1..Len(w) /\ (k + 1) - 1 = k
  BY <1>4
<1>6. PICK b \in Bodies : b = w[k + 1]
  BY <1>5
<1>7. \/ WellFormed(b) /\ taken' = Append(taken, b) /\ Handles(b)
      \/ ~WellFormed(b) /\ Closes("failed") /\ UNCHANGED <<taken, heartbeat>>
  BY <1>4, <1>6 DEF ReadBody
<1>8. CASE ~WellFormed(b) /\ Closes("failed") /\ UNCHANGED <<taken, heartbeat>>
  <2>1. awaited' \in Nat /\ taken' \in Seq(Bodies) /\ InOrder'
    BY <1>1, <1>2, <1>8 DEF Shape, InOrder
  <2>2. Served'
    BY <1>8 DEF Served, Closes
  <2> QED
    BY <1>1, <1>8, <2>1, <2>2, ClosesKeeps
<1>9. CASE WellFormed(b) /\ taken' = Append(taken, b) /\ Handles(b)
  <2>1. PICK t, u : t = taken /\ u = Append(t, b) /\ u = taken' /\ t \in Seq(Bodies)
    BY <1>2, <1>9 DEF Shape
  <2>2. u \in Seq(Bodies) /\ Len(u) = k + 1 /\ u[k + 1] = b /\ \A i \in 1..k : u[i] = t[i]
    <3>1. PICK x \in Seq(Bodies) : x = t
      BY <2>1
    <3>2. u = Append(x, b)
      BY <2>1, <3>1
    <3>3. u \in Seq(Bodies) /\ Len(u) = Len(x) + 1
      BY <3>2
    <3>4. u[Len(x) + 1] = b
      BY <3>2
    <3>5. ASSUME NEW i \in 1..Len(x) PROVE u[i] = x[i]
      BY <3>2
    <3>6. Len(x) = k
      BY <1>3, <2>1, <3>1
    <3> QED
      BY <3>1, <3>3, <3>4, <3>5, <3>6
  <2>3. InOrder'
    <3>1. Len(u) <= Len(w)
      BY <1>4, <2>2
    <3>2. ASSUME NEW i \in 1..Len(u) PROVE u[i] = w[i]
      <4>1. CASE i = k + 1
        BY <1>6, <2>2, <4>1
      <4>2. CASE i # k + 1
        <5>1. i \in 1..k
          BY <2>2, <4>2
        <5> QED
          BY <1>2, <1>3, <2>1, <2>2, <5>1 DEF InOrder
      <4> QED
        BY <4>1, <4>2
    <3> QED
      BY <1>1, <1>3, <2>1, <3>1, <3>2 DEF InOrder
  <2>4. /\ handler = "stream" => k >= 1 /\ u[1] = <<HELLO>> /\ \A i \in 2..k : Passes(u[i])
        /\ handler = "hello" => k = 0
    <3>1. handler = "stream" => k >= 1 /\ t[1] = <<HELLO>> /\ \A i \in 2..k : Passes(t[i])
      BY <1>2, <1>3, <2>1 DEF Served
    <3>2. handler = "hello" => k = 0
      BY <1>2, <1>3 DEF Served
    <3>3. k >= 1 => u[1] = t[1] /\ \A i \in 2..k : u[i] = t[i]
      BY <2>2
    <3> QED
      BY <3>1, <3>2, <3>3
  <2>5. CASE Continues(b)
    <3>1. handler' = "stream" /\ wire' = wire /\ line' = line
      BY <1>9, <2>5 DEF Handles
    <3>2. \/ handler = "hello" /\ b = <<HELLO>>
          \/ handler = "stream" /\ Passes(b)
      BY <2>5 DEF Continues, ValidHello, Passes
    <3>3. Len(u) >= 1 /\ u[1] = <<HELLO>> /\ \A i \in 2..Len(u) : Passes(u[i])
      <4>1. CASE handler = "hello" /\ b = <<HELLO>>
        <5>1. k = 0 /\ k + 1 = 1
          BY <2>4, <4>1
        <5>2. Len(u) = 1 /\ u[1] = <<HELLO>>
          BY <2>2, <4>1, <5>1
        <5> QED
          BY <5>2
      <4>2. CASE handler = "stream" /\ Passes(b)
        <5>1. \A i \in 2..(k + 1) : i \in 2..k \/ i = k + 1
          OBVIOUS
        <5> QED
          BY <2>2, <2>4, <4>2, <5>1
      <4> QED
        BY <3>2, <4>1, <4>2
    <3>4. Served'
      BY <2>1, <3>1, <3>3 DEF Served
    <3>5. Shape' /\ Over'
      BY <1>1, <1>2, <2>1, <2>2, <3>1 DEF Shape, Over, Reading, Stopped
    <3>6. PICK B : Explains(B)
      BY DEF FrameInv
    <3>7. /\ Spells(B, w) /\ B \in Seq(Nat) /\ arrived <= Len(B)
          /\ Found(w, B, arrived, decoder) /\ InPlace(B)
      BY <1>1, <1>3, <3>6 DEF Explains, Spells
    <3>8. PICK p \in Nat : p = Position /\ p = Total(w, k) + PrefixSize
      <4>1. awaited # 0
        BY <1>1, <1>2 DEF Shape
      <4>2. Position = Total(w, k) + PrefixSize
        BY <1>3, <4>1 DEF Position
      <4> QED
        BY <1>2, <4>2, PositionType
    <3>9. PICK z \in Nat : z = awaited /\ z = Len(b)
      BY <1>2, <1>4, <1>6 DEF Shape
    <3>10. Position' = p + z
      <4>1. Total(w, k + 1) = Total(w, k) + PrefixSize + Len(b)
        BY <1>5, <1>6, Sums
      <4>2. Position' = Total(w, k + 1) + 0
        BY <1>1, <1>3, <2>1, <2>2 DEF Position
      <4>3. p + z \in Nat /\ Total(w, k + 1) = p + z
        BY <3>8, <3>9, <4>1
      <4> QED
        BY <4>2, <4>3
    <3>11. Lies(stream, B, p) /\ Lies(wire, B, arrived)
      BY <3>7, <3>8 DEF InPlace
    <3>12. PICK l \in Nat : l = Len(stream) /\ z \in 0..l
      BY <1>1, <3>9, <3>11 DEF Lies
    <3>13. Lies(Rest(stream, z), B, p + z) /\ Len(Rest(stream, z)) = l - z
      BY <3>7, <3>11, <3>12, RestLies
    <3>14. (p + z) + Len(Rest(stream, z)) = p + Len(stream)
      BY <3>12, <3>13
    <3>15. InPlace(B)'
      BY <1>1, <3>1, <3>7, <3>8, <3>9, <3>10, <3>11, <3>13, <3>14 DEF InPlace
    <3>16. Awaits'
      BY <1>1 DEF Awaits
    <3>17. Explains(B)'
      BY <1>1, <1>3, <3>7, <3>15, <3>16 DEF Explains
    <3> QED
      BY <2>3, <3>4, <3>5, <3>17 DEF FrameInv
  <2>6. CASE ~Continues(b)
    <3>1. PICK as : /\ as = (IF handler = "stream" /\ b = <<END_OF_STREAM>> THEN "ended" ELSE "failed")
                    /\ Closes(as)
      BY <1>9, <2>6 DEF Handles
    <3>2. as \in {"ended", "failed"} /\ handler' = as
      BY <3>1 DEF Closes
    <3>3. Served'
      <4>1. CASE as = "failed"
        BY <3>2, <4>1 DEF Served
      <4>2. CASE as # "failed"
        <5>1. handler = "stream" /\ b = <<END_OF_STREAM>>
          BY <3>1, <4>2
        <5>2. Len(u) >= 2 /\ u[1] = <<HELLO>> /\ u[Len(u)] = <<END_OF_STREAM>>
              /\ Len(u) - 1 = k /\ \A i \in 2..k : Passes(u[i])
          BY <2>2, <2>4, <5>1
        <5>3. \A i \in 2..(Len(u) - 1) : Passes(u[i])
          BY <5>2
        <5> QED
          BY <2>1, <3>2, <4>2, <5>2, <5>3 DEF Served, Last
      <4> QED
        BY <4>1, <4>2
    <3>4. awaited' \in Nat /\ taken' \in Seq(Bodies)
      BY <1>1, <2>1, <2>2
    <3> QED
      BY <1>1, <2>3, <3>1, <3>2, <3>3, <3>4, ClosesKeeps
  <2> QED
    BY <2>5, <2>6
<1> QED
  BY <1>7, <1>8, <1>9

LEMMA NextKeeps == FrameInv /\ [Next]_vars => FrameInv'
<1> SUFFICES ASSUME FrameInv, [Next]_vars PROVE FrameInv'
  OBVIOUS
<1>1. CASE WriteFrame
  BY <1>1, WriteKeeps
<1>2. CASE CloseWriter
  <2>1. line = "open" /\ line' = "fin" /\ UNCHANGED <<written, wire, readerVars, decoder, arrived>>
    BY <1>2 DEF CloseWriter
  <2> QED
    BY <2>1, CloseKeeps
<1>3. CASE Deliver
  BY <1>3, DeliverKeeps
<1>4. CASE Breaks
  BY <1>4, BreaksKeep
<1>5. CASE ReadPrefix
  BY <1>5, PrefixKeeps
<1>6. CASE ReadBody
  BY <1>6, BodyKeeps
<1>7. CASE EofFails
  BY <1>7, EofKeeps
<1>8. CASE UNCHANGED vars
  <2>1. /\ written' = written /\ wire' = wire /\ line' = line /\ stream' = stream
        /\ awaited' = awaited /\ taken' = taken /\ handler' = handler
        /\ decoder' = decoder /\ arrived' = arrived
    BY <1>8 DEF vars, readerVars
  <2>2. PICK B : Explains(B)
    BY DEF FrameInv
  <2>3. Explains(B)'
    BY <2>1, <2>2 DEF Explains, Reading, Awaits, InPlace, Position
  <2>4. Shape' /\ Over' /\ InOrder' /\ Served'
    BY <2>1 DEF FrameInv, Shape, Over, InOrder, Served, Reading, Stopped
  <2> QED
    BY <2>3, <2>4 DEF FrameInv
<1> QED
  BY <1>1, <1>2, <1>3, <1>4, <1>5, <1>6, <1>7, <1>8 DEF Next

\* Whatever is written, delivered and lost, the frames of taken are the first that were
\* written, and a connection that ended normally began with HELLO, ended with END_OF_STREAM
\* and had batches and heartbeats between them.
THEOREM FramesAreWhole == Spec => []FramesArriveWhole
<1>1. FrameInv => FramesArriveWhole
  <2> SUFFICES ASSUME FrameInv PROVE FramesArriveWhole
    OBVIOUS
  <2>1. Shape /\ InOrder /\ Served
    BY DEF FrameInv
  <2>2. PICK t \in Seq(Bodies), w \in Seq(Bodies) : t = taken /\ w = written
    BY <2>1 DEF Shape
  <2>3. Len(t) <= Len(w) /\ \A i \in 1..Len(t) : t[i] = w[i]
    BY <2>1, <2>2 DEF InOrder
  <2>4. SubSeq(t, 1, Len(t)) = [i \in 1..Len(t) |-> t[i]] /\ SubSeq(w, 1, Len(t)) = [i \in 1..Len(t) |-> w[i]]
    BY <2>3
  <2>5. [i \in 1..Len(t) |-> t[i]] = [i \in 1..Len(t) |-> w[i]]
    BY <2>3
  <2>6. IsPrefix(taken, written)
    BY <2>2, <2>3, <2>4, <2>5 DEF IsPrefix
  <2> QED
    BY <2>1, <2>6 DEF FramesArriveWhole, Served, Passes
<1> QED
  BY <1>1, InitFrameInv, NextKeeps, PTL DEF Spec

\* Whatever is fed in whichever pieces, the decoder has returned all frames that have
\* arrived whole and keeps less than one frame of the permitted size, or it has raised for
\* a frame that no reader could use.
THEOREM DecodersAreExact == Spec => []DecoderIsExact
<1>1. FrameInv => DecoderIsExact
  <2> SUFFICES ASSUME FrameInv PROVE DecoderIsExact
    OBVIOUS
  <2>1. PICK B : Explains(B)
    BY DEF FrameInv
  <2>2. Shape /\ Spells(B, written) /\ Found(written, B, arrived, decoder)
    BY <2>1 DEF FrameInv, Explains
  <2>3. written \in Seq(Bodies) /\ arrived \in Nat /\ decoder \in Decoders /\ Stopped(decoder)
    BY <2>2 DEF Shape
  <2>4. CASE decoder.raised
    BY <2>2, <2>4 DEF Found, Unusable, DecoderIsExact
  <2>5. CASE ~decoder.raised
    BY <2>2, <2>3, <2>5, FoundIsAll DEF DecoderIsExact
  <2> QED
    BY <2>4, <2>5
<1> QED
  BY <1>1, InitFrameInv, NextKeeps, PTL DEF Spec

-----------------------------------------------------------------------------
(* The connection implements FrameLink *)

\* Where the bytes end that the reader can still get.
End == Position + Len(stream) + Len(wire)

\* The frames that lie whole before the end are under way, and on a connection that is whole
\* these are all that were written.
WholeUnderWay ==
  \E m \in Len(taken)..Len(written) :
     /\ LastWithin(written, Len(taken), m, End)
     /\ UnderWay = SubSeq(written, Len(taken) + 1, m)
     /\ line # "cut" => m = Len(written)

LEMMA EndType ==
  ASSUME FrameInv, Reading
  PROVE  /\ stream \in Seq(Nat) /\ wire \in Seq(Nat)
         /\ Len(stream) \in Nat /\ Len(wire) \in Nat /\ End \in Nat /\ Position <= End
<1>1. Shape /\ Over /\ InOrder /\ Served
  BY DEF FrameInv
<1>2. PICK B : Explains(B)
  BY DEF FrameInv
<1>3. stream \in Seq(Nat) /\ wire \in Seq(Nat)
  BY <1>2 DEF Explains, InPlace, Lies
<1>4. PICK p \in Nat : p = Position
  BY <1>1, PositionType
<1>5. PICK l \in Nat, m \in Nat : l = Len(stream) /\ m = Len(wire)
  BY <1>3
<1>6. End = p + l + m
  BY <1>4, <1>5 DEF End
<1> QED
  BY <1>3, <1>4, <1>5, <1>6

LEMMA UnderWayIs == FrameInv /\ Reading => WholeUnderWay
<1> SUFFICES ASSUME FrameInv, Reading PROVE WholeUnderWay
  OBVIOUS
<1>1. Shape /\ Over /\ InOrder /\ Served
  BY DEF FrameInv
<1>2. PICK B : Explains(B)
  BY DEF FrameInv
<1>3. Spells(B, written) /\ Awaits /\ InPlace(B) /\ B \in Seq(Nat)
  BY <1>2 DEF Explains, Spells
<1>4. PICK w \in Seq(Bodies), k \in 0..Len(written) : w = written /\ k = Len(taken)
  BY <1>1, PositionType DEF Shape
<1>5. PICK q \in Nat, p \in Nat : q = Total(w, k) /\ p = Position /\ q <= p
  BY <1>1, <1>4, PositionType
<1>6. PICK l \in Nat, r \in Nat : l = Len(stream) /\ r = Len(wire)
  BY EndType
<1>7. PICK e \in Nat : e = End /\ e = p + l + r
  BY <1>5, <1>6, EndType DEF End
<1>8. q <= e
  BY <1>5, <1>7
<1>9. PICK m \in k..Len(w) : LastWithin(w, k, m, e)
  BY <1>4, <1>5, <1>8, LastExists
<1>10. PICK x \in Nat : x = IF awaited = 0 THEN 0 ELSE PrefixSize
  BY DEF PrefixSize
<1>11. p = q + x
  BY <1>4, <1>5, <1>10 DEF Position
<1>12. l + r + x = e - q
  <2>1. e = (q + x) + l + r
    BY <1>7, <1>11
  <2> QED
    BY <2>1
<1>13. WholeAfter(w, k, e - q) = m - k
  BY <1>4, <1>5, <1>9, WholeCount
<1>14. UnderWay = SubSeq(w, k + 1, k + WholeAfter(w, k, l + r + x))
  BY <1>4, <1>6, <1>10 DEF UnderWay
<1>15. k + (m - k) = m
  BY <1>4
<1>16. UnderWay = SubSeq(w, k + 1, m)
  BY <1>12, <1>13, <1>14, <1>15
<1>17. ASSUME line # "cut" PROVE m = Len(w)
  <2>1. p + l = arrived /\ arrived + r = Len(B) /\ Len(B) = Total(w, Len(w))
    BY <1>3, <1>4, <1>5, <1>6, <1>17 DEF InPlace, Spells
  <2>2. PICK n \in Nat, t \in Nat : n = Len(w) /\ t = Total(w, n)
    <3>1. Len(w) \in Nat /\ Len(w) \in 0..Len(w)
      BY <1>4
    <3> QED
      BY <1>4, <3>1, Sums
  <2>3. e = t
    BY <1>6, <1>7, <2>1, <2>2
  <2>4. ASSUME m # n PROVE FALSE
    <3>1. e < Total(w, m + 1) /\ m + 1 \in 0..n /\ n \in 0..n
      BY <1>4, <1>9, <2>2, <2>4 DEF LastWithin
    <3>2. CASE m + 1 = n
      BY <2>2, <2>3, <3>1, <3>2
    <3>3. CASE m + 1 # n
      <4>1. m + 1 < n /\ Total(w, m + 1) \in Nat
        BY <1>4, <2>2, <3>1, <3>3, Sums
      <4>2. Total(w, m + 1) + PrefixSize < Total(w, n)
        BY <1>4, <2>2, <3>1, <4>1, SumsGrow
      <4> QED
        BY <2>2, <2>3, <3>1, <4>1, <4>2 DEF PrefixSize
    <3> QED
      BY <3>2, <3>3
  <2> QED
    BY <2>2, <2>4
<1> QED
  BY <1>4, <1>7, <1>9, <1>16, <1>17 DEF WholeUnderWay

LEMMA SameUnderWay ==
  ASSUME Reading, Reading', written' = written, taken' = taken,
         (Len(stream) + Len(wire) + (IF awaited = 0 THEN 0 ELSE PrefixSize))'
         = Len(stream) + Len(wire) + (IF awaited = 0 THEN 0 ELSE PrefixSize)
  PROVE  UnderWay' = UnderWay
<1>1. PICK n : n = Len(stream) + Len(wire) + IF awaited = 0 THEN 0 ELSE PrefixSize
  OBVIOUS
<1>2. n = Len(stream') + Len(wire') + IF awaited' = 0 THEN 0 ELSE PrefixSize
  BY <1>1
<1>3. UnderWay = SubSeq(written, Len(taken) + 1, Len(taken) + WholeAfter(written, Len(taken), n))
  BY <1>1 DEF UnderWay
<1>4. UnderWay' = SubSeq(written', Len(taken') + 1, Len(taken') + WholeAfter(written', Len(taken'), n))
  BY <1>2 DEF UnderWay
<1> QED
  BY <1>3, <1>4

LEMMA LastUnique ==
  ASSUME NEW w \in Seq(Bodies), NEW k \in Nat, NEW j \in Nat, NEW m \in Nat, NEW n \in Nat,
         NEW e \in Nat, LastWithin(w, k, m, e), LastWithin(w, j, n, e)
  PROVE  m = n
<1>1. ASSUME NEW a \in Nat, NEW b \in Nat, NEW c \in Nat, NEW d \in Nat,
             LastWithin(w, c, a, e), LastWithin(w, d, b, e), a < b
      PROVE  FALSE
  <2>1. a \in 0..Len(w) /\ b \in 0..Len(w) /\ Total(w, b) <= e
    BY <1>1 DEF LastWithin
  <2>2. a + 1 \in 0..Len(w) /\ e < Total(w, a + 1)
    BY <1>1, <2>1 DEF LastWithin
  <2>3. CASE a + 1 = b
    <3>1. Total(w, b) \in Nat
      BY <2>1, Sums
    <3> QED
      BY <2>1, <2>2, <2>3, <3>1
  <2>4. CASE a + 1 # b
    <3>1. a + 1 < b
      BY <1>1, <2>4
    <3>2. Total(w, a + 1) + PrefixSize < Total(w, b)
      BY <2>1, <2>2, <3>1, SumsGrow
    <3>3. Total(w, a + 1) \in Nat /\ Total(w, b) \in Nat
      BY <2>1, <2>2, Sums
    <3> QED
      BY <2>1, <2>2, <3>2, <3>3 DEF PrefixSize
  <2> QED
    BY <2>3, <2>4
<1> QED
  BY <1>1

\* Sequences of frames, cut and continued.
LEMMA CutShorter ==
  ASSUME NEW S, NEW w \in Seq(S), NEW k \in Nat, NEW m \in k..Len(w), NEW n \in k..m
  PROVE  /\ Len(SubSeq(w, k + 1, m)) = m - k
         /\ SubSeq(SubSeq(w, k + 1, m), 1, n - k) = SubSeq(w, k + 1, n)
<1>1. PICK f : f = SubSeq(w, k + 1, m)
  OBVIOUS
<1>2. f \in Seq(S) /\ Len(f) = m - k /\ \A j \in 1..(m - k) : f[j] = w[k + j]
  <2>1. f = [j \in 1..(m - k) |-> w[k + j]]
    <3>1. f = [j \in 1..(m - (k + 1) + 1) |-> w[(k + 1) + j - 1]]
      BY <1>1
    <3>2. m - (k + 1) + 1 = m - k /\ \A j \in 1..(m - k) : (k + 1) + j - 1 = k + j
      OBVIOUS
    <3> QED
      BY <3>1, <3>2
  <2>2. m - k \in Nat /\ \A j \in 1..(m - k) : w[k + j] \in S
    OBVIOUS
  <2> QED
    BY <2>1, <2>2
<1>3. PICK l \in Nat : l = n - k /\ l <= Len(f)
  BY <1>2
<1>4. SubSeq(f, 1, l) = [j \in 1..l |-> f[j]]
  BY <1>2, <1>3
<1>5. SubSeq(w, k + 1, n) = [j \in 1..l |-> w[k + j]]
  <2>1. SubSeq(w, k + 1, n) = [j \in 1..(n - (k + 1) + 1) |-> w[(k + 1) + j - 1]]
    OBVIOUS
  <2>2. n - (k + 1) + 1 = l /\ \A j \in 1..l : (k + 1) + j - 1 = k + j
    BY <1>3
  <2> QED
    BY <2>1, <2>2
<1>6. \A j \in 1..l : f[j] = w[k + j]
  BY <1>2, <1>3
<1>7. SubSeq(f, 1, l) = SubSeq(w, k + 1, n)
  BY <1>4, <1>5, <1>6
<1> QED
  BY <1>1, <1>2, <1>3, <1>7

LEMMA CutLonger ==
  ASSUME NEW S, NEW w \in Seq(S), NEW b \in S, NEW k \in 0..Len(w), NEW v, v = Append(w, b)
  PROVE  /\ Len(SubSeq(v, k + 1, Len(v))) = Len(SubSeq(w, k + 1, Len(w))) + 1
         /\ SubSeq(SubSeq(v, k + 1, Len(v)), 1, Len(SubSeq(w, k + 1, Len(w))))
            = SubSeq(w, k + 1, Len(w))
<1>1. PICK n \in Nat : n = Len(w)
  OBVIOUS
<1>2. v \in Seq(S) /\ Len(v) = n + 1 /\ \A j \in 1..n : v[j] = w[j]
  BY <1>1
<1>3. k \in Nat /\ n + 1 \in k..Len(v) /\ n \in k..(n + 1) /\ n \in k..n /\ n \in k..Len(w)
  BY <1>1, <1>2
<1>4. /\ Len(SubSeq(v, k + 1, n + 1)) = (n + 1) - k
      /\ SubSeq(SubSeq(v, k + 1, n + 1), 1, n - k) = SubSeq(v, k + 1, n)
  BY <1>2, <1>3, CutShorter
<1>5. Len(SubSeq(w, k + 1, n)) = n - k
  BY <1>1, <1>3, CutShorter
<1>6. SubSeq(v, k + 1, n) = SubSeq(w, k + 1, n)
  <2>1. SubSeq(v, k + 1, n) = [j \in 1..(n - (k + 1) + 1) |-> v[(k + 1) + j - 1]]
    BY <1>2, <1>3
  <2>2. SubSeq(w, k + 1, n) = [j \in 1..(n - (k + 1) + 1) |-> w[(k + 1) + j - 1]]
    BY <1>1, <1>3
  <2>3. ASSUME NEW j \in 1..(n - (k + 1) + 1) PROVE v[(k + 1) + j - 1] = w[(k + 1) + j - 1]
    <3>1. (k + 1) + j - 1 \in 1..n
      BY <1>3
    <3> QED
      BY <1>2, <3>1
  <2> QED
    BY <2>1, <2>2, <2>3
<1>7. (n + 1) - k = (n - k) + 1
  BY <1>3
<1> QED
  BY <1>1, <1>2, <1>4, <1>5, <1>6, <1>7

LEMMA CutTail ==
  ASSUME NEW S, NEW w \in Seq(S), NEW k \in Nat, NEW m \in k..Len(w), k < m
  PROVE  /\ SubSeq(w, k + 1, m) # << >>
         /\ Tail(SubSeq(w, k + 1, m)) = SubSeq(w, (k + 1) + 1, m)
<1>1. PICK f : f = SubSeq(w, k + 1, m)
  OBVIOUS
<1>2. f \in Seq(S) /\ Len(f) = m - k
  <2>1. k \in k..m
    OBVIOUS
  <2> QED
    BY <1>1, <2>1, CutShorter
<1>3. f # << >> /\ Tail(f) = SubSeq(f, 2, Len(f))
  BY <1>2
<1>4. f = [j \in 1..(m - k) |-> w[k + j]]
  <2>1. f = [j \in 1..(m - (k + 1) + 1) |-> w[(k + 1) + j - 1]]
    BY <1>1
  <2>2. m - (k + 1) + 1 = m - k /\ \A j \in 1..(m - k) : (k + 1) + j - 1 = k + j
    OBVIOUS
  <2> QED
    BY <2>1, <2>2
<1>5. Tail(f) = [j \in 1..(m - k - 1) |-> f[j + 1]]
  <2>1. SubSeq(f, 2, Len(f)) = [j \in 1..(Len(f) - 2 + 1) |-> f[2 + j - 1]]
    BY <1>2
  <2>2. Len(f) - 2 + 1 = m - k - 1 /\ \A j \in 1..(m - k - 1) : 2 + j - 1 = j + 1
    BY <1>2
  <2> QED
    BY <1>3, <2>1, <2>2
<1>6. SubSeq(w, (k + 1) + 1, m) = [j \in 1..(m - k - 1) |-> w[k + (j + 1)]]
  <2>1. SubSeq(w, (k + 1) + 1, m) = [j \in 1..(m - ((k + 1) + 1) + 1) |-> w[((k + 1) + 1) + j - 1]]
    OBVIOUS
  <2>2. m - ((k + 1) + 1) + 1 = m - k - 1
        /\ \A j \in 1..(m - k - 1) : ((k + 1) + 1) + j - 1 = k + (j + 1)
    OBVIOUS
  <2> QED
    BY <2>1, <2>2
<1>7. \A j \in 1..(m - k - 1) : f[j + 1] = w[k + (j + 1)]
  <2>1. \A j \in 1..(m - k - 1) : j + 1 \in 1..(m - k)
    OBVIOUS
  <2> QED
    BY <1>4, <2>1
<1>8. Tail(f) = SubSeq(w, (k + 1) + 1, m)
  BY <1>5, <1>6, <1>7
<1> QED
  BY <1>1, <1>3, <1>8

\* A connection that is whole has all frames under way that its reader has not taken.
AllUnderWay ==
  line # "cut" => UnderWay = SubSeq(written, Len(taken) + 1, Len(written))

LEMMA WholeLine == FrameInv => AllUnderWay
<1> SUFFICES ASSUME FrameInv, line # "cut"
             PROVE  UnderWay = SubSeq(written, Len(taken) + 1, Len(written))
  BY DEF AllUnderWay
<1>1. Reading
  BY DEF FrameInv, Over
<1> QED
  BY <1>1, UnderWayIs DEF WholeUnderWay

\* A handler that is over has nothing left under way.
LEMMA OverEnds ==
  ASSUME FrameInv, Reading, NEW as \in {"ended", "failed"}, Closes(as)
  PROVE  Link!Ends
<1>1. UnderWay' = << >> /\ line' = "cut"
  BY DEF Closes, UnderWay, Reading
<1>2. line # "none"
  BY DEF FrameInv, Shape
<1>3. PICK f \in Seq(Bodies) : f = UnderWay
  <2>1. PICK m \in Len(taken)..Len(written) : UnderWay = SubSeq(written, Len(taken) + 1, m)
    BY UnderWayIs DEF WholeUnderWay
  <2>2. PICK w \in Seq(Bodies), k \in 0..Len(written) : w = written /\ k = Len(taken)
    BY PositionType DEF FrameInv, Shape
  <2>3. SubSeq(w, k + 1, m) \in Seq(Bodies)
    BY <2>2
  <2> QED
    BY <2>1, <2>2, <2>3
<1>4. SubSeq(f, 1, 0) = << >> /\ 0 \in 0..Len(f)
  OBVIOUS
<1>5. << >> \in Link!Prefixes(UnderWay)
  BY <1>3, <1>4 DEF Link!Prefixes
<1> QED
  BY <1>1, <1>2, <1>5 DEF Link!Ends

LEMMA WriteIsLinkStep ==
  ASSUME FrameInv, FrameInv', WriteFrame
  PROVE  Link!Send \/ Link!WriterCloses
<1>1. /\ line = "open" /\ line' # "cut" /\ taken' = taken
      /\ UnderWay = SubSeq(written, Len(taken) + 1, Len(written))
  BY WholeLine DEF AllUnderWay, WriteFrame, readerVars
<1>2. UnderWay' = SubSeq(written', Len(taken) + 1, Len(written'))
  <2>1. AllUnderWay'
    BY WholeLine, PTL
  <2> QED
    BY <1>1, <2>1 DEF AllUnderWay
<1>3. PICK body \in Bodies :
        \/ written' = Append(written, body) /\ line' = line
        \/ line' = "fin" /\ written' = written
  BY DEF WriteFrame
<1>4. CASE line' = "fin" /\ written' = written
  BY <1>1, <1>2, <1>4 DEF Link!WriterCloses
<1>5. CASE written' = Append(written, body) /\ line' = line
  <2>1. PICK w \in Seq(Bodies), k \in 0..Len(written) : w = written /\ k = Len(taken)
    BY PositionType DEF FrameInv, Shape
  <2>2. PICK v : v = written' /\ v = Append(w, body)
    BY <1>5, <2>1
  <2>3. PICK f, g : f = SubSeq(w, k + 1, Len(w)) /\ g = SubSeq(v, k + 1, Len(v))
    OBVIOUS
  <2>4. Len(g) = Len(f) + 1 /\ SubSeq(g, 1, Len(f)) = f
    <3>1. k \in 0..Len(w) /\ v = Append(w, body)
      BY <2>1, <2>2
    <3>2. /\ Len(SubSeq(v, k + 1, Len(v))) = Len(SubSeq(w, k + 1, Len(w))) + 1
          /\ SubSeq(SubSeq(v, k + 1, Len(v)), 1, Len(SubSeq(w, k + 1, Len(w))))
             = SubSeq(w, k + 1, Len(w))
      BY <3>1, CutLonger
    <3> QED
      BY <2>3, <3>2
  <2>5. UnderWay = f /\ UnderWay' = g
    BY <1>1, <1>2, <2>1, <2>2, <2>3
  <2> QED
    BY <1>1, <1>5, <2>4, <2>5 DEF Link!Send
<1> QED
  BY <1>3, <1>4, <1>5

LEMMA CloseIsLinkStep ==
  ASSUME FrameInv, FrameInv', CloseWriter
  PROVE  Link!WriterCloses
<1>1. /\ line = "open" /\ line' = "fin" /\ taken' = taken /\ written' = written
      /\ UnderWay = SubSeq(written, Len(taken) + 1, Len(written))
  BY WholeLine DEF AllUnderWay, CloseWriter, readerVars
<1>2. AllUnderWay'
  BY WholeLine, PTL
<1>3. UnderWay' = UnderWay
  BY <1>1, <1>2 DEF AllUnderWay
<1> QED
  BY <1>1, <1>3 DEF Link!WriterCloses

LEMMA BreaksIsLinkStep ==
  ASSUME FrameInv, FrameInv', Breaks
  PROVE  Link!Ends
<1>1. /\ line # "cut" /\ line' = "cut" /\ taken' = taken /\ written' = written
      /\ line # "none" /\ Reading'
  BY DEF Breaks, FrameInv, Shape, Reading
<1>2. PICK w \in Seq(Bodies), k \in 0..Len(written) : w = written /\ k = Len(taken)
  BY PositionType DEF FrameInv, Shape
<1>3. UnderWay = SubSeq(w, k + 1, Len(w))
  BY <1>1, <1>2, WholeLine DEF AllUnderWay
<1>4. PICK n \in k..Len(w) : UnderWay' = SubSeq(w, k + 1, n)
  <2>1. FrameInv' /\ Reading' => WholeUnderWay'
    BY UnderWayIs, PTL
  <2>2. PICK n \in Len(taken')..Len(written') : UnderWay' = SubSeq(written', Len(taken') + 1, n)
    BY <1>1, <2>1 DEF WholeUnderWay
  <2> QED
    BY <1>1, <1>2, <2>2
<1>5. PICK m \in Nat, j \in Nat : m = Len(w) /\ j = n - k
  BY <1>2
<1>6. PICK f : f = SubSeq(w, k + 1, m)
  OBVIOUS
<1>7. k \in Nat /\ m \in k..Len(w) /\ n \in k..m
  BY <1>2, <1>5
<1>8. Len(f) = m - k /\ SubSeq(f, 1, n - k) = SubSeq(w, k + 1, n)
  BY <1>6, <1>7, CutShorter
<1>9. j \in 0..Len(f) /\ SubSeq(f, 1, j) = SubSeq(w, k + 1, n)
  BY <1>5, <1>7, <1>8
<1>10. UnderWay = f
  BY <1>3, <1>5, <1>6
<1>11. UnderWay' \in Link!Prefixes(UnderWay)
  BY <1>4, <1>9, <1>10 DEF Link!Prefixes
<1> QED
  BY <1>1, <1>11 DEF Link!Ends

LEMMA DeliverIsQuiet ==
  ASSUME FrameInv, FrameInv', Deliver
  PROVE  UnderWay' = UnderWay /\ line' = line
<1>1. /\ written' = written /\ line' = line /\ awaited' = awaited /\ taken' = taken
      /\ Reading /\ Reading'
  BY DEF Deliver, FrameInv, Shape, Reading
<1>2. PICK n \in 1..Len(wire) : stream' = stream \o SubSeq(wire, 1, n) /\ wire' = Rest(wire, n)
  BY DEF Deliver
<1>3. PICK s \in Seq(Nat), r \in Seq(Nat) : s = stream /\ r = wire
  BY <1>1, EndType
<1>4. PICK l \in Nat, m \in Nat : l = Len(s) /\ m = Len(r)
  OBVIOUS
<1>5. Len(stream') = l + n
  <2>1. Lies(r, r, 0)
    BY <1>3 DEF Lies
  <2>2. n \in 0..Len(r)
    BY <1>2, <1>3, <1>4
  <2>3. PICK c : c = SubSeq(r, 1, n)
    OBVIOUS
  <2>4. Lies(SubSeq(r, 1, n), r, 0) /\ Len(SubSeq(r, 1, n)) = n
    BY <2>1, <2>2, FirstLies
  <2>5. c \in Seq(Nat) /\ Len(c) = n
    BY <2>3, <2>4 DEF Lies
  <2>6. Len(s \o c) = Len(s) + Len(c)
    BY <2>5, Joined
  <2> QED
    BY <1>2, <1>3, <1>4, <2>3, <2>5, <2>6
<1>6. Len(wire') = m - n
  <2>1. Lies(r, r, 0)
    BY <1>3 DEF Lies
  <2>2. n \in 0..Len(r)
    BY <1>2, <1>3, <1>4
  <2>3. Len(Rest(r, n)) = Len(r) - n
    BY <2>1, <2>2, RestLies
  <2> QED
    BY <1>2, <1>3, <1>4, <2>3
<1>7. Len(stream') + Len(wire') = Len(stream) + Len(wire)
  <2>1. n \in Int /\ (l + n) + (m - n) = l + m
    BY <1>2, <1>3, <1>4
  <2> QED
    BY <1>3, <1>4, <1>5, <1>6, <2>1
<1>8. (Len(stream) + Len(wire) + (IF awaited = 0 THEN 0 ELSE PrefixSize))'
      = Len(stream) + Len(wire) + (IF awaited = 0 THEN 0 ELSE PrefixSize)
  BY <1>1, <1>7
<1> QED
  BY <1>1, <1>8, SameUnderWay

LEMMA PrefixIsLinkStep ==
  ASSUME FrameInv, FrameInv', ReadPrefix
  PROVE  Link!Ends \/ (UnderWay' = UnderWay /\ line' = line)
<1>1. /\ Reading /\ awaited = 0 /\ Len(stream) >= PrefixSize
      /\ stream' = Rest(stream, PrefixSize) /\ written' = written /\ taken' = taken
  BY DEF ReadPrefix
<1>2. CASE Closes("failed")
  BY <1>1, <1>2, OverEnds
<1>3. CASE ~Refused(Size(stream)) /\ awaited' = Size(stream) /\ UNCHANGED <<wire, line, handler>>
  <2>1. Reading' /\ awaited' # 0
    BY <1>1, <1>3, BodyTypes DEF Reading, Refused
  <2>2. PICK s \in Seq(Nat), l \in Nat, m \in Nat : s = stream /\ l = Len(s) /\ m = Len(wire)
    BY <1>1, EndType
  <2>3. Len(stream') = l - 2
    <3>1. PICK n \in Nat : n = PrefixSize /\ n = 2
      BY DEF PrefixSize
    <3>2. Lies(s, s, 0) /\ n \in 0..Len(s)
      BY <1>1, <2>2, <3>1 DEF Lies
    <3>3. Len(Rest(s, n)) = Len(s) - n
      BY <3>2, RestLies
    <3> QED
      BY <1>1, <2>2, <3>1, <3>3
  <2>4. (Len(stream) + Len(wire) + (IF awaited = 0 THEN 0 ELSE PrefixSize))'
        = Len(stream) + Len(wire) + (IF awaited = 0 THEN 0 ELSE PrefixSize)
    <3>1. (l - 2) + m + 2 = l + m + 0
      BY <2>2
    <3> QED
      BY <1>1, <1>3, <2>1, <2>2, <2>3, <3>1 DEF PrefixSize
  <2> QED
    BY <1>1, <1>3, <2>1, <2>4, SameUnderWay
<1> QED
  BY <1>2, <1>3 DEF ReadPrefix

\* A frame that the handler goes on with is the first of those under way.
LEMMA BodyIsTaken ==
  ASSUME FrameInv, FrameInv', ReadBody, Reading'
  PROVE  Link!Take
<1>1. /\ Reading /\ awaited > 0 /\ Len(stream) >= awaited
      /\ stream' = Rest(stream, awaited) /\ awaited' = 0 /\ written' = written
  BY DEF ReadBody
<1>2. PICK w \in Seq(Bodies), k \in 0..Len(written) : w = written /\ k = Len(taken)
  BY PositionType DEF FrameInv, Shape
<1>3. k < Len(w) /\ awaited = Len(w[k + 1]) /\ SubSeq(stream, 1, awaited) = w[k + 1]
  BY <1>1, <1>2, NextBody
<1>4. PICK b \in Bodies : b = w[k + 1] /\ k + 1 \in 1..Len(w) /\ (k + 1) - 1 = k
  BY <1>2, <1>3
<1>5. \/ WellFormed(b) /\ taken' = Append(taken, b) /\ Handles(b)
      \/ ~WellFormed(b) /\ Closes("failed")
  BY <1>3, <1>4 DEF ReadBody
<1>6. taken' = Append(taken, b) /\ Handles(b)
  BY <1>5 DEF Closes, Reading
<1>7. wire' = wire /\ line' = line
  <2>1. CASE Continues(b)
    BY <1>6, <2>1 DEF Handles
  <2>2. CASE ~Continues(b)
    <3>1. PICK as : as \in {"ended", "failed"} /\ Closes(as)
      BY <1>6, <2>2 DEF Handles
    <3> QED
      BY <3>1 DEF Closes, Reading
  <2> QED
    BY <2>1, <2>2
<1>8. Len(taken') = k + 1
  <2>1. PICK t \in Seq(Bodies) : t = taken
    BY DEF FrameInv, Shape
  <2>2. Len(Append(t, b)) = Len(t) + 1
    OBVIOUS
  <2> QED
    BY <1>2, <1>6, <2>1, <2>2
<1>9. PICK m \in k..Len(w) : LastWithin(w, k, m, End) /\ UnderWay = SubSeq(w, k + 1, m)
  BY <1>1, <1>2, UnderWayIs DEF WholeUnderWay
<1>10. PICK n \in (k + 1)..Len(w) : /\ LastWithin(w, k + 1, n, End')
                                     /\ UnderWay' = SubSeq(w, (k + 1) + 1, n)
  <2>1. FrameInv' /\ Reading' => WholeUnderWay'
    BY UnderWayIs, PTL
  <2>2. PICK n \in Len(taken')..Len(written') :
          /\ LastWithin(written', Len(taken'), n, End')
          /\ UnderWay' = SubSeq(written', Len(taken') + 1, n)
    BY <2>1 DEF WholeUnderWay
  <2> QED
    BY <1>1, <1>2, <1>8, <2>2
<1>11. PICK s \in Seq(Nat), l \in Nat, r \in Nat, e \in Nat :
         s = stream /\ l = Len(s) /\ r = Len(wire) /\ e = End
  BY <1>1, EndType
<1>12. PICK p \in Nat : p = Position
  BY PositionType DEF FrameInv
<1>13. PICK z \in Nat : z = awaited /\ z = Len(b) /\ z # 0
  BY <1>1, <1>3, <1>4 DEF FrameInv, Shape
<1>14. p = Total(w, k) + PrefixSize
  BY <1>2, <1>12, <1>13 DEF Position
<1>15. Position' = p + z
  <2>1. Total(w, k + 1) = Total(w, k) + PrefixSize + Len(b)
    BY <1>4, Sums
  <2>2. Position' = Total(w, k + 1) + 0
    BY <1>1, <1>2, <1>8 DEF Position
  <2>3. p + z \in Nat /\ Total(w, k + 1) = p + z
    BY <1>13, <1>14, <2>1
  <2> QED
    BY <2>2, <2>3
<1>16. Len(stream') = l - z
  <2>1. Lies(s, s, 0) /\ z \in 0..Len(s)
    BY <1>1, <1>11, <1>13 DEF Lies
  <2>2. Len(Rest(s, z)) = Len(s) - z
    BY <2>1, RestLies
  <2> QED
    BY <1>1, <1>11, <1>13, <2>2
<1>17. End' = e
  <2>1. e = p + l + r
    BY <1>11, <1>12 DEF End
  <2>2. End' = (p + z) + (l - z) + r
    BY <1>7, <1>11, <1>15, <1>16 DEF End
  <2>3. (p + z) + (l - z) + r = p + l + r
    BY <1>12
  <2> QED
    BY <2>1, <2>2, <2>3
<1>18. m = n
  <2>1. k \in Nat /\ k + 1 \in Nat /\ m \in Nat /\ n \in Nat
    BY <1>2
  <2> QED
    BY <1>9, <1>10, <1>11, <1>17, <2>1, LastUnique
<1>19. k \in Nat /\ k < m /\ m \in k..Len(w)
  BY <1>2, <1>18
<1>20. /\ SubSeq(w, k + 1, m) # << >>
       /\ Tail(SubSeq(w, k + 1, m)) = SubSeq(w, (k + 1) + 1, m)
  BY <1>19, CutTail
<1> QED
  BY <1>7, <1>9, <1>10, <1>18, <1>20 DEF Link!Take

LEMMA BodyIsLinkStep ==
  ASSUME FrameInv, FrameInv', ReadBody
  PROVE  Link!Take \/ Link!Ends
<1>1. CASE Reading'
  BY <1>1, BodyIsTaken
<1>2. CASE ~Reading'
  <2>1. Reading
    BY DEF ReadBody
  <2>2. PICK b : Handles(b) \/ Closes("failed")
    BY DEF ReadBody
  <2>3. PICK as \in {"ended", "failed"} : Closes(as)
    <3>1. ASSUME Handles(b) PROVE \E as \in {"ended", "failed"} : Closes(as)
      <4>1. ~Continues(b)
        BY <1>2, <3>1 DEF Handles, Reading
      <4> QED
        BY <3>1, <4>1 DEF Handles
    <3> QED
      BY <2>2, <3>1
  <2> QED
    BY <2>1, <2>3, OverEnds
<1> QED
  BY <1>1, <1>2

\* Over bytes, in pieces of any size and with any losses, the connection is one of whole
\* frames in order that loses at most the last ones (protocol.py read_frame, write_frame).
THEOREM FrameLinkImplemented == Spec => ImplementsFrameLink
<1>1. Init => Link!Init
  <2> SUFFICES ASSUME Init PROVE Link!Init
    OBVIOUS
  <2>1. FrameInv /\ line = "open" /\ written = << >> /\ taken = << >>
    BY InitFrameInv DEF Init
  <2>2. UnderWay = SubSeq(<< >>, 0 + 1, 0)
    BY <2>1, WholeLine DEF AllUnderWay
  <2>3. UnderWay = << >>
    BY <2>2
  <2> QED
    BY <2>1, <2>3 DEF Link!Init
<1>2. FrameInv /\ FrameInv' /\ [Next]_vars => [Link!Next]_<<UnderWay, line>>
  <2> SUFFICES ASSUME FrameInv, FrameInv', [Next]_vars PROVE [Link!Next]_<<UnderWay, line>>
    OBVIOUS
  <2>1. CASE WriteFrame
    BY <2>1, WriteIsLinkStep DEF Link!Next
  <2>2. CASE CloseWriter
    BY <2>2, CloseIsLinkStep DEF Link!Next
  <2>3. CASE Deliver
    BY <2>3, DeliverIsQuiet
  <2>4. CASE Breaks
    BY <2>4, BreaksIsLinkStep DEF Link!Next
  <2>5. CASE ReadPrefix
    BY <2>5, PrefixIsLinkStep DEF Link!Next
  <2>6. CASE ReadBody
    BY <2>6, BodyIsLinkStep DEF Link!Next
  <2>7. CASE EofFails
    <3>1. Reading /\ Closes("failed")
      BY <2>7 DEF EofFails, AtEof
    <3> QED
      BY <3>1, OverEnds DEF Link!Next
  <2>8. CASE UNCHANGED vars
    <3>1. UnderWay' = UnderWay /\ line' = line
      BY <2>8 DEF vars, readerVars, UnderWay, Reading
    <3> QED
      BY <3>1
  <2> QED
    BY <2>1, <2>2, <2>3, <2>4, <2>5, <2>6, <2>7, <2>8 DEF Next
<1> QED
  BY <1>1, <1>2, InitFrameInv, NextKeeps, PTL DEF Spec, ImplementsFrameLink, Link!Spec
=============================================================================
