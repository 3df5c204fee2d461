-------------------------- MODULE SimilarityProofs --------------------------
(***************************************************************************)
(* What the fold, the search and the sums of Similarity compute, for every *)
(* input: that the similarity is a fraction within 0..100 that is 100 for  *)
(* what is just as it was sampled, when it is 0/0 instead, and that the    *)
(* sort keeps what it is given and puts it in order.                       *)
(*                                                                         *)
(* Everything recursive is reached by induction on the natural numbers, of *)
(* the set of those that have a property.  The function that a recursive   *)
(* definition chooses is shown to exist, piece by piece, and then its      *)
(* defining equation is all that is used of it.                            *)
(***************************************************************************)
EXTENDS Similarity, FiniteSetTheorems, SequenceTheorems, WellFoundedInduction,
        TLAPS
-----------------------------------------------------------------------------
(* Induction on natural numbers, for a set of those that have the property. *)

LEMMA Induction ==
  ASSUME NEW S, 0 \in S, \A k \in Nat : k \in S => k + 1 \in S
  PROVE  \A k \in Nat : k \in S
<1> DEFINE T == Nat \ S
           R == {ss \in Nat \X Nat : ss[1] < ss[2]}
<1>1. IsWellFoundedOn(R, Nat)
  BY NatLessThanWellFounded DEF OpToRel
<1>2. ASSUME T # {} PROVE FALSE
  <2>1. PICK x \in T : \A y \in T : ~(<<y, x>> \in R)
    <3> HIDE DEF R
    <3> QED
      BY <1>1, <1>2, WFMin
  <2>2. x # 0 /\ x \in Nat /\ x - 1 \in Nat /\ x - 1 < x
    OBVIOUS
  <2>3. <<x - 1, x>> \in R
    BY <2>2
  <2>4. x - 1 \in S /\ (x - 1) + 1 = x
    BY <2>1, <2>2, <2>3
  <2> QED
    BY <2>2, <2>4
<1> QED
  BY <1>2

-----------------------------------------------------------------------------
(* Numbers.                                                                *)

Fractions == Int \X Nat

\* Of two whole numbers, what divides both.
Divides(k, a, b) == \E i, j \in Nat : a = k * i /\ b = k * j

LEMMA Remainder ==
  ASSUME NEW a \in Nat, NEW b \in Nat \ {0}
  PROVE  /\ a % b \in 0..(b - 1) /\ a \div b \in Nat
         /\ a = b * (a \div b) + (a % b)
OBVIOUS

LEMMA DividesOn ==
  ASSUME NEW k \in Nat \ {0}, NEW a \in Nat, NEW b \in Nat \ {0}
  PROVE  Divides(k, b, a % b) <=> Divides(k, a, b)
<1>1. PICK q \in Nat, r \in Nat : a % b = r /\ a = b * q + r
  <2>1. a \div b \in Nat /\ a % b \in Nat /\ a = b * (a \div b) + (a % b)
    BY Remainder
  <2> QED
    BY <2>1
<1>2. ASSUME Divides(k, b, r) PROVE Divides(k, a, b)
  <2>1. PICK i \in Nat, j \in Nat : b = k * i /\ r = k * j
    BY <1>2 DEF Divides
  <2>2. a = (k * i) * q + k * j
    BY <1>1, <2>1
  <2>3. (k * i) * q + k * j = k * (i * q + j) /\ i * q + j \in Nat
    OBVIOUS
  <2> QED
    BY <2>1, <2>2, <2>3 DEF Divides
<1>3. ASSUME Divides(k, a, b) PROVE Divides(k, b, r)
  <2>1. PICK i \in Nat, j \in Nat : a = k * i /\ b = k * j
    BY <1>3 DEF Divides
  <2>2. r = k * i - (k * j) * q
    BY <1>1, <2>1
  <2>3. k * i - (k * j) * q = k * (i - j * q) /\ i - j * q \in Int
    OBVIOUS
  <2>4. i - j * q >= 0
    <3>1. k * (i - j * q) >= 0
      BY <1>1, <2>2, <2>3
    <3> QED
      BY <2>3, <3>1
  <2> QED
    BY <2>1, <2>2, <2>3, <2>4 DEF Divides
<1> QED
  BY <1>1, <1>2, <1>3

Dividing(g) == g = [a \in Nat |-> [b \in Nat |-> IF b = 0 THEN a ELSE g[b][a % b]]]

Greatest(a, b) ==
  IF b = 0 THEN a
  ELSE CHOOSE k \in Nat \ {0} :
         Divides(k, a, b) /\ \A l \in Nat \ {0} : Divides(l, a, b) => l <= k

\* What a is the greatest divisor of, with nothing left.
LEMMA GreatestOfOne ==
  ASSUME NEW a \in Nat, NEW b \in Nat \ {0}, a % b = 0
  PROVE  Greatest(a, b) = b
<1>1. Divides(b, a, b)
  <2>1. a = b * (a \div b) /\ a \div b \in Nat /\ b = b * 1
    BY Remainder
  <2> QED
    BY <2>1 DEF Divides
<1>2. ASSUME NEW l \in Nat \ {0}, Divides(l, a, b) PROVE l <= b
  <2>1. PICK j \in Nat : b = l * j
    BY <1>2 DEF Divides
  <2>2. j >= 1
    BY <2>1
  <2>3. l * j >= l
    BY <2>2
  <2> QED
    BY <2>1, <2>3
<1> DEFINE P(k) == Divides(k, a, b)
                   /\ \A l \in Nat \ {0} : Divides(l, a, b) => l <= k
<1>3. P(b)
  BY <1>1, <1>2
<1>4. ASSUME NEW k \in Nat \ {0}, P(k) PROVE k = b
  BY <1>1, <1>2, <1>4
<1>5. Greatest(a, b) = CHOOSE k \in Nat \ {0} : P(k)
  BY DEF Greatest
<1> HIDE DEF P
<1> QED
  BY <1>3, <1>4, <1>5

LEMMA DividingExists == \E g : Dividing(g)
<1> DEFINE g == [a \in Nat |-> [b \in Nat |-> Greatest(a, b)]]
<1>1. ASSUME NEW a \in Nat, NEW b \in Nat
      PROVE  Greatest(a, b) = IF b = 0 THEN a ELSE Greatest(b, a % b)
  <2>1. CASE b = 0
    BY <2>1 DEF Greatest
  <2>2. CASE b # 0 /\ a % b # 0
    <3>1. \A k \in Nat \ {0} : Divides(k, b, a % b) <=> Divides(k, a, b)
      BY <2>2, DividesOn
    <3> QED
      BY <2>2, <3>1 DEF Greatest
  <2>3. CASE b # 0 /\ a % b = 0
    <3>1. Greatest(b, a % b) = b
      BY <2>3 DEF Greatest
    <3> QED
      BY <2>3, <3>1, GreatestOfOne
  <2> QED
    BY <2>1, <2>2, <2>3
<1>2. g = [a \in Nat |-> [b \in Nat |-> IF b = 0 THEN a ELSE g[b][a % b]]]
  <2>1. ASSUME NEW a \in Nat
        PROVE  g[a] = [b \in Nat |-> IF b = 0 THEN a ELSE g[b][a % b]]
    <3>1. g[a] = [b \in Nat |-> Greatest(a, b)]
      OBVIOUS
    <3>2. \A b \in Nat : b # 0 => g[b][a % b] = Greatest(b, a % b)
      BY Remainder
    <3> HIDE DEF g
    <3> QED
      BY <1>1, <3>1, <3>2
  <2>2. g = [a \in Nat |-> g[a]]
    OBVIOUS
  <2> HIDE DEF g
  <2> QED
    BY <2>1, <2>2
<1> HIDE DEF g
<1> QED
  BY <1>2 DEF Dividing

\* Of two numbers of which one is not 0, Gcd is a positive divisor.
LEMMA GcdDivides ==
  ASSUME NEW a \in Nat, NEW b \in Nat, a # 0 \/ b # 0
  PROVE  Gcd(a, b) \in Nat \ {0} /\ Divides(Gcd(a, b), a, b)
<1>1. PICK g : Dividing(g) /\ Gcd(a, b) = g[a][b]
  <2>1. Gcd(a, b) = (CHOOSE g : Dividing(g))[a][b]
    BY Zenon DEF Gcd, Dividing
  <2> QED
    BY <2>1, DividingExists
<1>2. ASSUME NEW m \in Nat, NEW n \in Nat
      PROVE  g[m][n] = IF n = 0 THEN m ELSE g[n][m % n]
  <2>1. g[m] = [k \in Nat |-> IF k = 0 THEN m ELSE g[k][m % k]]
    BY <1>1, Zenon DEF Dividing
  <2> QED
    BY <2>1
<1> DEFINE Good(m, n) == m # 0 \/ n # 0
                         => g[m][n] \in Nat \ {0} /\ Divides(g[m][n], m, n)
           S == {d \in Nat : \A m \in Nat, n \in 0..d : Good(m, n)}
<1>3. 0 \in S
  <2>1. ASSUME NEW m \in Nat \ {0} PROVE Good(m, 0)
    <3>1. g[m][0] = m /\ m = m * 1 /\ 0 = m * 0
      BY <1>2
    <3>2. Divides(m, m, 0)
      BY <3>1 DEF Divides
    <3> QED
      BY <3>1, <3>2
  <2>2. Good(0, 0)
    OBVIOUS
  <2> HIDE DEF Good
  <2> QED
    BY <2>1, <2>2
<1>4. ASSUME NEW d \in Nat, d \in S PROVE d + 1 \in S
  <2>1. ASSUME NEW m \in Nat PROVE Good(m, d + 1)
    <3>1. PICK n : n = d + 1 /\ n \in Nat \ {0}
      OBVIOUS
    <3>2. m % n \in 0..d
      BY <3>1, Remainder
    <3>3. Good(n, m % n)
      BY <1>4, <3>1, <3>2
    <3>4. g[m][n] = g[n][m % n]
      BY <1>2, <3>1
    <3>5. g[m][n] \in Nat \ {0} /\ Divides(g[m][n], n, m % n)
      BY <3>1, <3>3, <3>4
    <3> QED
      BY <3>1, <3>5, DividesOn
  <2> HIDE DEF Good
  <2> QED
    BY <1>4, <2>1
<1> HIDE DEF S
<1>5. \A d \in Nat : d \in S
  BY <1>3, <1>4, Induction
<1>6. Good(a, b)
  <2> HIDE DEF Good
  <2> QED
    BY <1>5 DEF S
<1> QED
  BY <1>1, <1>6

LEMMA Sizes ==
  ASSUME NEW n \in Int
  PROVE  /\ Size(n) \in Nat /\ (Size(n) = 0 <=> n = 0)
         /\ n = Size(n) \/ n = -Size(n)
BY DEF Size

\* A reduced fraction is the fraction.
LEMMA ReducedIs ==
  ASSUME NEW x \in Fractions
  PROVE  /\ Reduced(x) \in Fractions
         /\ IsNaN(Reduced(x)) <=> IsNaN(x)
         /\ ~IsNaN(x) => \E g \in Nat \ {0} : /\ x[1] = g * Reduced(x)[1]
                                             /\ x[2] = g * Reduced(x)[2]
<1>0. PICK y : y = Reduced(x)
  OBVIOUS
<1>1. CASE IsNaN(x)
  BY <1>0, <1>1 DEF IsNaN, Reduced, Fractions
<1>2. CASE ~IsNaN(x)
  <2>1. x[1] \in Int /\ x[2] \in Nat \ {0} /\ Size(x[1]) \in Nat
    BY <1>2, Sizes DEF Fractions, IsNaN
  <2>2. PICK g \in Nat \ {0} : g = Gcd(Size(x[1]), x[2])
                              /\ Divides(g, Size(x[1]), x[2])
    BY <2>1, GcdDivides
  <2>3. PICK i \in Nat, j \in Nat : Size(x[1]) = g * i /\ x[2] = g * j
    BY <2>2 DEF Divides
  <2>4. PICK n \in Int : x[1] = g * n
    <3>1. x[1] = g * i \/ x[1] = -(g * i)
      BY <2>1, <2>3, Sizes
    <3>2. PICK m \in Int : m = -i /\ -(g * i) = g * m
      OBVIOUS
    <3>3. CASE x[1] = g * i
      <4>1. i \in Int
        OBVIOUS
      <4> QED
        BY <3>3, <4>1, Zenon
    <3>4. CASE x[1] = -(g * i)
      <4>1. x[1] = g * m
        BY <3>2, <3>4, Zenon
      <4> QED
        BY <4>1, Zenon
    <3> QED
      BY <3>1, <3>3, <3>4
  <2>5. x[1] \div g = n /\ x[2] \div g = j
    BY <2>3, <2>4
  <2>6. y = <<n, j>>
    BY <1>0, <1>2, <2>2, <2>5 DEF Reduced
  <2>7. j # 0
    BY <2>1, <2>3
  <2> QED
    BY <1>0, <1>2, <2>3, <2>4, <2>6, <2>7 DEF Fractions, IsNaN
<1> QED
  BY <1>1, <1>2

-----------------------------------------------------------------------------
(* The order of the similarities that are numbers.                         *)

Numbers == Int \X (Nat \ {0})

LEMMA LessIs ==
  ASSUME NEW x \in Numbers, NEW y \in Numbers
  PROVE  Less(x, y) <=> x[1] * y[2] < y[1] * x[2]
BY DEF Less, IsNaN, Numbers

\* A factor that is positive is left out.
LEMMA Cancel ==
  ASSUME NEW m \in Int, NEW n \in Int, NEW k \in Nat \ {0}, m * k <= n * k
  PROVE  m <= n
<1>1. ASSUME n < m PROVE FALSE
  <2>1. n + 1 <= m
    BY <1>1
  <2>2. (m - n) * k >= k
    <3>1. PICK d \in Nat : d + 1 = m - n
      BY <2>1
    <3>2. (d + 1) * k = d * k + k /\ d * k \in Nat
      OBVIOUS
    <3> QED
      BY <3>1, <3>2
  <2>3. (m - n) * k = m * k - n * k
    OBVIOUS
  <2> QED
    BY <2>2, <2>3
<1> QED
  BY <1>1

LEMMA Scale ==
  ASSUME NEW m \in Int, NEW n \in Int, NEW k \in Nat, m <= n
  PROVE  m * k <= n * k
<1>1. (n - m) * k >= 0
  <2>1. n - m \in Nat
    OBVIOUS
  <2> QED
    BY <2>1
<1>2. (n - m) * k = n * k - m * k
  OBVIOUS
<1> QED
  BY <1>1, <1>2

LEMMA LessOrder ==
  ASSUME NEW x \in Numbers, NEW y \in Numbers, NEW z \in Numbers
  PROVE  /\ Less(x, y) => ~Less(y, x)
         /\ ~Less(x, y) /\ ~Less(y, z) => ~Less(x, z)
<1>1. Less(x, y) => ~Less(y, x)
  BY LessIs DEF Numbers
<1>2. ASSUME ~Less(x, y), ~Less(y, z) PROVE ~Less(x, z)
  <2>1. PICK a \in Int, b \in Nat \ {0} : x[1] = a /\ x[2] = b
    BY DEF Numbers
  <2>2. PICK c \in Int, d \in Nat \ {0} : y[1] = c /\ y[2] = d
    BY DEF Numbers
  <2>3. PICK e \in Int, f \in Nat \ {0} : z[1] = e /\ z[2] = f
    BY DEF Numbers
  <2>4. c * b <= a * d
    BY <1>2, <2>1, <2>2, LessIs
  <2>5. e * d <= c * f
    BY <1>2, <2>2, <2>3, LessIs
  <2>6. (e * d) * b <= (c * f) * b
    BY <2>5, Scale
  <2>7. (c * b) * f <= (a * d) * f
    BY <2>4, Scale
  <2>8. (e * b) * d <= (a * f) * d
    <3>1. (e * d) * b = (e * b) * d
      OBVIOUS
    <3>2. (c * f) * b = (c * b) * f
      OBVIOUS
    <3>3. (a * d) * f = (a * f) * d
      OBVIOUS
    <3> QED
      BY <2>6, <2>7, <3>1, <3>2, <3>3
  <2>9. e * b <= a * f
    BY <2>8, Cancel
  <2> QED
    BY <2>1, <2>3, <2>9, LessIs
<1> QED
  BY <1>1, <1>2

-----------------------------------------------------------------------------
(* What a fold over a finite set computes, element by element.             *)

Pick(s) == CHOOSE x \in s : TRUE

LEMMA Picks ==
  ASSUME NEW S, IsFiniteSet(S), NEW s \in SUBSET S, s # {}
  PROVE  /\ Pick(s) \in s /\ s \ {Pick(s)} \in SUBSET S /\ IsFiniteSet(s)
         /\ Cardinality(s) \in Nat \ {0}
         /\ Cardinality(s \ {Pick(s)}) = Cardinality(s) - 1
<1>1. Pick(s) \in s
  BY DEF Pick
<1>2. IsFiniteSet(s)
  BY FS_Subset
<1>3. Cardinality(s) \in Nat /\ Cardinality(s) # 0
  BY <1>2, FS_CardinalityType, FS_EmptySet
<1> QED
  BY <1>1, <1>2, <1>3, FS_RemoveElement

\* Induction on the subsets of a finite set, for those that are in T.
LEMMA SubsetInduction ==
  ASSUME NEW S, IsFiniteSet(S), NEW T, {} \in T,
         \A s \in SUBSET S : s # {} /\ s \ {Pick(s)} \in T => s \in T
  PROVE  \A s \in SUBSET S : s \in T
<1> DEFINE N == {n \in Nat : \A s \in SUBSET S : Cardinality(s) = n => s \in T}
<1>1. 0 \in N
  <2>1. \A s \in SUBSET S : Cardinality(s) = 0 => s = {}
    BY Picks
  <2> QED
    BY <2>1
<1>2. ASSUME NEW n \in Nat, n \in N PROVE n + 1 \in N
  <2>1. ASSUME NEW s \in SUBSET S, Cardinality(s) = n + 1 PROVE s \in T
    <3>1. s # {}
      BY <2>1, FS_EmptySet
    <3>2. /\ s \ {Pick(s)} \in SUBSET S
          /\ Cardinality(s \ {Pick(s)}) = n
      BY <2>1, <3>1, Picks
    <3>3. s \ {Pick(s)} \in T
      BY <1>2, <3>2
    <3> QED
      BY <3>1, <3>3
  <2> QED
    BY <2>1
<1>3. \A n \in Nat : n \in N
  <2> HIDE DEF N
  <2> QED
    BY <1>1, <1>2, Induction
<1>4. ASSUME NEW s \in SUBSET S PROVE Cardinality(s) \in Nat
  BY FS_Subset, FS_CardinalityType
<1> QED
  BY <1>3, <1>4

Folding(iter, S, base, step) ==
  iter = [s \in SUBSET S |->
            IF s = {} THEN base ELSE step[Pick(s)][iter[s \ {Pick(s)}]]]

LEMMA FoldingExists ==
  ASSUME NEW S, IsFiniteSet(S), NEW base, NEW step
  PROVE  \E iter : Folding(iter, S, base, step)
<1> DEFINE Next1(f, s) == IF s = {} THEN base
                          ELSE step[Pick(s)][f[s \ {Pick(s)}]]
           Upto(f, n) == \A s \in SUBSET S : Cardinality(s) <= n => f[s] = Next1(f, s)
           N == {n \in Nat : \E f : Upto(f, n)}
<1>1. 0 \in N
  <2> DEFINE f == [s \in SUBSET S |-> base]
  <2>1. ASSUME NEW s \in SUBSET S, Cardinality(s) <= 0 PROVE f[s] = Next1(f, s)
    <3>1. s # {} => Cardinality(s) \in Nat \ {0}
      BY Picks
    <3>2. s = {}
      BY <2>1, <3>1
    <3> QED
      BY <3>2
  <2>2. Upto(f, 0)
    BY <2>1
  <2> HIDE DEF f, Upto
  <2> QED
    BY <2>2
<1>2. ASSUME NEW n \in Nat, n \in N PROVE n + 1 \in N
  <2>1. PICK g : Upto(g, n)
    BY <1>2
  <2> DEFINE f == [s \in SUBSET S |->
                     IF Cardinality(s) <= n THEN g[s] ELSE Next1(g, s)]
  <2>2. ASSUME NEW s \in SUBSET S PROVE f[s] = Next1(g, s)
    BY <2>1
  <2>3. ASSUME NEW s \in SUBSET S, Cardinality(s) <= n PROVE f[s] = g[s]
    BY <2>3
  <2> HIDE DEF f
  <2>4. ASSUME NEW s \in SUBSET S, Cardinality(s) <= n + 1
        PROVE  f[s] = Next1(f, s)
    <3>1. CASE s = {}
      BY <2>2, <3>1
    <3>2. CASE s # {}
      <4>1. s \ {Pick(s)} \in SUBSET S /\ Cardinality(s \ {Pick(s)}) <= n
        BY <2>4, <3>2, Picks
      <4>2. f[s \ {Pick(s)}] = g[s \ {Pick(s)}]
        BY <2>3, <4>1
      <4> QED
        BY <2>2, <3>2, <4>2
    <3> QED
      BY <3>1, <3>2
  <2>5. Upto(f, n + 1)
    BY <2>4
  <2> HIDE DEF Upto
  <2> QED
    BY <2>5
<1>3. \A n \in Nat : n \in N
  <2> HIDE DEF N
  <2> QED
    BY <1>1, <1>2, Induction
<1>4. Cardinality(S) \in Nat /\ \A s \in SUBSET S : Cardinality(s) <= Cardinality(S)
  BY FS_Subset, FS_CardinalityType
<1>5. PICK g : Upto(g, Cardinality(S))
  <2> HIDE DEF Upto
  <2> QED
    BY <1>3, <1>4
<1> DEFINE f == [s \in SUBSET S |-> g[s]]
<1>6. ASSUME NEW s \in SUBSET S PROVE f[s] = Next1(f, s)
  <2>1. g[s] = Next1(g, s)
    BY <1>4, <1>5
  <2>2. s # {} => s \ {Pick(s)} \in SUBSET S
    BY Picks
  <2> QED
    BY <2>1, <2>2
<1>7. f = [s \in SUBSET S |-> f[s]]
  OBVIOUS
<1> HIDE DEF f
<1>8. f = [s \in SUBSET S |-> Next1(f, s)]
  BY <1>6, <1>7
<1> QED
  BY <1>8 DEF Folding

-----------------------------------------------------------------------------
(* The similarity is a fraction.                                           *)

LEMMA PlusIs ==
  ASSUME NEW x \in Fractions, NEW y \in Fractions
  PROVE  Plus(x, y) \in Fractions
<1>1. PICK z : z = <<x[1] * y[2] + y[1] * x[2], x[2] * y[2]>>
  OBVIOUS
<1>2. z \in Fractions
  <2>1. PICK a \in Int, b \in Nat : x[1] = a /\ x[2] = b
    BY DEF Fractions
  <2>2. PICK c \in Int, d \in Nat : y[1] = c /\ y[2] = d
    BY DEF Fractions
  <2>3. a * d + c * b \in Int /\ b * d \in Nat
    OBVIOUS
  <2> QED
    BY <1>1, <2>1, <2>2, <2>3 DEF Fractions
<1> QED
  BY <1>1, <1>2, ReducedIs DEF Plus

LEMMA OffsetIs ==
  ASSUME NEW f \in Numbers, NEW s \in Int
  PROVE  Offset(f, s) \in Fractions
<1>1. PICK a \in Int, b \in Nat : f[1] = a /\ f[2] = b
  BY DEF Numbers
<1>2. PICK z : z = <<Size(f[1] - s * f[2]), Size(s) * f[2]>>
  OBVIOUS
<1>3. z \in Fractions
  <2>1. a - s * b \in Int
    OBVIOUS
  <2>2. Size(a - s * b) \in Nat /\ Size(s) \in Nat
    BY <2>1, Sizes
  <2>3. Size(s) * b \in Nat
    BY <2>2
  <2> QED
    BY <1>1, <1>2, <2>2, <2>3 DEF Fractions
<1> QED
  BY <1>2, <1>3, ReducedIs DEF Offset

\* A fingerprint that was scanned, and one that was sampled.
Scanned(f) == \A d \in DOMAIN f : f[d] \in Numbers
Sampled(f) == IsFiniteSet(DOMAIN f) /\ \A d \in DOMAIN f : f[d] \in Int

Adding(iter, S, f, b) ==
  iter = [s \in SUBSET S |->
            IF s = {} THEN <<0, 1>>
            ELSE Plus(iter[s \ {Pick(s)}], Offset(f[Pick(s)], b[Pick(s)]))]

LEMMA CountedIs ==
  ASSUME NEW f, NEW b, Scanned(f), Sampled(b)
  PROVE  /\ IsFiniteSet(Matched(f, b)) /\ IsFiniteSet(Counted(f, b))
         /\ \A d \in Counted(f, b) : /\ d \in DOMAIN f /\ d \in DOMAIN b
                                     /\ Offset(f[d], b[d]) \in Fractions
<1>1. Matched(f, b) \in SUBSET DOMAIN b /\ Counted(f, b) \in SUBSET DOMAIN b
  BY DEF Matched, Counted
<1>2. \A d \in Counted(f, b) : d \in DOMAIN f /\ d \in DOMAIN b
  BY DEF Matched, Counted
<1>3. \A d \in Counted(f, b) : f[d] \in Numbers /\ b[d] \in Int
  BY <1>2 DEF Scanned, Sampled
<1> QED
  BY <1>1, <1>2, <1>3, OffsetIs, FS_Subset DEF Sampled

LEMMA OffsetsAre ==
  ASSUME NEW f, NEW b, Scanned(f), Sampled(b)
  PROVE  \E iter : /\ Adding(iter, Counted(f, b), f, b)
                   /\ Offsets(f, b) = iter[Counted(f, b)]
                   /\ \A s \in SUBSET Counted(f, b) : iter[s] \in Fractions
<1>1. PICK S : S = Counted(f, b)
  OBVIOUS
<1>2. IsFiniteSet(S) /\ \A d \in S : Offset(f[d], b[d]) \in Fractions
  BY <1>1, CountedIs
<1>3. Offsets(f, b) = (CHOOSE iter : Adding(iter, S, f, b))[S]
  BY <1>1 DEF Offsets, FoldSet, MapThenFoldSet, Adding, Pick
<1>4. <<0, 1>> \in Fractions
  BY DEF Fractions
<1>5. \E iter : Adding(iter, S, f, b)
  <2> DEFINE step == [d \in S |-> [v \in Fractions |->
                                     Plus(v, Offset(f[d], b[d]))]]
  <2>1. \A d \in S, v \in Fractions : /\ step[d][v] = Plus(v, Offset(f[d], b[d]))
                                      /\ step[d][v] \in Fractions
    BY <1>2, PlusIs
  <2> HIDE DEF step
  <2>2. PICK iter : Folding(iter, S, <<0, 1>>, step)
    BY <1>2, FoldingExists
  <2>3. \A s \in SUBSET S :
          iter[s] = IF s = {} THEN <<0, 1>>
                    ELSE step[Pick(s)][iter[s \ {Pick(s)}]]
    BY <2>2 DEF Folding
  <2> DEFINE T == {s \in SUBSET S : iter[s] \in Fractions}
  <2>4. {} \in T
    BY <1>4, <2>3
  <2>5. ASSUME NEW s \in SUBSET S, s # {}, s \ {Pick(s)} \in T PROVE s \in T
    <3>1. Pick(s) \in S
      BY <1>2, <2>5, Picks
    <3> QED
      BY <2>1, <2>3, <2>5, <3>1
  <2>6. \A s \in SUBSET S : s \in T
    <3> HIDE DEF T
    <3> QED
      BY <1>2, <2>4, <2>5, SubsetInduction
  <2>7. ASSUME NEW s \in SUBSET S, s # {}
        PROVE  iter[s] = Plus(iter[s \ {Pick(s)}], Offset(f[Pick(s)], b[Pick(s)]))
    <3>1. Pick(s) \in S /\ s \ {Pick(s)} \in SUBSET S
      BY <1>2, <2>7, Picks
    <3> QED
      BY <2>1, <2>3, <2>6, <2>7, <3>1
  <2>8. iter = [s \in SUBSET S |-> iter[s]]
    BY <2>2 DEF Folding
  <2>9. iter = [s \in SUBSET S |->
                  IF s = {} THEN <<0, 1>>
                  ELSE Plus(iter[s \ {Pick(s)}], Offset(f[Pick(s)], b[Pick(s)]))]
    BY <2>3, <2>7, <2>8
  <2> QED
    BY <2>9 DEF Adding
<1>6. PICK iter : Adding(iter, S, f, b) /\ Offsets(f, b) = iter[S]
  BY <1>3, <1>5
<1>7. \A s \in SUBSET S :
        iter[s] = IF s = {} THEN <<0, 1>>
                  ELSE Plus(iter[s \ {Pick(s)}], Offset(f[Pick(s)], b[Pick(s)]))
  BY <1>6 DEF Adding
<1> DEFINE T == {s \in SUBSET S : iter[s] \in Fractions}
<1>8. {} \in T
  BY <1>4, <1>7
<1>9. ASSUME NEW s \in SUBSET S, s # {}, s \ {Pick(s)} \in T PROVE s \in T
  <2>1. Pick(s) \in S
    BY <1>2, <1>9, Picks
  <2> QED
    BY <1>2, <1>7, <1>9, <2>1, PlusIs
<1>10. \A s \in SUBSET S : s \in T
  <2> HIDE DEF T
  <2> QED
    BY <1>2, <1>8, <1>9, SubsetInduction
<1> QED
  BY <1>1, <1>6, <1>10

LEMMA ScoreOf ==
  ASSUME NEW n \in Nat, NEW sum \in Fractions
  PROVE  Reduced(<<rssiWeight * (n * sum[2] - sum[1]), n * sum[2]>>) \in Fractions
<1>1. PICK a \in Int, b \in Nat : sum[1] = a /\ sum[2] = b
  BY DEF Fractions
<1>2. PICK z : z = <<rssiWeight * (n * sum[2] - sum[1]), n * sum[2]>>
  OBVIOUS
<1>3. z \in Fractions
  <2>1. 70 * (n * b - a) \in Int /\ n * b \in Nat
    OBVIOUS
  <2> QED
    BY <1>1, <1>2, <2>1 DEF Fractions, rssiWeight
<1> QED
  BY <1>2, <1>3, ReducedIs

LEMMA ScoresAre ==
  ASSUME NEW f, NEW b, Scanned(f), Sampled(b)
  PROVE  NameScore(f, b) \in Fractions /\ RssiScore(f, b) \in Fractions
<1>1. NameScore(f, b) \in Fractions
  <2>1. Cardinality(Matched(f, b)) \in Nat /\ Cardinality(DOMAIN b) \in Nat
    BY CountedIs, FS_CardinalityType DEF Sampled
  <2>2. PICK m \in Nat, n \in Nat : m = Cardinality(Matched(f, b))
                                    /\ n = Cardinality(DOMAIN b)
    BY <2>1
  <2>3. 30 * m \in Int
    OBVIOUS
  <2> QED
    BY <2>2, <2>3 DEF NameScore, nameWeight, Fractions
<1>2. RssiScore(f, b) \in Fractions
  <2>1. Cardinality(Counted(f, b)) \in Nat
    BY CountedIs, FS_CardinalityType
  <2>2. Offsets(f, b) \in Fractions
    BY OffsetsAre
  <2>3. <<0, 1>> \in Fractions
    BY DEF Fractions
  <2> QED
    BY <2>1, <2>2, <2>3, ScoreOf DEF RssiScore
<1> QED
  BY <1>1, <1>2

LEMMA SimilarityIs ==
  ASSUME NEW f, NEW b, Scanned(f), Sampled(b)
  PROVE  CaculateSimilarity(f, b) \in Fractions
BY ScoresAre, PlusIs DEF CaculateSimilarity

Summing(iter, S, scanned) ==
  iter = [s \in SUBSET S |->
            IF s = {} THEN 0 ELSE scanned[Pick(s)].rssi + iter[s \ {Pick(s)}]]

SumOf(scanned, S) ==
  LET RSSI(i) == scanned[i].rssi IN MapThenSumSet(RSSI, S)

LEMMA SumIs ==
  ASSUME NEW scanned, NEW S, IsFiniteSet(S), \A i \in S : scanned[i].rssi \in Int
  PROVE  SumOf(scanned, S) \in Int
<1>1. SumOf(scanned, S) = (CHOOSE iter : Summing(iter, S, scanned))[S]
  BY DEF SumOf, MapThenSumSet, MapThenFoldSet, Summing, Pick
<1>2. \E iter : Summing(iter, S, scanned)
  <2> DEFINE step == [i \in S |-> [v \in Int |-> scanned[i].rssi + v]]
  <2>1. \A i \in S, v \in Int : step[i][v] = scanned[i].rssi + v /\ step[i][v] \in Int
    OBVIOUS
  <2> HIDE DEF step
  <2>2. PICK iter : Folding(iter, S, 0, step)
    BY FoldingExists
  <2>3. \A s \in SUBSET S :
          iter[s] = IF s = {} THEN 0 ELSE step[Pick(s)][iter[s \ {Pick(s)}]]
    BY <2>2 DEF Folding
  <2> DEFINE T == {s \in SUBSET S : iter[s] \in Int}
  <2>4. {} \in T
    BY <2>3
  <2>5. ASSUME NEW s \in SUBSET S, s # {}, s \ {Pick(s)} \in T PROVE s \in T
    <3>1. Pick(s) \in S
      BY <2>5, Picks
    <3> QED
      BY <2>1, <2>3, <2>5, <3>1
  <2>6. \A s \in SUBSET S : s \in T
    <3> HIDE DEF T
    <3> QED
      BY <2>4, <2>5, SubsetInduction
  <2>7. ASSUME NEW s \in SUBSET S, s # {}
        PROVE  iter[s] = scanned[Pick(s)].rssi + iter[s \ {Pick(s)}]
    <3>1. Pick(s) \in S /\ s \ {Pick(s)} \in SUBSET S
      BY <2>7, Picks
    <3> QED
      BY <2>1, <2>3, <2>6, <2>7, <3>1
  <2>8. iter = [s \in SUBSET S |-> iter[s]]
    BY <2>2 DEF Folding
  <2>9. iter = [s \in SUBSET S |->
                  IF s = {} THEN 0 ELSE scanned[Pick(s)].rssi + iter[s \ {Pick(s)}]]
    BY <2>3, <2>7, <2>8
  <2> QED
    BY <2>9 DEF Summing
<1>3. PICK iter : Summing(iter, S, scanned) /\ SumOf(scanned, S) = iter[S]
  BY <1>1, <1>2
<1>4. \A s \in SUBSET S :
        iter[s] = IF s = {} THEN 0 ELSE scanned[Pick(s)].rssi + iter[s \ {Pick(s)}]
  BY <1>3 DEF Summing
<1> DEFINE T == {s \in SUBSET S : iter[s] \in Int}
<1>5. {} \in T
  <2>1. {} \in SUBSET S /\ iter[{}] = 0
    BY <1>4
  <2> QED
    BY <2>1
<1>6. ASSUME NEW s \in SUBSET S, s # {}, s \ {Pick(s)} \in T PROVE s \in T
  <2>1. scanned[Pick(s)].rssi \in Int
    BY <1>6, Picks
  <2>2. iter[s \ {Pick(s)}] \in Int
    BY <1>6
  <2>3. iter[s] = scanned[Pick(s)].rssi + iter[s \ {Pick(s)}]
    BY <1>4, <1>6
  <2> QED
    BY <2>1, <2>2, <2>3
<1>7. \A s \in SUBSET S : s \in T
  <2> HIDE DEF T
  <2> QED
    BY <1>5, <1>6, SubsetInduction
<1> QED
  BY <1>3, <1>7

\* What a batch may hold.
Heard(s) == /\ Len(s) \in Nat /\ DOMAIN s = 1..Len(s)
            /\ \A i \in 1..Len(s) : s[i].rssi \in Int

LEMMA AverageIs ==
  ASSUME NEW scanned, Heard(scanned)
  PROVE  Scanned(DistinctAndAvgFingerprint(scanned))
<1> DEFINE Of(d) == {i \in DOMAIN scanned : scanned[i].device = d}
<1>1. ASSUME NEW d \in DOMAIN DistinctAndAvgFingerprint(scanned)
      PROVE  DistinctAndAvgFingerprint(scanned)[d] \in Numbers
  <2>1. PICK S : S = Of(d)
    OBVIOUS
  <2>2. DistinctAndAvgFingerprint(scanned)[d]
          = <<SumOf(scanned, S), Cardinality(S)>>
    BY <2>1 DEF SumOf, DistinctAndAvgFingerprint
  <2>3. S # {}
    BY <2>1 DEF DistinctAndAvgFingerprint
  <2>4. S \in SUBSET (1..Len(scanned)) /\ IsFiniteSet(1..Len(scanned))
    BY <2>1, FS_Interval DEF Heard
  <2>5. IsFiniteSet(S) /\ Cardinality(S) \in Nat \ {0}
    <3>1. IsFiniteSet(S)
      BY <2>4, FS_Subset
    <3> QED
      BY <2>3, <3>1, FS_CardinalityType, FS_EmptySet
  <2>6. \A i \in S : scanned[i].rssi \in Int
    BY <2>4 DEF Heard
  <2>7. SumOf(scanned, S) \in Int
    BY <2>5, <2>6, SumIs
  <2> QED
    BY <2>2, <2>5, <2>7 DEF Numbers
<1> QED
  BY <1>1 DEF Scanned

-----------------------------------------------------------------------------
(* How great a similarity is.                                              *)

AtMost(x, k) == x[1] <= k * x[2]
AtLeast(x, k) == k * x[2] <= x[1]

LEMMA NotNaN ==
  ASSUME NEW x \in Fractions
  PROVE  /\ ~IsNaN(x) <=> x \in Numbers
         /\ ~IsNaN(x) <=> x[2] # 0
BY DEF IsNaN, Fractions, Numbers

LEMMA ReducedBounds ==
  ASSUME NEW x \in Numbers, NEW k \in Int
  PROVE  /\ Reduced(x) \in Numbers
         /\ AtMost(Reduced(x), k) <=> AtMost(x, k)
         /\ AtLeast(Reduced(x), k) <=> AtLeast(x, k)
<1>1. PICK y : y = Reduced(x)
  OBVIOUS
<1>2. x \in Fractions /\ ~IsNaN(x)
  BY DEF Fractions, Numbers, IsNaN
<1>3. /\ y \in Fractions /\ ~IsNaN(y)
      /\ \E g \in Nat \ {0} : x[1] = g * y[1] /\ x[2] = g * y[2]
  BY <1>1, <1>2, ReducedIs
<1>4. y \in Numbers
  BY <1>3, NotNaN
<1>5. PICK g \in Nat \ {0} : x[1] = g * y[1] /\ x[2] = g * y[2]
  BY <1>3
<1>6. PICK a \in Int, b \in Nat : y[1] = a /\ y[2] = b
  BY <1>4 DEF Numbers
<1>7. x[1] = a * g /\ k * x[2] = (k * b) * g
  <2>1. g * a = a * g /\ k * (g * b) = (k * b) * g
    OBVIOUS
  <2> QED
    BY <1>5, <1>6, <2>1
<1>8. k * b \in Int
  OBVIOUS
<1>9. AtMost(y, k) <=> AtMost(x, k)
  <2>1. a <= k * b <=> a * g <= (k * b) * g
    BY <1>8, Scale, Cancel
  <2> QED
    BY <1>6, <1>7, <2>1 DEF AtMost
<1>10. AtLeast(y, k) <=> AtLeast(x, k)
  <2>1. k * b <= a <=> (k * b) * g <= a * g
    BY <1>8, Scale, Cancel
  <2> QED
    BY <1>6, <1>7, <2>1 DEF AtLeast
<1> QED
  BY <1>1, <1>4, <1>9, <1>10

LEMMA PlusBounds ==
  ASSUME NEW x \in Numbers, NEW y \in Numbers, NEW k \in Int, NEW l \in Int
  PROVE  /\ Plus(x, y) \in Numbers
         /\ AtMost(x, k) /\ AtMost(y, l) =>
              /\ AtMost(Plus(x, y), k + l)
              /\ AtLeast(Plus(x, y), k + l) => AtLeast(x, k) /\ AtLeast(y, l)
         /\ AtLeast(x, k) /\ AtLeast(y, l) =>
              /\ AtLeast(Plus(x, y), k + l)
              /\ AtMost(Plus(x, y), k + l) => AtMost(x, k) /\ AtMost(y, l)
<1>1. PICK a \in Int, b \in Nat \ {0} : x[1] = a /\ x[2] = b
  BY DEF Numbers
<1>2. PICK c \in Int, d \in Nat \ {0} : y[1] = c /\ y[2] = d
  BY DEF Numbers
<1>3. PICK z : z = <<a * d + c * b, b * d>>
  OBVIOUS
<1>4. Plus(x, y) = Reduced(z)
  BY <1>1, <1>2, <1>3 DEF Plus
<1>5. a * d \in Int /\ c * b \in Int /\ b * d \in Nat \ {0}
  OBVIOUS
<1>6. z \in Numbers /\ z[1] = a * d + c * b
  BY <1>3, <1>5 DEF Numbers
<1>7. PICK m \in Int, n \in Int : m = (k * b) * d /\ n = (l * d) * b
  OBVIOUS
<1>8. (k + l) * z[2] = m + n
  <2>1. (k + l) * (b * d) = (k * b) * d + (l * d) * b
    OBVIOUS
  <2> QED
    BY <1>3, <1>7, <2>1
<1>9. PICK p \in Int, q \in Int : p = a * d /\ q = c * b
  BY <1>5
<1>10. /\ AtMost(x, k) <=> p <= m
       /\ AtLeast(x, k) <=> m <= p
  <2>1. k * b \in Int
    OBVIOUS
  <2>2. a <= k * b <=> a * d <= (k * b) * d
    BY <2>1, Scale, Cancel
  <2>3. k * b <= a <=> (k * b) * d <= a * d
    BY <2>1, Scale, Cancel
  <2> QED
    BY <1>1, <1>7, <1>9, <2>2, <2>3 DEF AtMost, AtLeast
<1>11. /\ AtMost(y, l) <=> q <= n
       /\ AtLeast(y, l) <=> n <= q
  <2>1. l * d \in Int
    OBVIOUS
  <2>2. c <= l * d <=> c * b <= (l * d) * b
    BY <2>1, Scale, Cancel
  <2>3. l * d <= c <=> (l * d) * b <= c * b
    BY <2>1, Scale, Cancel
  <2> QED
    BY <1>2, <1>7, <1>9, <2>2, <2>3 DEF AtMost, AtLeast
<1>12. /\ Plus(x, y) \in Numbers
       /\ AtMost(Plus(x, y), k + l) <=> p + q <= m + n
       /\ AtLeast(Plus(x, y), k + l) <=> m + n <= p + q
  <2>1. k + l \in Int
    OBVIOUS
  <2> QED
    BY <1>4, <1>6, <1>8, <1>9, <2>1, ReducedBounds DEF AtMost, AtLeast
<1> QED
  BY <1>10, <1>11, <1>12

Exact(f, b, d) == f[d][1] = b[d] * f[d][2]

LEMMA OffsetBounds ==
  ASSUME NEW f, NEW b, NEW d, f[d] \in Numbers, b[d] \in Int,
         ~IsNaN(Offset(f[d], b[d]))
  PROVE  /\ Offset(f[d], b[d]) \in Numbers /\ AtLeast(Offset(f[d], b[d]), 0)
         /\ AtMost(Offset(f[d], b[d]), 0) <=> Exact(f, b, d)
<1>1. PICK a \in Int, c \in Nat \ {0} : f[d][1] = a /\ f[d][2] = c
  BY DEF Numbers
<1>2. PICK s \in Int : s = b[d]
  OBVIOUS
<1>3. PICK x : x = <<Size(a - s * c), Size(s) * c>>
  OBVIOUS
<1>4. Offset(f[d], b[d]) = Reduced(x)
  BY <1>1, <1>2, <1>3 DEF Offset
<1>5. /\ a - s * c \in Int /\ Size(s) * c \in Nat /\ Size(a - s * c) \in Nat
      /\ Size(a - s * c) = 0 <=> a - s * c = 0
  <2>1. a - s * c \in Int
    OBVIOUS
  <2>2. Size(s) \in Nat /\ Size(a - s * c) \in Nat
    BY <2>1, Sizes
  <2>3. Size(s) * c \in Nat
    BY <2>2
  <2> QED
    BY <2>1, <2>2, <2>3, Sizes
<1>6. x \in Fractions
  BY <1>3, <1>5 DEF Fractions
<1>7. x \in Numbers
  BY <1>4, <1>6, ReducedIs, NotNaN
<1>8. /\ AtLeast(x, 0) <=> 0 <= Size(a - s * c)
      /\ AtMost(x, 0) <=> Size(a - s * c) <= 0
  <2>1. 0 * (Size(s) * c) = 0
    BY <1>5
  <2> QED
    BY <1>3, <2>1 DEF AtLeast, AtMost
<1>9. Exact(f, b, d) <=> a - s * c = 0
  BY <1>1, <1>2, <1>5 DEF Exact
<1> QED
  BY <1>4, <1>5, <1>7, <1>8, <1>9, ReducedBounds

\* The sum is between 0 and the number of what is added, and 0 just when all
\* of it is exact.
LEMMA OffsetsBounds ==
  ASSUME NEW f, NEW b, Scanned(f), Sampled(b)
  PROVE  /\ Offsets(f, b) \in Numbers /\ AtLeast(Offsets(f, b), 0)
         /\ AtMost(Offsets(f, b), Cardinality(Counted(f, b)))
         /\ AtMost(Offsets(f, b), 0) <=> \A d \in Counted(f, b) : Exact(f, b, d)
<1>1. PICK S : S = Counted(f, b)
  OBVIOUS
<1>2. PICK iter : Adding(iter, S, f, b) /\ Offsets(f, b) = iter[S]
  BY <1>1, OffsetsAre
<1>3. \A s \in SUBSET S :
        iter[s] = IF s = {} THEN <<0, 1>>
                  ELSE Plus(iter[s \ {Pick(s)}], Offset(f[Pick(s)], b[Pick(s)]))
  BY <1>2 DEF Adding
<1>4. IsFiniteSet(S)
  BY <1>1, CountedIs
<1>5. ASSUME NEW d \in S
      PROVE  /\ Offset(f[d], b[d]) \in Numbers
             /\ AtLeast(Offset(f[d], b[d]), 0) /\ AtMost(Offset(f[d], b[d]), 1)
             /\ AtMost(Offset(f[d], b[d]), 0) <=> Exact(f, b, d)
  <2>1. Less(Offset(f[d], b[d]), <<1, 1>>)
    BY <1>1 DEF Counted
  <2>2. d \in DOMAIN f /\ d \in DOMAIN b
    BY <1>1, CountedIs
  <2>3. /\ Offset(f[d], b[d]) \in Numbers /\ AtLeast(Offset(f[d], b[d]), 0)
        /\ AtMost(Offset(f[d], b[d]), 0) <=> Exact(f, b, d)
    BY <2>1, <2>2, OffsetBounds DEF Less, Scanned, Sampled
  <2>4. AtMost(Offset(f[d], b[d]), 1)
    BY <2>1, <2>3 DEF Less, AtMost, Numbers
  <2> QED
    BY <2>3, <2>4
<1> DEFINE Good(s) ==
             /\ iter[s] \in Numbers /\ AtLeast(iter[s], 0)
             /\ AtMost(iter[s], Cardinality(s))
             /\ AtMost(iter[s], 0) <=> \A d \in s : Exact(f, b, d)
           T == {s \in SUBSET S : Good(s)}
<1>6. {} \in T
  <2>1. iter[{}] = <<0, 1>> /\ Cardinality({}) = 0
    BY <1>3, FS_EmptySet
  <2>2. PICK v \in Numbers : v = iter[{}] /\ v[1] = 0 /\ v[2] = 1
    BY <2>1 DEF Numbers
  <2>3. AtLeast(v, 0) /\ AtMost(v, 0)
    BY <2>2 DEF AtLeast, AtMost
  <2>4. Good({})
    BY <2>1, <2>2, <2>3
  <2> HIDE DEF Good
  <2> QED
    BY <2>4
<1>7. ASSUME NEW s \in SUBSET S, s # {}, s \ {Pick(s)} \in T PROVE s \in T
  <2>1. PICK d \in S, r \in SUBSET S :
          /\ d = Pick(s) /\ r = s \ {Pick(s)} /\ d \in s /\ Good(r)
          /\ Cardinality(r) = Cardinality(s) - 1 /\ Cardinality(s) \in Nat \ {0}
    <3>1. /\ Pick(s) \in s /\ s \ {Pick(s)} \in SUBSET S
          /\ Cardinality(s) \in Nat \ {0}
          /\ Cardinality(s \ {Pick(s)}) = Cardinality(s) - 1
      BY <1>4, <1>7, Picks
    <3> HIDE DEF Good
    <3>2. Good(s \ {Pick(s)})
      BY <1>7
    <3> QED
      BY <3>1, <3>2
  <2>2. PICK v \in Numbers, o \in Numbers :
          v = iter[r] /\ o = Offset(f[d], b[d]) /\ iter[s] = Plus(v, o)
    BY <1>3, <1>5, <1>7, <2>1
  <2>3. PICK n \in Nat : n = Cardinality(r) /\ Cardinality(s) = n + 1
    BY <2>1
  <2>4. /\ AtLeast(v, 0) /\ AtMost(v, n)
        /\ AtMost(v, 0) <=> \A e \in r : Exact(f, b, e)
    BY <2>1, <2>2, <2>3
  <2>5. /\ AtLeast(o, 0) /\ AtMost(o, 1)
        /\ AtMost(o, 0) <=> Exact(f, b, d)
    BY <1>5, <2>2
  <2>6. /\ Plus(v, o) \in Numbers /\ AtLeast(Plus(v, o), 0 + 0)
        /\ AtMost(Plus(v, o), n + 1)
        /\ AtMost(Plus(v, o), 0 + 0) <=> AtMost(v, 0) /\ AtMost(o, 0)
    BY <2>4, <2>5, PlusBounds
  <2>7. (\A e \in s : Exact(f, b, e))
          <=> Exact(f, b, d) /\ \A e \in r : Exact(f, b, e)
    BY <2>1
  <2>8. Good(s)
    BY <2>2, <2>3, <2>4, <2>5, <2>6, <2>7
  <2> HIDE DEF Good
  <2> QED
    BY <2>8
<1>8. \A s \in SUBSET S : s \in T
  <2> HIDE DEF T
  <2> QED
    BY <1>4, <1>6, <1>7, SubsetInduction
<1>9. Good(S)
  <2> HIDE DEF Good
  <2> QED
    BY <1>8
<1> QED
  BY <1>1, <1>2, <1>9

\* A similarity of names is at most 30, and that when nothing is missing.
LEMMA NameBounds ==
  ASSUME NEW f, NEW b, Sampled(b), ~IsNaN(NameScore(f, b))
  PROVE  /\ NameScore(f, b) \in Numbers
         /\ AtLeast(NameScore(f, b), 0) /\ AtMost(NameScore(f, b), 30)
         /\ AtLeast(NameScore(f, b), 30) => DOMAIN b \subseteq DOMAIN f
         /\ DOMAIN f = DOMAIN b => AtLeast(NameScore(f, b), 30)
<1>1. CASE DOMAIN f = DOMAIN b
  <2>1. NameScore(f, b) = <<30, 1>>
    BY <1>1 DEF NameScore, nameWeight
  <2> QED
    BY <1>1, <2>1 DEF Numbers, AtLeast, AtMost
<1>2. CASE DOMAIN f # DOMAIN b
  <2>1. Matched(f, b) \in SUBSET DOMAIN b /\ Matched(f, b) \subseteq DOMAIN f
    BY DEF Matched
  <2>2. /\ Cardinality(Matched(f, b)) \in Nat /\ Cardinality(DOMAIN b) \in Nat
        /\ Cardinality(Matched(f, b)) <= Cardinality(DOMAIN b)
        /\ Cardinality(DOMAIN b) = Cardinality(Matched(f, b))
             => DOMAIN b = Matched(f, b)
    BY <2>1, FS_Subset, FS_CardinalityType DEF Sampled
  <2>3. PICK m \in Nat, n \in Nat :
          /\ m = Cardinality(Matched(f, b)) /\ n = Cardinality(DOMAIN b)
          /\ m <= n
    BY <2>2
  <2>4. PICK x : x = <<30 * m, n>> /\ x = NameScore(f, b)
    BY <1>2, <2>3 DEF NameScore, nameWeight
  <2>5. n # 0 /\ 30 * m \in Int
    BY <2>4 DEF IsNaN
  <2>6. x \in Numbers /\ AtLeast(x, 0) /\ AtMost(x, 30)
    BY <2>3, <2>4, <2>5 DEF Numbers, AtLeast, AtMost
  <2>7. AtLeast(x, 30) => n = m
    BY <2>3, <2>4 DEF AtLeast
  <2> QED
    BY <1>2, <2>1, <2>2, <2>3, <2>4, <2>6, <2>7
<1> QED
  BY <1>1, <1>2

\* One of RSSIs is at most 70, and that when one at least was counted and all
\* that were are exact.
LEMMA RssiBounds ==
  ASSUME NEW f, NEW b, Scanned(f), Sampled(b), ~IsNaN(RssiScore(f, b))
  PROVE  /\ RssiScore(f, b) \in Numbers
         /\ AtLeast(RssiScore(f, b), 0) /\ AtMost(RssiScore(f, b), 70)
         /\ AtLeast(RssiScore(f, b), 70)
              <=> /\ Counted(f, b) # {}
                  /\ \A d \in Counted(f, b) : Exact(f, b, d)
         /\ Matched(f, b) # {} => Counted(f, b) # {}
<1>1. CASE Matched(f, b) = {}
  <2>1. RssiScore(f, b) = <<0, 1>>
    BY <1>1 DEF RssiScore
  <2>2. Counted(f, b) = {}
    BY <1>1 DEF Counted
  <2> QED
    BY <1>1, <2>1, <2>2 DEF Numbers, AtLeast, AtMost
<1>2. CASE Matched(f, b) # {}
  <2>1. PICK n \in Nat : n = Cardinality(Counted(f, b))
    BY CountedIs, FS_CardinalityType
  <2>2. PICK s \in Numbers : s = Offsets(f, b)
    BY OffsetsBounds
  <2>3. PICK a \in Int, c \in Nat \ {0} : s[1] = a /\ s[2] = c
    BY DEF Numbers
  <2>4. PICK x : x = <<70 * (n * c - a), n * c>>
    OBVIOUS
  <2>5. RssiScore(f, b) = Reduced(x)
    BY <1>2, <2>1, <2>2, <2>3, <2>4 DEF RssiScore, rssiWeight
  <2>6. n * c \in Nat /\ 70 * (n * c - a) \in Int
    OBVIOUS
  <2>7. x \in Fractions
    BY <2>4, <2>6 DEF Fractions
  <2>8. x \in Numbers /\ n * c # 0
    BY <2>4, <2>5, <2>7, ReducedIs, NotNaN
  <2>9. Counted(f, b) # {}
    <3>1. n # 0
      BY <2>8
    <3> QED
      BY <2>1, <3>1, FS_EmptySet
  <2>10. PICK p \in Nat : p = n * c
    BY <2>6
  <2>11. a >= 0 /\ a <= p /\ (a <= 0 <=> \A d \in Counted(f, b) : Exact(f, b, d))
    <3>1. 0 * c = 0
      OBVIOUS
    <3>2. AtLeast(s, 0) /\ AtMost(s, n)
          /\ (AtMost(s, 0) <=> \A d \in Counted(f, b) : Exact(f, b, d))
      BY <2>1, <2>2, OffsetsBounds
    <3> QED
      BY <2>3, <2>10, <3>1, <3>2 DEF AtLeast, AtMost
  <2>12. x[1] = 70 * (p - a) /\ x[2] = p
    BY <2>4, <2>10
  <2>13. /\ AtLeast(x, 0) /\ AtMost(x, 70)
         /\ AtLeast(x, 70) <=> a <= 0
    BY <2>11, <2>12 DEF AtLeast, AtMost
  <2> QED
    BY <2>5, <2>8, <2>9, <2>11, <2>13, ReducedBounds
<1> QED
  BY <1>1, <1>2

\* A sum of doubles is not a number just when one of the two is not.
LEMMA PlusNaN ==
  ASSUME NEW x \in Fractions, NEW y \in Fractions
  PROVE  IsNaN(Plus(x, y)) <=> IsNaN(x) \/ IsNaN(y)
<1>1. PICK p \in Int, q \in Nat : x[1] = p /\ x[2] = q
  BY DEF Fractions
<1>2. PICK r \in Int, t \in Nat : y[1] = r /\ y[2] = t
  BY DEF Fractions
<1>3. PICK z : z = <<p * t + r * q, q * t>>
  OBVIOUS
<1>4. p * t + r * q \in Int /\ q * t \in Nat
  OBVIOUS
<1>5. z \in Fractions /\ Plus(x, y) = Reduced(z)
  BY <1>1, <1>2, <1>3, <1>4 DEF Fractions, Plus
<1>6. IsNaN(Plus(x, y)) <=> q * t = 0
  BY <1>3, <1>5, ReducedIs DEF IsNaN
<1>7. q * t = 0 <=> q = 0 \/ t = 0
  OBVIOUS
<1> QED
  BY <1>1, <1>2, <1>6, <1>7 DEF IsNaN

(* Util.java:216-291. For any two fingerprints: a similarity that is a     *)
(* number is within 0..100. Of what is just as it was sampled it is 100;   *)
(* and where it is 100 nothing that was sampled is missing and one device  *)
(* at least has the very RSSI.                                             *)
THEOREM SimilarityBounds ==
  ASSUME NEW f, NEW b, Scanned(f), Sampled(b), DOMAIN f # {},
         ~IsNaN(CaculateSimilarity(f, b))
  PROVE  /\ CaculateSimilarity(f, b) \in Numbers
         /\ AtLeast(CaculateSimilarity(f, b), 0)
         /\ AtMost(CaculateSimilarity(f, b), 100)
         /\ DOMAIN f = DOMAIN b /\ (\A d \in DOMAIN f : Exact(f, b, d))
              => AtLeast(CaculateSimilarity(f, b), 100)
         /\ AtLeast(CaculateSimilarity(f, b), 100)
              => /\ DOMAIN b \subseteq DOMAIN f
                 /\ \E d \in DOMAIN b : Exact(f, b, d)
<1>1. PICK x, y : x = NameScore(f, b) /\ y = RssiScore(f, b)
                  /\ CaculateSimilarity(f, b) = Plus(x, y)
  BY DEF CaculateSimilarity
<1>2. x \in Fractions /\ y \in Fractions
  BY <1>1, ScoresAre
<1>3. ~IsNaN(x) /\ ~IsNaN(y)
  BY <1>1, <1>2, PlusNaN
<1>4. /\ x \in Numbers /\ AtLeast(x, 0) /\ AtMost(x, 30)
      /\ AtLeast(x, 30) => DOMAIN b \subseteq DOMAIN f
      /\ DOMAIN f = DOMAIN b => AtLeast(x, 30)
  BY <1>1, <1>3, NameBounds
<1>5. /\ y \in Numbers /\ AtLeast(y, 0) /\ AtMost(y, 70)
      /\ AtLeast(y, 70) <=> /\ Counted(f, b) # {}
                            /\ \A d \in Counted(f, b) : Exact(f, b, d)
      /\ Matched(f, b) # {} => Counted(f, b) # {}
  BY <1>1, <1>3, RssiBounds
<1>6. /\ Plus(x, y) \in Numbers
      /\ AtLeast(Plus(x, y), 0 + 0) /\ AtMost(Plus(x, y), 30 + 70)
      /\ AtLeast(Plus(x, y), 30 + 70) <=> AtLeast(x, 30) /\ AtLeast(y, 70)
  BY <1>4, <1>5, PlusBounds
<1>7. Counted(f, b) \subseteq Matched(f, b) /\ Matched(f, b) \subseteq DOMAIN b
      /\ Matched(f, b) \subseteq DOMAIN f
  BY DEF Counted, Matched
<1>8. DOMAIN f = DOMAIN b => Matched(f, b) # {}
  BY DEF Matched
<1>9. 0 + 0 = 0 /\ 30 + 70 = 100
  OBVIOUS
<1> QED
  BY <1>1, <1>4, <1>5, <1>6, <1>7, <1>8, <1>9

\* At least as far off as the whole RSSI that was sampled.
Far(f, b, d) == Size(f[d][1] - b[d] * f[d][2]) >= Size(b[d]) * f[d][2]

\* Those that are far off are ignored, and only those.
LEMMA CountedNear ==
  ASSUME NEW f, NEW b, NEW d, f[d] \in Numbers, b[d] \in Int
  PROVE  Less(Offset(f[d], b[d]), <<1, 1>>) <=> ~Far(f, b, d)
<1>1. PICK a \in Int, c \in Nat \ {0} : f[d][1] = a /\ f[d][2] = c
  BY DEF Numbers
<1>2. PICK s \in Int : s = b[d]
  OBVIOUS
<1>3. /\ Size(a - s * c) \in Nat /\ Size(s) * c \in Nat
  <2>1. a - s * c \in Int
    OBVIOUS
  <2>2. Size(s) \in Nat /\ Size(a - s * c) \in Nat
    BY <2>1, Sizes
  <2>3. Size(s) * c \in Nat
    BY <2>2
  <2> QED
    BY <2>2, <2>3
<1>4. PICK m \in Nat, n \in Nat : m = Size(a - s * c) /\ n = Size(s) * c
  BY <1>3
<1>5. PICK x \in Fractions : x = <<m, n>> /\ x[1] = m /\ x[2] = n
  <2>1. <<m, n>> \in Fractions
    BY DEF Fractions
  <2> QED
    BY <2>1
<1>6. Offset(f[d], b[d]) = Reduced(x) /\ (Far(f, b, d) <=> m >= n)
  BY <1>1, <1>2, <1>4, <1>5 DEF Offset, Far
<1>7. CASE n = 0
  <2>1. IsNaN(Reduced(x))
    BY <1>5, <1>7, ReducedIs DEF IsNaN
  <2> QED
    BY <1>6, <1>7, <2>1 DEF Less
<1>8. CASE n # 0
  <2>1. x \in Numbers
    BY <1>5, <1>8 DEF Numbers
  <2>2. PICK y \in Numbers : y = Reduced(x)
                             /\ (AtLeast(y, 1) <=> AtLeast(x, 1))
    BY <2>1, ReducedBounds
  <2>3. Less(y, <<1, 1>>) <=> ~AtLeast(y, 1)
    BY DEF Less, IsNaN, AtLeast, Numbers
  <2>4. AtLeast(x, 1) <=> m >= n
    BY <1>5 DEF AtLeast
  <2> QED
    BY <1>6, <2>2, <2>3, <2>4
<1> QED
  BY <1>7, <1>8

(* Util.java:251, 271 and 281-282. For any two fingerprints: the           *)
(* similarity is not a number just when all devices of the point that were *)
(* heard are ignored, each at least its whole RSSI off, or the point has   *)
(* no device.                                                              *)
THEOREM WhenNotANumber ==
  ASSUME NEW f, NEW b, Scanned(f), Sampled(b), DOMAIN f # {}
  PROVE  IsNaN(CaculateSimilarity(f, b)) <=>
            \/ DOMAIN b = {}
            \/ Matched(f, b) # {} /\ \A d \in Matched(f, b) : Far(f, b, d)
<1>1. IsNaN(CaculateSimilarity(f, b))
        <=> IsNaN(NameScore(f, b)) \/ IsNaN(RssiScore(f, b))
  BY ScoresAre, PlusNaN DEF CaculateSimilarity
<1>2. IsNaN(NameScore(f, b)) <=> DOMAIN b = {}
  <2>1. CASE DOMAIN f = DOMAIN b
    <3>1. NameScore(f, b) = <<30, 1>>
      BY <2>1 DEF NameScore, nameWeight
    <3> QED
      BY <2>1, <3>1 DEF IsNaN
  <2>2. CASE DOMAIN f # DOMAIN b
    <3>1. NameScore(f, b)[2] = Cardinality(DOMAIN b)
      BY <2>2 DEF NameScore
    <3>2. Cardinality(DOMAIN b) = 0 <=> DOMAIN b = {}
      BY FS_EmptySet DEF Sampled
    <3> QED
      BY <3>1, <3>2 DEF IsNaN
  <2> QED
    BY <2>1, <2>2
<1>3. IsNaN(RssiScore(f, b)) <=> Matched(f, b) # {} /\ Counted(f, b) = {}
  <2>1. CASE Matched(f, b) = {}
    BY <2>1 DEF RssiScore, IsNaN
  <2>2. CASE Matched(f, b) # {}
    <3>1. PICK n \in Nat : n = Cardinality(Counted(f, b))
      BY CountedIs, FS_CardinalityType
    <3>2. n = 0 <=> Counted(f, b) = {}
      BY <3>1, CountedIs, FS_EmptySet
    <3>3. PICK s \in Numbers : s = Offsets(f, b)
      BY OffsetsBounds
    <3>4. PICK a \in Int, c \in Nat \ {0} : s[1] = a /\ s[2] = c
      BY DEF Numbers
    <3>5. PICK x : x = <<70 * (n * c - a), n * c>>
      OBVIOUS
    <3>6. RssiScore(f, b) = Reduced(x)
      BY <2>2, <3>1, <3>3, <3>4, <3>5 DEF RssiScore, rssiWeight
    <3>7. n * c \in Nat /\ 70 * (n * c - a) \in Int /\ (n * c = 0 <=> n = 0)
      OBVIOUS
    <3>8. x \in Fractions /\ (IsNaN(x) <=> n * c = 0)
      BY <3>5, <3>7 DEF Fractions, IsNaN
    <3>9. IsNaN(RssiScore(f, b)) <=> n = 0
      BY <3>6, <3>7, <3>8, ReducedIs
    <3> QED
      BY <2>2, <3>2, <3>9
  <2> QED
    BY <2>1, <2>2
<1>4. Counted(f, b) = {} <=> \A d \in Matched(f, b) : Far(f, b, d)
  <2>1. ASSUME NEW d \in Matched(f, b)
        PROVE  d \in Counted(f, b) <=> ~Far(f, b, d)
    <3>1. f[d] \in Numbers /\ b[d] \in Int
      BY DEF Matched, Scanned, Sampled
    <3>2. Less(Offset(f[d], b[d]), <<1, 1>>) <=> ~Far(f, b, d)
      BY <3>1, CountedNear
    <3> QED
      BY <3>2 DEF Counted
  <2>2. Counted(f, b) \subseteq Matched(f, b)
    BY DEF Counted
  <2> QED
    BY <2>1, <2>2
<1> QED
  BY <1>1, <1>2, <1>3, <1>4

LEMMA MaxIs ==
  ASSUME NEW s \in SUBSET Nat, NEW m \in s, \A i \in s : i <= m
  PROVE  Max(s) = m
<1>1. \A x \in s : (\A y \in s : x >= y) => x = m
  OBVIOUS
<1>2. \A y \in s : m >= y
  OBVIOUS
<1> QED
  BY <1>1, <1>2 DEF Max

-----------------------------------------------------------------------------
(* What the fold over a sequence computes, element by element.             *)

Insert(s, x) == InsertAt(s, Place(s, x), x)
Inserts(base, q) == FoldLeft(Insert, base, q)

Inserting(iter, base, q, n) ==
  iter = [s \in SUBSET (1..n) |->
            IF s = {} THEN base
            ELSE Insert(iter[s \ {Max(s)}], q[Max(s)])]

LEMMA InsertingExists ==
  ASSUME NEW base, NEW q
  PROVE  \A n \in Nat : \E iter : Inserting(iter, base, q, n)
<1> DEFINE S == {n \in Nat : \E iter : Inserting(iter, base, q, n)}
<1>1. 0 \in S
  <2> DEFINE f == [s \in SUBSET (1..0) |-> base]
  <2>1. \A s \in SUBSET (1..0) : s = {}
    OBVIOUS
  <2>2. f = [s \in SUBSET (1..0) |->
               IF s = {} THEN base ELSE Insert(f[s \ {Max(s)}], q[Max(s)])]
    BY <2>1
  <2>3. Inserting(f, base, q, 0)
    BY <2>2 DEF Inserting
  <2> QED
    BY <2>3
<1>2. ASSUME NEW n \in Nat, n \in S PROVE n + 1 \in S
  <2>1. PICK g : Inserting(g, base, q, n)
    BY <1>2
  <2> DEFINE f == [s \in SUBSET (1..(n + 1)) |->
                     IF n + 1 \in s THEN Insert(g[s \ {n + 1}], q[n + 1])
                     ELSE g[s]]
  <2>2. \A s \in SUBSET (1..n) :
          /\ s \in SUBSET (1..(n + 1)) /\ n + 1 \notin s
          /\ g[s] = IF s = {} THEN base
                    ELSE Insert(g[s \ {Max(s)}], q[Max(s)])
    <3>1. \A s \in SUBSET (1..n) : s \in SUBSET (1..(n + 1)) /\ n + 1 \notin s
      <4>1. \A i \in 1..n : i \in 1..(n + 1) /\ i # n + 1
        OBVIOUS
      <4> QED
        BY <4>1
    <3>2. \A s \in SUBSET (1..n) :
            g[s] = IF s = {} THEN base
                   ELSE Insert(g[s \ {Max(s)}], q[Max(s)])
      BY <2>1 DEF Inserting
    <3> QED
      BY <3>1, <3>2
  <2>3. \A s \in SUBSET (1..n) : f[s] = g[s]
    BY <2>2
  <2>4. ASSUME NEW s \in SUBSET (1..(n + 1))
        PROVE  f[s] = IF s = {} THEN base
                      ELSE Insert(f[s \ {Max(s)}], q[Max(s)])
    <3>1. CASE n + 1 \in s
      <4>1. Max(s) = n + 1
        BY <3>1, MaxIs
      <4>2. s \ {n + 1} \in SUBSET (1..n)
        OBVIOUS
      <4>3. f[s \ {n + 1}] = g[s \ {n + 1}]
        BY <2>3, <4>2
      <4>4. f[s] = Insert(g[s \ {n + 1}], q[n + 1])
        BY <3>1
      <4> HIDE DEF f
      <4> QED
        BY <3>1, <4>1, <4>3, <4>4
    <3>2. CASE n + 1 \notin s
      <4>1. s \in SUBSET (1..n) /\ s \ {Max(s)} \in SUBSET (1..n)
        <5>1. \A i \in s : i \in 1..(n + 1) /\ i # n + 1
          BY <3>2
        <5>2. \A i \in s : i \in 1..n
          BY <5>1
        <5> QED
          BY <5>2
      <4>2. f[s] = g[s] /\ f[s \ {Max(s)}] = g[s \ {Max(s)}]
        BY <2>3, <4>1
      <4> HIDE DEF f
      <4> QED
        BY <2>2, <4>1, <4>2
    <3> QED
      BY <3>1, <3>2
  <2>5. f = [s \in SUBSET (1..(n + 1)) |->
               IF s = {} THEN base ELSE Insert(f[s \ {Max(s)}], q[Max(s)])]
    BY <2>4
  <2>6. Inserting(f, base, q, n + 1)
    BY <2>5 DEF Inserting
  <2> QED
    BY <2>6
<1> HIDE DEF S
<1>3. \A n \in Nat : n \in S
  BY <1>1, <1>2, Induction
<1> QED
  BY <1>3 DEF S

\* v[k] is what there is when k elements were inserted.
Steps(v, base, q) ==
  /\ v[0] = base /\ Inserts(base, q) = v[Len(q)]
  /\ \A k \in 0..(Len(q) - 1) : v[k + 1] = Insert(v[k], q[k + 1])

LEMMA FoldSteps ==
  ASSUME NEW base, NEW q, Len(q) \in Nat, DOMAIN q = 1..Len(q)
  PROVE  \E v : Steps(v, base, q)
<1>1. PICK iter : /\ Inserting(iter, base, q, Len(q))
                  /\ Inserts(base, q) = iter[1..Len(q)]
  <2>1. Inserts(base, q)
          = (CHOOSE iter : Inserting(iter, base, q, Len(q)))[1..Len(q)]
    BY DEF Inserts, FoldLeft, MapThenFoldSet, Inserting
  <2>2. \E iter : Inserting(iter, base, q, Len(q))
    BY InsertingExists
  <2> QED
    BY <2>1, <2>2
<1>2. iter[{}] = base
  BY <1>1 DEF Inserting
<1>3. ASSUME NEW k \in 0..(Len(q) - 1)
      PROVE  iter[1..(k + 1)] = Insert(iter[1..k], q[k + 1])
  <2>1. 1..(k + 1) \in SUBSET (1..Len(q)) /\ 1..(k + 1) # {} /\ k + 1 \in 1..(k + 1)
    <3>1. k \in Nat /\ k + 1 <= Len(q) /\ k + 1 \in 1..(k + 1)
      OBVIOUS
    <3>2. \A i \in 1..(k + 1) : i \in 1..Len(q)
      BY <3>1
    <3> QED
      BY <3>1, <3>2
  <2>2. Max(1..(k + 1)) = k + 1
    BY <2>1, MaxIs
  <2>3. (1..(k + 1)) \ {k + 1} = 1..k
    OBVIOUS
  <2> QED
    BY <1>1, <2>1, <2>2, <2>3 DEF Inserting
<1> DEFINE v == [k \in 0..Len(q) |-> iter[1..k]]
<1>4. v[0] = base
  <2>1. 1..0 = {}
    OBVIOUS
  <2> QED
    BY <1>2, <2>1
<1>5. \A k \in 0..(Len(q) - 1) : v[k + 1] = Insert(v[k], q[k + 1])
  BY <1>3
<1>6. Inserts(base, q) = v[Len(q)]
  BY <1>1
<1> HIDE DEF v
<1> QED
  BY <1>4, <1>5, <1>6 DEF Steps

-----------------------------------------------------------------------------
(* The binary search.                                                      *)

Searching(p, s, x, l, r) ==
  IF l >= r THEN l
  ELSE IF Before(x, s[(l + r) \div 2]) THEN p[l][(l + r) \div 2]
  ELSE p[(l + r) \div 2 + 1][r]
Placing(p, s, x) ==
  p = [l \in 1..(Len(s) + 1) |-> [r \in 1..(Len(s) + 1) |-> Searching(p, s, x, l, r)]]

LEMMA Halves ==
  ASSUME NEW n \in Nat, NEW l \in 1..n, NEW r \in 1..n, l < r
  PROVE  /\ (l + r) \div 2 \in l..(r - 1) /\ (l + r) \div 2 \in 1..n
         /\ (l + r) \div 2 + 1 \in (l + 1)..r /\ (l + r) \div 2 + 1 \in 1..n
         /\ (l + r) \div 2 - l < r - l /\ r - ((l + r) \div 2 + 1) < r - l
OBVIOUS

LEMMA PlacingExists ==
  ASSUME NEW s, NEW x, Len(s) \in Nat
  PROVE  \E p : Placing(p, s, x)
<1> DEFINE n == Len(s) + 1
           Upto(p, d) == \A l \in 1..n, r \in 1..n :
                           r - l <= d => p[l][r] = Searching(p, s, x, l, r)
           S == {d \in Nat : \E p : Upto(p, d)}
<1>0. n \in Nat
  OBVIOUS
<1>1. 0 \in S
  <2> DEFINE f == [l \in 1..n |-> [r \in 1..n |-> l]]
  <2>1. ASSUME NEW l \in 1..n, NEW r \in 1..n, r - l <= 0
        PROVE  f[l][r] = Searching(f, s, x, l, r)
    <3>1. l >= r
      BY <2>1
    <3> QED
      BY <3>1 DEF Searching
  <2> HIDE DEF f
  <2>2. Upto(f, 0)
    BY <2>1
  <2> QED
    BY <2>2
<1>2. ASSUME NEW d \in Nat, d \in S PROVE d + 1 \in S
  <2>1. PICK p : Upto(p, d)
    BY <1>2
  <2> DEFINE f == [l \in 1..n |-> [r \in 1..n |->
                     IF r - l <= d THEN p[l][r] ELSE Searching(p, s, x, l, r)]]
  <2>2. \A l \in 1..n, r \in 1..n :
          f[l][r] = IF r - l <= d THEN p[l][r] ELSE Searching(p, s, x, l, r)
    OBVIOUS
  <2> HIDE DEF f
  <2>3. ASSUME NEW l \in 1..n, NEW r \in 1..n, r - l <= d + 1
        PROVE  f[l][r] = Searching(f, s, x, l, r)
    <3>1. f[l][r] = Searching(p, s, x, l, r)
      BY <2>1, <2>2
    <3>2. CASE l >= r
      BY <3>1, <3>2 DEF Searching
    <3>3. CASE l < r
      <4> DEFINE m == (l + r) \div 2
      <4>1. /\ m \in 1..n /\ m + 1 \in 1..n
            /\ m - l < r - l /\ r - (m + 1) < r - l
        BY <1>0, <3>3, Halves
      <4> HIDE DEF m
      <4>2. m - l <= d /\ r - (m + 1) <= d
        BY <2>3, <4>1
      <4>3. f[l][m] = p[l][m] /\ f[m + 1][r] = p[m + 1][r]
        BY <2>2, <4>1, <4>2
      <4> QED
        BY <3>1, <4>3 DEF Searching, m
    <3> QED
      BY <3>2, <3>3
  <2>4. Upto(f, d + 1)
    BY <2>3
  <2> QED
    BY <2>4
<1> HIDE DEF S
<1>3. \A d \in Nat : d \in S
  BY <1>1, <1>2, Induction
<1>4. PICK p : Upto(p, n)
  BY <1>0, <1>3 DEF S
<1> DEFINE f == [l \in 1..n |-> [r \in 1..n |-> p[l][r]]]
<1>5. \A l \in 1..n, r \in 1..n : f[l][r] = p[l][r]
  OBVIOUS
<1>6. ASSUME NEW l \in 1..n, NEW r \in 1..n
      PROVE  p[l][r] = Searching(f, s, x, l, r)
  <2> HIDE DEF f
  <2>1. r - l <= n
    BY <1>0
  <2>2. p[l][r] = Searching(p, s, x, l, r)
    BY <1>4, <2>1
  <2>3. CASE l >= r
    BY <2>2, <2>3 DEF Searching
  <2>4. CASE l < r
    <3> DEFINE m == (l + r) \div 2
    <3>1. m \in 1..n /\ m + 1 \in 1..n
      BY <1>0, <2>4, Halves
    <3> HIDE DEF m
    <3>2. f[l][m] = p[l][m] /\ f[m + 1][r] = p[m + 1][r]
      BY <1>5, <3>1
    <3> QED
      BY <2>2, <3>2 DEF Searching, m
  <2> QED
    BY <2>3, <2>4
<1>7. f = [l \in 1..n |-> [r \in 1..n |-> Searching(f, s, x, l, r)]]
  BY <1>6, Zenon
<1>8. Placing(f, s, x)
  BY <1>7 DEF Placing
<1> QED
  BY <1>8

\* Up to Place nothing is greater than x, and from there on all is, if what
\* is greater than x comes last.
LEMMA PlaceFacts ==
  ASSUME NEW s, NEW x, Len(s) \in Nat
  PROVE  /\ Place(s, x) \in 1..(Len(s) + 1)
         /\ (\A i, j \in 1..Len(s) : i < j /\ Before(x, s[i]) => Before(x, s[j]))
              => /\ \A i \in 1..(Place(s, x) - 1) : ~Before(x, s[i])
                 /\ \A i \in Place(s, x)..Len(s) : Before(x, s[i])
<1> DEFINE n == Len(s) + 1
           Last1st == \A i, j \in 1..Len(s) :
                        i < j /\ Before(x, s[i]) => Before(x, s[j])
<1>0. n \in Nat
  OBVIOUS
<1>1. PICK p : Placing(p, s, x) /\ Place(s, x) = p[1][n]
  <2>1. Place(s, x) = (CHOOSE p : Placing(p, s, x))[1][n]
    BY DEF Place, Placing, Searching
  <2>2. \E p : Placing(p, s, x)
    BY PlacingExists
  <2> QED
    BY <2>1, <2>2
<1>2. ASSUME NEW l \in 1..n, NEW r \in 1..n
      PROVE  p[l][r] = Searching(p, s, x, l, r)
  <2>1. p[l] = [k \in 1..n |-> Searching(p, s, x, l, k)]
    BY <1>1, Zenon DEF Placing
  <2> QED
    BY <2>1
<1> DEFINE Good(l, r) == /\ p[l][r] \in l..r
                         /\ Last1st => /\ \A i \in l..(p[l][r] - 1) : ~Before(x, s[i])
                                       /\ \A i \in p[l][r]..(r - 1) : Before(x, s[i])
           S == {d \in Nat : \A l \in 1..n, r \in 1..n :
                               l <= r /\ r - l <= d => Good(l, r)}
<1>3. ASSUME NEW l \in 1..n PROVE Good(l, l)
  <2>1. p[l][l] = l
    BY <1>2 DEF Searching
  <2> QED
    BY <2>1
<1>4. 0 \in S
  <2>1. ASSUME NEW l \in 1..n, NEW r \in 1..n, l <= r, r - l <= 0 PROVE l = r
    BY <2>1
  <2> HIDE DEF Good
  <2> QED
    BY <1>3, <2>1
<1>5. ASSUME NEW d \in Nat, d \in S PROVE d + 1 \in S
  <2>1. ASSUME NEW l \in 1..n, NEW r \in 1..n, l <= r, r - l <= d + 1
        PROVE  Good(l, r)
    <3>1. CASE l = r
      BY <1>3, <3>1
    <3>2. CASE l < r
      <4>1. PICK m : m = (l + r) \div 2
        OBVIOUS
      <4>2. /\ m \in l..(r - 1) /\ m \in 1..n
            /\ m + 1 \in (l + 1)..r /\ m + 1 \in 1..n
            /\ m - l < r - l /\ r - (m + 1) < r - l
        BY <1>0, <3>2, <4>1, Halves
      <4>3. m - l <= d /\ r - (m + 1) <= d /\ l <= m /\ m + 1 <= r /\ m < r
        BY <2>1, <4>2
      <4>4. Good(l, m) /\ Good(m + 1, r)
        BY <1>5, <4>2, <4>3
      <4>5. m \in 1..Len(s) /\ m \in Nat
        BY <4>2
      <4>6. CASE Before(x, s[m])
        <5>1. p[l][r] = p[l][m]
          <6>1. p[l][r] = Searching(p, s, x, l, r)
            BY <1>2
          <6> QED
            BY <3>2, <4>1, <4>6, <6>1 DEF Searching
        <5>2. Last1st => \A i \in m..(r - 1) : Before(x, s[i])
          BY <4>2, <4>5, <4>6
        <5>3. p[l][m] \in l..m /\ p[l][m] \in l..r
          <6>1. PICK e \in l..m : e = p[l][m]
            BY <4>4
          <6>2. e \in l..r
            BY <4>2
          <6> QED
            BY <6>1, <6>2
        <5>4. \A i \in p[l][m]..(r - 1) : i \in p[l][m]..(m - 1) \/ i \in m..(r - 1)
          BY <4>2, <5>3
        <5> QED
          BY <4>4, <5>1, <5>2, <5>3, <5>4
      <4>7. CASE ~Before(x, s[m])
        <5>1. p[l][r] = p[m + 1][r]
          <6>1. p[l][r] = Searching(p, s, x, l, r)
            BY <1>2
          <6> QED
            BY <3>2, <4>1, <4>7, <6>1 DEF Searching
        <5>2. Last1st => \A i \in l..m : ~Before(x, s[i])
          <6>1. \A i \in l..m : i \in 1..Len(s) /\ (i = m \/ i < m)
            BY <4>2, <4>5
          <6> QED
            BY <4>5, <4>7, <6>1
        <5>3. p[m + 1][r] \in (m + 1)..r /\ p[m + 1][r] \in l..r
          BY <4>2, <4>4
        <5>4. \A i \in l..(p[m + 1][r] - 1) :
                i \in l..m \/ i \in (m + 1)..(p[m + 1][r] - 1)
          BY <4>2, <5>3
        <5> QED
          BY <4>4, <5>1, <5>2, <5>3, <5>4
      <4> QED
        BY <4>6, <4>7
    <3> QED
      BY <2>1, <3>1, <3>2
  <2> HIDE DEF Good
  <2> QED
    BY <2>1
<1> HIDE DEF S
<1>6. \A d \in Nat : d \in S
  BY <1>4, <1>5, Induction
<1>7. Good(1, n)
  <2> HIDE DEF Good
  <2> QED
    BY <1>0, <1>6 DEF S
<1> QED
  BY <1>1, <1>7

-----------------------------------------------------------------------------
(* The sort.                                                               *)

Sorted(s) == \A i, j \in DOMAIN s : i < j => ~Before(s[j], s[i])

LEMMA Inserted ==
  ASSUME NEW E, NEW s \in Seq(E), NEW x \in E, NEW p \in 1..(Len(s) + 1)
  PROVE  /\ InsertAt(s, p, x) \in Seq(E)
         /\ Len(InsertAt(s, p, x)) = Len(s) + 1
         /\ \A i \in 1..(Len(s) + 1) :
              InsertAt(s, p, x)[i] = IF i < p THEN s[i]
                                     ELSE IF i = p THEN x ELSE s[i - 1]
<1>1. PICK n \in Nat : n = Len(s)
  OBVIOUS
<1>2. /\ SubSeq(s, 1, p - 1) \in Seq(E) /\ Len(SubSeq(s, 1, p - 1)) = p - 1
      /\ \A i \in 1..(p - 1) : SubSeq(s, 1, p - 1)[i] = s[i]
  BY <1>1
<1>3. /\ SubSeq(s, p, n) \in Seq(E) /\ Len(SubSeq(s, p, n)) = n - p + 1
      /\ \A i \in 1..(n - p + 1) : SubSeq(s, p, n)[i] = s[p + i - 1]
  BY <1>1
<1> DEFINE a == SubSeq(s, 1, p - 1)
           c == SubSeq(s, p, n)
<1>4. InsertAt(s, p, x) = a \o <<x>> \o c
  BY <1>1 DEF InsertAt
<1> HIDE DEF a, c
<1>5. a \in Seq(E) /\ Len(a) = p - 1 /\ c \in Seq(E) /\ Len(c) = n - p + 1
  BY <1>2, <1>3 DEF a, c
<1>6. a \o <<x>> \in Seq(E) /\ Len(a \o <<x>>) = p
  BY <1>5
<1>7. \A i \in 1..p : (a \o <<x>>)[i] = IF i = p THEN x ELSE a[i]
  BY <1>5
<1>8. /\ (a \o <<x>>) \o c \in Seq(E) /\ Len((a \o <<x>>) \o c) = n + 1
      /\ \A i \in 1..(n + 1) : ((a \o <<x>>) \o c)[i] =
           IF i <= p THEN (a \o <<x>>)[i] ELSE c[i - p]
  <2>1. PICK b : b = a \o <<x>>
    OBVIOUS
  <2>2. b \in Seq(E) /\ Len(b) = p
    BY <1>6, <2>1
  <2>3. b \o c \in Seq(E) /\ Len(b \o c) = Len(b) + Len(c)
    BY <1>5, <2>2, ConcatProperties
  <2>4. Len(b) + Len(c) = n + 1
    BY <1>1, <1>5, <2>2
  <2>5. \A i \in 1..(n + 1) : (b \o c)[i] = IF i <= p THEN b[i] ELSE c[i - p]
    <3>1. \A i \in 1..(Len(b) + Len(c)) :
            (b \o c)[i] = IF i <= Len(b) THEN b[i] ELSE c[i - Len(b)]
      BY <1>5, <2>2, ConcatProperties
    <3> QED
      BY <2>2, <2>4, <3>1
  <2> QED
    BY <2>1, <2>3, <2>4, <2>5
<1>9. \A i \in (p + 1)..(n + 1) : c[i - p] = s[i - 1]
  <2>1. ASSUME NEW i \in (p + 1)..(n + 1)
        PROVE  i - p \in 1..(n - p + 1) /\ p + (i - p) - 1 = i - 1
    BY <1>1
  <2> QED
    BY <1>3, <2>1 DEF c
<1> QED
  BY <1>1, <1>2, <1>4, <1>7, <1>8, <1>9 DEF a

Has(s, x) == \E i \in DOMAIN s : s[i] = x
AllNumbers(E) == \A e \in E : e.score \in Numbers
\* What t is when x was put into s.
Keeps(E, s, x, t) ==
  /\ t \in Seq(E) /\ Len(t) = Len(s) + 1
  /\ (\A i \in DOMAIN s : Has(t, s[i])) /\ Has(t, x)
  /\ AllNumbers(E) /\ Sorted(s) => Sorted(t)

\* One element more in order.
LEMMA InsertKeeps ==
  ASSUME NEW E, NEW s \in Seq(E), NEW x \in E
  PROVE  Keeps(E, s, x, Insert(s, x))
<1>1. PICK n \in Nat : n = Len(s) /\ DOMAIN s = 1..n
  OBVIOUS
<1>2. PICK p \in 1..(n + 1) :
        /\ p = Place(s, x)
        /\ (\A i, j \in 1..n : i < j /\ Before(x, s[i]) => Before(x, s[j]))
             => /\ \A i \in 1..(p - 1) : ~Before(x, s[i])
                /\ \A i \in p..n : Before(x, s[i])
  BY <1>1, PlaceFacts
<1>3. PICK t \in Seq(E) :
        /\ t = Insert(s, x) /\ Len(t) = n + 1 /\ DOMAIN t = 1..(n + 1)
        /\ \A i \in 1..(n + 1) : t[i] = IF i < p THEN s[i]
                                        ELSE IF i = p THEN x ELSE s[i - 1]
  <2>1. Insert(s, x) = InsertAt(s, p, x)
    BY <1>2 DEF Insert
  <2> QED
    BY <1>1, <2>1, Inserted
<1>4. ASSUME NEW i \in 1..n PROVE \E j \in 1..(n + 1) : t[j] = s[i]
  <2>1. CASE i < p
    BY <1>3, <2>1
  <2>2. CASE i >= p
    <3>1. i + 1 \in 1..(n + 1) /\ t[i + 1] = s[(i + 1) - 1] /\ (i + 1) - 1 = i
      BY <1>3, <2>2
    <3> QED
      BY <3>1
  <2> QED
    BY <2>1, <2>2
<1>5. t[p] = x
  BY <1>3
<1>6. ASSUME AllNumbers(E), Sorted(s)
      PROVE  Sorted(t)
  <2>1. \A i \in 1..n : s[i] \in E /\ s[i].score \in Numbers
    BY <1>1, <1>6 DEF AllNumbers
  <2>2. x.score \in Numbers
    BY <1>6 DEF AllNumbers
  <2>3. ASSUME NEW i \in 1..n, NEW j \in 1..n, i < j, Before(x, s[i])
        PROVE  Before(x, s[j])
    <3>1. ~Before(s[j], s[i])
      BY <1>1, <1>6, <2>3 DEF Sorted
    <3> QED
      BY <2>1, <2>2, <2>3, <3>1, LessOrder DEF Before
  <2>4. \A i \in 1..(p - 1) : ~Before(x, s[i])
    BY <1>2, <2>3
  <2>5. \A i \in p..n : ~Before(s[i], x)
    <3>1. \A i \in p..n : Before(x, s[i]) /\ i \in 1..n
      BY <1>2, <2>3
    <3> QED
      BY <2>1, <2>2, <3>1, LessOrder DEF Before
  <2>6. ASSUME NEW i \in 1..(n + 1), NEW j \in 1..(n + 1), i < j
        PROVE  ~Before(t[j], t[i])
    <3>1. CASE j < p
      <4>1. t[i] = s[i] /\ t[j] = s[j] /\ i \in 1..n /\ j \in 1..n
        BY <1>3, <2>6, <3>1
      <4> QED
        BY <1>1, <1>6, <2>6, <4>1 DEF Sorted
    <3>2. CASE j = p
      <4>1. t[i] = s[i] /\ t[j] = x /\ i \in 1..(p - 1)
        BY <1>3, <2>6, <3>2
      <4> QED
        BY <2>4, <4>1
    <3>3. CASE j > p /\ i = p
      <4>1. t[i] = x /\ t[j] = s[j - 1] /\ j - 1 \in p..n
        BY <1>3, <3>3
      <4> QED
        BY <2>5, <4>1
    <3>4. CASE j > p /\ i < p
      <4>1. t[i] = s[i] /\ t[j] = s[j - 1] /\ i \in 1..n /\ j - 1 \in 1..n /\ i < j - 1
        BY <1>3, <3>4
      <4> QED
        BY <1>1, <1>6, <4>1 DEF Sorted
    <3>5. CASE j > p /\ i > p
      <4>1. /\ t[i] = s[i - 1] /\ t[j] = s[j - 1]
            /\ i - 1 \in 1..n /\ j - 1 \in 1..n /\ i - 1 < j - 1
        BY <1>3, <2>6, <3>5
      <4> QED
        BY <1>1, <1>6, <4>1 DEF Sorted
    <3> QED
      BY <3>1, <3>2, <3>3, <3>4, <3>5
  <2> QED
    BY <1>3, <2>6 DEF Sorted
<1> QED
  BY <1>1, <1>3, <1>4, <1>5, <1>6 DEF Keeps, Has

LEMMA InsertAll ==
  ASSUME NEW E, NEW base \in Seq(E), NEW q \in Seq(E)
  PROVE  /\ Inserts(base, q) \in Seq(E)
         /\ Len(Inserts(base, q)) = Len(base) + Len(q)
         /\ \A i \in DOMAIN base : Has(Inserts(base, q), base[i])
         /\ \A i \in DOMAIN q : Has(Inserts(base, q), q[i])
         /\ AllNumbers(E) /\ Sorted(base) => Sorted(Inserts(base, q))
<1>1. PICK n \in Nat : n = Len(q) /\ DOMAIN q = 1..n /\ \A i \in 1..n : q[i] \in E
  OBVIOUS
<1>2. PICK v : Steps(v, base, q)
  <2>1. Len(q) \in Nat /\ DOMAIN q = 1..Len(q)
    OBVIOUS
  <2> QED
    BY <2>1, FoldSteps
<1> DEFINE Ordered == AllNumbers(E) /\ Sorted(base)
           Good(k) == /\ v[k] \in Seq(E) /\ Len(v[k]) = Len(base) + k
                      /\ \A i \in DOMAIN base : Has(v[k], base[i])
                      /\ \A i \in 1..k : Has(v[k], q[i])
                      /\ Ordered => Sorted(v[k])
           S == {k \in Nat : k <= n => Good(k)}
<1>3. 0 \in S
  BY <1>2 DEF Has, Steps
<1>4. ASSUME NEW k \in Nat, k \in S PROVE k + 1 \in S
  <2> SUFFICES ASSUME k + 1 <= n PROVE Good(k + 1)
    OBVIOUS
  <2>1. Good(k)
    BY <1>4
  <2>2. PICK x \in E : x = q[k + 1]
    BY <1>1
  <2>3. PICK s \in Seq(E) : s = v[k]
    BY <2>1
  <2>4. PICK t : t = Insert(s, x) /\ t = v[k + 1]
    <3>1. k \in 0..(n - 1)
      BY <1>1
    <3> QED
      BY <1>1, <1>2, <2>2, <2>3, <3>1 DEF Steps
  <2>5. Keeps(E, s, x, t)
    BY <2>4, InsertKeeps
  <2>6. \A y : Has(s, y) => Has(t, y)
    BY <2>5 DEF Keeps, Has
  <2>7. \A i \in DOMAIN base : Has(t, base[i])
    BY <2>1, <2>3, <2>6
  <2>8. \A i \in 1..(k + 1) : Has(t, q[i])
    <3>1. \A i \in 1..(k + 1) : i \in 1..k \/ i = k + 1
      OBVIOUS
    <3> QED
      BY <2>1, <2>2, <2>3, <2>5, <2>6, <3>1 DEF Keeps
  <2>9. Len(t) = Len(base) + (k + 1)
    <3>1. Len(base) \in Nat
      OBVIOUS
    <3> QED
      BY <2>1, <2>3, <2>5, <3>1 DEF Keeps
  <2>10. Ordered => Sorted(t)
    BY <2>1, <2>3, <2>5 DEF Keeps
  <2>11. t \in Seq(E)
    BY <2>5 DEF Keeps
  <2> QED
    BY <2>4, <2>11, <2>7, <2>8, <2>9, <2>10
<1> HIDE DEF S
<1>5. \A k \in Nat : k \in S
  BY <1>3, <1>4, Induction
<1>6. Good(n)
  <2> HIDE DEF Good
  <2>1. n \in S /\ n <= n
    BY <1>5
  <2> QED
    BY <2>1 DEF S
<1> QED
  BY <1>1, <1>2, <1>6 DEF Steps

\* What is in order from each element to the next is in order.
LEMMA SortedStepwise ==
  ASSUME NEW s, NEW n \in Nat, DOMAIN s = 1..n,
         \A i \in 1..n : s[i].score \in Numbers,
         \A i \in 2..n : ~Before(s[i], s[i - 1])
  PROVE  Sorted(s)
<1> DEFINE S == {d \in Nat : \A i, j \in 1..n :
                               j = i + d /\ d > 0 => ~Before(s[j], s[i])}
<1>1. 0 \in S
  OBVIOUS
<1>2. ASSUME NEW d \in Nat, d \in S PROVE d + 1 \in S
  <2>1. ASSUME NEW i \in 1..n, NEW j \in 1..n, j = i + (d + 1)
        PROVE  ~Before(s[j], s[i])
    <3>1. CASE d = 0
      <4>1. j \in 2..n /\ i = j - 1
        BY <2>1, <3>1
      <4> QED
        BY <4>1
    <3>2. CASE d > 0
      <4>1. j - 1 \in 1..n /\ j - 1 = i + d /\ j \in 2..n
        BY <2>1, <3>2
      <4>2. ~Before(s[j - 1], s[i]) /\ ~Before(s[j], s[j - 1])
        BY <1>2, <3>2, <4>1
      <4> QED
        BY <4>1, <4>2, LessOrder DEF Before
    <3> QED
      BY <3>1, <3>2
  <2> QED
    BY <2>1
<1>3. \A d \in Nat : d \in S
  <2> HIDE DEF S
  <2> QED
    BY <1>1, <1>2, Induction
<1>4. ASSUME NEW i \in 1..n, NEW j \in 1..n, i < j PROVE ~Before(s[j], s[i])
  <2>1. j - i \in Nat /\ j = i + (j - i) /\ j - i > 0
    BY <1>4
  <2> QED
    BY <1>3, <2>1
<1> QED
  BY <1>4 DEF Sorted

Descends(list) == Len(list) > 1 /\ Before(list[2], list[1])
IsRun(list, n) == \A i \in 2..n : Before(list[i], list[i - 1]) <=> Descends(list)
RunLen(list) == Max({k \in 0..Len(list) : IsRun(list, k)})
Start(list) == IF Descends(list) THEN Reverse(SubSeq(list, 1, RunLen(list)))
               ELSE SubSeq(list, 1, RunLen(list))
Rest(list) == SubSeq(list, RunLen(list) + 1, Len(list))

LEMMA SortIs ==
  ASSUME NEW list
  PROVE  Sort(list) = Inserts(Start(list), Rest(list))
BY DEF Sort, Inserts, Insert, Start, Rest, RunLen, IsRun, Descends, FoldLeft,
       MapThenFoldSet

LEMMA MaxExists ==
  ASSUME NEW n \in Nat, NEW s \in SUBSET (0..n), s # {}
  PROVE  Max(s) \in s
<1> DEFINE HasMax(t) == \E m \in t : \A i \in t : i <= m
           S == {k \in Nat : \A t \in SUBSET (0..k) : t # {} => HasMax(t)}
<1>1. 0 \in S
  <2>1. ASSUME NEW t \in SUBSET (0..0), t # {} PROVE HasMax(t)
    <3>1. \A i \in t : i = 0
      OBVIOUS
    <3>2. PICK m \in t : m = 0
      BY <2>1, <3>1
    <3>3. \A i \in t : i <= m
      BY <3>1, <3>2
    <3> QED
      BY <3>3
  <2> QED
    BY <2>1
<1>2. ASSUME NEW k \in Nat, k \in S PROVE k + 1 \in S
  <2>1. ASSUME NEW t \in SUBSET (0..(k + 1)), t # {} PROVE HasMax(t)
    <3>1. CASE k + 1 \in t
      BY <3>1
    <3>2. CASE k + 1 \notin t
      <4>1. \A i \in t : i \in 0..k
        BY <3>2
      <4>2. t \in SUBSET (0..k)
        BY <4>1
      <4> HIDE DEF HasMax
      <4> QED
        BY <1>2, <2>1, <4>2
    <3> QED
      BY <3>1, <3>2
  <2> HIDE DEF HasMax
  <2> QED
    BY <2>1
<1>3. n \in S
  <2> HIDE DEF S
  <2> QED
    BY <1>1, <1>2, Induction
<1>4. PICK m \in s : \A i \in s : i <= m
  BY <1>3
<1>5. Max(s) = m
  <2>1. s \in SUBSET Nat
    OBVIOUS
  <2> QED
    BY <1>4, <2>1, MaxIs
<1> QED
  BY <1>4, <1>5

LEMMA StartIs ==
  ASSUME NEW E, NEW list \in Seq(E)
  PROVE  /\ RunLen(list) \in 0..Len(list)
         /\ Start(list) \in Seq(E) /\ Len(Start(list)) = RunLen(list)
         /\ \A i \in 1..RunLen(list) : Has(Start(list), list[i])
         /\ AllNumbers(E) => Sorted(Start(list))
<1>1. PICK n \in Nat : n = Len(list) /\ DOMAIN list = 1..n
                       /\ \A i \in 1..n : list[i] \in E
  OBVIOUS
<1>2. PICK r \in 0..n : r = RunLen(list) /\ IsRun(list, r)
  <2> DEFINE s == {k \in 0..n : IsRun(list, k)}
  <2>1. RunLen(list) = Max(s)
    BY <1>1 DEF RunLen
  <2>2. 0 \in s
    BY DEF IsRun
  <2>3. s \in SUBSET (0..n) /\ s # {}
    BY <2>2
  <2>4. Max(s) \in s
    <3> HIDE DEF s
    <3> QED
      BY <2>3, MaxExists
  <2> QED
    BY <2>1, <2>4
<1>3. PICK run \in Seq(E) : /\ run = SubSeq(list, 1, r) /\ Len(run) = r
                            /\ DOMAIN run = 1..r
                            /\ \A i \in 1..r : run[i] = list[i]
  <2>1. /\ SubSeq(list, 1, r) \in Seq(E) /\ Len(SubSeq(list, 1, r)) = r
        /\ \A i \in 1..r : SubSeq(list, 1, r)[i] = list[i]
    BY <1>1
  <2>2. DOMAIN SubSeq(list, 1, r) = 1..Len(SubSeq(list, 1, r))
    BY <2>1
  <2> QED
    BY <2>1, <2>2, Zenon
<1>4. \A i \in 2..r : Before(run[i], run[i - 1]) <=> Descends(list)
  <2>1. \A i \in 2..r : i \in 1..r /\ i - 1 \in 1..r
    OBVIOUS
  <2> QED
    BY <1>2, <1>3, <2>1 DEF IsRun
<1>5. ASSUME AllNumbers(E) PROVE \A i \in 1..r : run[i].score \in Numbers
  BY <1>3, <1>5 DEF AllNumbers
<1>6. CASE Descends(list)
  <2>1. PICK rev : /\ rev = Reverse(run) /\ rev \in Seq(E) /\ Len(rev) = r
                   /\ DOMAIN rev = 1..r
                   /\ \A i \in 1..r : rev[i] = run[r - i + 1]
    <3>1. \A i \in 1..r : r - i + 1 \in 1..r /\ run[r - i + 1] \in E
      BY <1>3
    <3>2. Reverse(run) = [i \in 1..r |-> run[r - i + 1]]
      BY <1>3 DEF Reverse
    <3>3. Reverse(run) \in Seq(E) /\ Len(Reverse(run)) = r
      BY <3>1, <3>2
    <3> QED
      BY <3>2, <3>3
  <2>2. Start(list) = rev
    BY <1>2, <1>3, <1>6, <2>1 DEF Start
  <2>3. ASSUME NEW i \in 1..r PROVE Has(rev, list[i])
    <3>1. r - i + 1 \in 1..r /\ r - (r - i + 1) + 1 = i
      OBVIOUS
    <3> QED
      BY <1>3, <2>1, <3>1 DEF Has
  <2>4. ASSUME AllNumbers(E) PROVE Sorted(rev)
    <3>1. ASSUME NEW i \in 2..r PROVE ~Before(rev[i], rev[i - 1])
      <4>1. PICK j \in 2..r : j = r - i + 2
        OBVIOUS
      <4>2. rev[i] = run[j - 1] /\ rev[i - 1] = run[j]
        <5>1. i \in 1..r /\ i - 1 \in 1..r /\ r - i + 1 = j - 1
              /\ r - (i - 1) + 1 = j
          BY <4>1
        <5> QED
          BY <2>1, <5>1
      <4>3. Before(run[j], run[j - 1])
        BY <1>4, <1>6
      <4>4. j \in 1..r /\ j - 1 \in 1..r
        OBVIOUS
      <4> QED
        BY <1>5, <2>4, <4>2, <4>3, <4>4, LessOrder DEF Before
    <3>2. \A i \in 1..r : rev[i].score \in Numbers
      <4>1. \A i \in 1..r : r - i + 1 \in 1..r
        OBVIOUS
      <4> QED
        BY <1>5, <2>1, <2>4, <4>1
    <3>3. r \in Nat
      OBVIOUS
    <3> QED
      BY <2>1, <3>1, <3>2, <3>3, SortedStepwise
  <2> QED
    BY <1>1, <1>2, <2>1, <2>2, <2>3, <2>4
<1>7. CASE ~Descends(list)
  <2>1. Start(list) = run
    BY <1>2, <1>3, <1>7 DEF Start
  <2>2. \A i \in 1..r : Has(run, list[i])
    BY <1>3 DEF Has
  <2>3. ASSUME AllNumbers(E) PROVE Sorted(run)
    <3>1. \A i \in 2..r : ~Before(run[i], run[i - 1])
      BY <1>4, <1>7
    <3>2. r \in Nat
      OBVIOUS
    <3> QED
      BY <1>3, <1>5, <2>3, <3>1, <3>2, SortedStepwise
  <2> QED
    BY <1>1, <1>2, <1>3, <2>1, <2>2, <2>3
<1> QED
  BY <1>6, <1>7

(* SimilarityComparator and Collections.sort, NaviActivity.java:797. For   *)
(* every list of whatever length: the sort leaves nothing out, makes       *)
(* nothing up and, unless a similarity is not a number, puts none before   *)
(* one below it, though the comparator never says equal.                   *)
THEOREM SortOrders ==
  ASSUME NEW E, NEW list \in Seq(E)
  PROVE  /\ Sort(list) \in Seq(E) /\ Len(Sort(list)) = Len(list)
         /\ \A i \in DOMAIN list : Has(Sort(list), list[i])
         /\ AllNumbers(E) => Sorted(Sort(list))
<1>1. PICK n \in Nat : n = Len(list) /\ DOMAIN list = 1..n
  OBVIOUS
<1>2. PICK r \in 0..n : r = RunLen(list)
  BY <1>1, StartIs
<1>3. PICK base \in Seq(E) : base = Start(list) /\ Len(base) = r
  BY <1>2, StartIs
<1>4. PICK q \in Seq(E) : /\ q = Rest(list) /\ Len(q) = n - r
                          /\ DOMAIN q = 1..(n - r)
                          /\ \A i \in 1..(n - r) : q[i] = list[r + i]
  <2>1. Rest(list) = SubSeq(list, r + 1, n)
    BY <1>1, <1>2 DEF Rest
  <2>2. SubSeq(list, r + 1, n) \in Seq(E) /\ Len(SubSeq(list, r + 1, n)) = n - r
    BY <1>1
  <2>3. \A i \in 1..(n - r) : SubSeq(list, r + 1, n)[i] = list[r + i]
    BY <1>1
  <2>4. DOMAIN SubSeq(list, r + 1, n) = 1..Len(SubSeq(list, r + 1, n))
    BY <2>2
  <2> QED
    BY <2>1, <2>2, <2>3, <2>4, Zenon
<1>5. PICK all : all = Inserts(base, q) /\ all = Sort(list)
  BY <1>3, <1>4, SortIs
<1>6. /\ all \in Seq(E) /\ Len(all) = r + (n - r)
      /\ \A i \in DOMAIN base : Has(all, base[i])
      /\ \A i \in DOMAIN q : Has(all, q[i])
      /\ AllNumbers(E) /\ Sorted(base) => Sorted(all)
  <2>1. Len(Inserts(base, q)) = r + (n - r)
    BY <1>3, <1>4, InsertAll
  <2> QED
    BY <1>5, <2>1, InsertAll, Zenon
<1>7. ASSUME NEW i \in 1..n PROVE Has(all, list[i])
  <2>1. CASE i <= r
    <3>1. Has(base, list[i])
      BY <1>2, <1>3, <2>1, StartIs
    <3> QED
      BY <1>6, <3>1 DEF Has
  <2>2. CASE i > r
    <3>1. i - r \in 1..(n - r) /\ r + (i - r) = i
      BY <2>2
    <3> QED
      BY <1>4, <1>6, <3>1
  <2> QED
    BY <2>1, <2>2
<1>8. AllNumbers(E) => Sorted(base)
  BY <1>3, StartIs
<1> QED
  BY <1>1, <1>5, <1>6, <1>7, <1>8
=============================================================================
