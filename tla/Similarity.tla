----------------------------- MODULE Similarity -----------------------------
(***************************************************************************)
(* How a scanned fingerprint is averaged, compared with those of the       *)
(* sampling points and how these are put in order (Util,                   *)
(* SimilarityComparator).                                                  *)
(*                                                                         *)
(* A double is a fraction <<n, d>>, exact, with d >= 0; where d is 0 it is *)
(* not a number, and every comparison with it is false.  What is scanned   *)
(* is a sequence of [device, rssi]; averaged, a function from devices to   *)
(* fractions; the fingerprint of a sampling point, a function from devices *)
(* to whole RSSI values.  Equal devices are those whose UUID, major and    *)
(* minor are equal.                                                        *)
(***************************************************************************)
EXTENDS Integers, Sequences, SequencesExt, FiniteSets, FiniteSetsExt

IsNaN(x) == x[2] = 0
Less(x, y) == ~IsNaN(x) /\ ~IsNaN(y) /\ x[1] * y[2] < y[1] * x[2]

Gcd(m, n) == LET gcd[a \in Nat] ==
                   [b \in Nat |-> IF b = 0 THEN a ELSE gcd[b][a % b]]
             IN gcd[m][n]
Size(n) == IF n < 0 THEN -n ELSE n
Reduced(x) == IF IsNaN(x) THEN <<0, 0>>
              ELSE LET g == Gcd(Size(x[1]), x[2]) IN <<x[1] \div g, x[2] \div g>>
Plus(x, y) == Reduced(<<x[1] * y[2] + y[1] * x[2], x[2] * y[2]>>)
\* A cast to int, of what is not negative.
IntValue(x) == IF IsNaN(x) THEN 0 ELSE x[1] \div x[2]

DistinctAndAvgFingerprint(scanned) ==
  LET Of(d) == {i \in DOMAIN scanned : scanned[i].device = d}
      RSSI(i) == scanned[i].rssi
  IN [d \in {scanned[i].device : i \in DOMAIN scanned} |->
        <<MapThenSumSet(RSSI, Of(d)), Cardinality(Of(d))>>]
-----------------------------------------------------------------------------
nameWeight == 30
rssiWeight == 70

Matched(fingerprint, buildIn) == DOMAIN fingerprint \cap DOMAIN buildIn

NameScore(fingerprint, buildIn) ==
  IF DOMAIN fingerprint = DOMAIN buildIn THEN <<nameWeight, 1>>
  ELSE <<nameWeight * Cardinality(Matched(fingerprint, buildIn)),
         Cardinality(DOMAIN buildIn)>>

\* |f - s| / |s|
Offset(f, s) == Reduced(<<Size(f[1] - s * f[2]), Size(s) * f[2]>>)

\* The devices whose offset is not ignored as too big.
Counted(fingerprint, buildIn) ==
  {d \in Matched(fingerprint, buildIn) :
     Less(Offset(fingerprint[d], buildIn[d]), <<1, 1>>)}

Offsets(fingerprint, buildIn) ==
  LET Add(d, sum) == Plus(sum, Offset(fingerprint[d], buildIn[d]))
  IN FoldSet(Add, <<0, 1>>, Counted(fingerprint, buildIn))

\* Mutant: the ignored devices are still divided by.
RssiScoreOfAll(fingerprint, buildIn) ==
  LET n == Cardinality(Matched(fingerprint, buildIn))
      sum == Offsets(fingerprint, buildIn)
  IN IF n = 0 THEN <<0, 1>>
     ELSE Reduced(<<rssiWeight * (n * sum[2] - sum[1]), n * sum[2]>>)

\* 0 / 0 when all are ignored.
RssiScore(fingerprint, buildIn) ==
  LET n == Cardinality(Counted(fingerprint, buildIn))
      sum == Offsets(fingerprint, buildIn)
  IN IF Matched(fingerprint, buildIn) = {} THEN <<0, 1>>
     ELSE Reduced(<<rssiWeight * (n * sum[2] - sum[1]), n * sum[2]>>)

CaculateSimilarity(fingerprint, buildIn) ==
  Plus(NameScore(fingerprint, buildIn), RssiScore(fingerprint, buildIn))
-----------------------------------------------------------------------------
(* SimilarityComparator says that lhs is less.  Otherwise it says greater, *)
(* since it compares boxes and not values for equality.                    *)
Before(lhs, rhs) == Less(lhs.score, rhs.score)

\* Where a binary search in s puts x.
Place(s, x) ==
  LET place[l \in 1..Len(s) + 1] == [r \in 1..Len(s) + 1 |->
        LET mid == (l + r) \div 2
        IN IF l >= r THEN l
           ELSE IF Before(x, s[mid]) THEN place[l][mid]
           ELSE place[mid + 1][r]]
  IN place[1][Len(s) + 1]

(* Collections.sort of fewer than 32 elements: the run at the start is     *)
(* reversed if it descends, the other elements are inserted one by one.    *)
Sort(list) ==
  LET descends == Len(list) > 1 /\ Before(list[2], list[1])
      IsRun(n) == \A i \in 2..n : Before(list[i], list[i - 1]) <=> descends
      n == Max({k \in 0..Len(list) : IsRun(k)})
      run == SubSeq(list, 1, n)
      Insert(s, x) == InsertAt(s, Place(s, x), x)
  IN FoldLeft(Insert, IF descends THEN Reverse(run) ELSE run,
              SubSeq(list, n + 1, Len(list)))
=============================================================================
