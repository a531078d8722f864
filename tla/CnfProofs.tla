----------------------------- MODULE CnfProofs -----------------------------
(***************************************************************************)
(* PathState implements the detector that sees every flow's whole history, *)
(* for any window size, threshold, report interval and set of flows.  What *)
(* the rolling window and the frozen baseline must be at any moment is     *)
(* WindowInv, the inductive invariant.  Both sides sum the same sequence,  *)
(* so the sum is unfolded only where the size of the samples matters: for  *)
(* when an alarm is justified and when a shift is reported.                *)
(***************************************************************************)
EXTENDS Cnf, Averages, FiniteSetTheorems, TLAPS

-----------------------------------------------------------------------------
(***************************************************************************)
(* What the sum of a window is, for windows of every length: a window      *)
(* whose samples lie one by one in proportion to another's has a total     *)
(* that does.  Induction is over sets of numbers, for which it follows     *)
(* from the order of a finite interval's subsets being well-founded.       *)
(***************************************************************************)

(* A set with 0 that has, with a number, the next one has them all. *)
LEMMA Induction ==
  ASSUME NEW S, 0 \in S, \A n \in Nat : n \in S => n + 1 \in S
  PROVE  Nat \subseteq S
<1> SUFFICES ASSUME NEW m \in Nat, m \notin S PROVE FALSE
  OBVIOUS
<1> DEFINE R == StrictSubsetOrdering(0..m)
           T == {0..k : k \in {j \in 0..m : j \notin S}}
<1>1. IsWellFoundedOn(R, SUBSET (0..m))
  <2>1. IsFiniteSet(0..m)
    BY FS_Interval
  <2>. QED  BY <2>1, FS_FiniteSubsetsOfFinite, FS_StrictSubsetOrderingWellFounded
<1>2. T # {} /\ T \subseteq SUBSET (0..m)
  OBVIOUS
<1>3. \E x \in T : \A y \in T : ~(<<y, x>> \in R)
  <2> HIDE DEF R, T
  <2>. QED  BY <1>1, <1>2, WFMin
<1>4. PICK k \in 0..m : k \notin S /\ \A y \in T : ~(<<y, 0..k>> \in R)
  BY <1>3
<1>5. k # 0
  BY <1>4
<1>6. k - 1 \in 0..m /\ k - 1 \in Nat /\ (k - 1) + 1 = k
  BY <1>5
<1>7. 0..(k - 1) \in T
  BY <1>4, <1>6
<1>8. 0..(k - 1) \subseteq 0..k /\ k \in 0..k /\ k \notin 0..(k - 1)
  BY <1>6
<1>9. <<0..(k - 1), 0..k>> \in R
  BY <1>6, <1>8 DEF StrictSubsetOrdering
<1>. QED  BY <1>4, <1>7, <1>9

(* s[k] is the sum of the first k samples of w. *)
IsSumOf(s, w) ==
  /\ s \in [0..Len(w) -> Nat]
  /\ s[0] = 0
  /\ \A k \in 1..Len(w) : s[k] = s[k - 1] + w[k]

(* The sums of a window's beginnings exist, so that the recursive function *)
(* of Total is one. *)
LEMMA SumsExist ==
  ASSUME NEW w \in Seq(Nat)
  PROVE  \E s : IsSumOf(s, w)
<1> DEFINE Sums(n, s) == /\ s \in [0..n -> Nat]
                         /\ s[0] = 0
                         /\ \A k \in 1..n : s[k] = s[k - 1] + w[k]
           S == {n \in Nat : n <= Len(w) => \E s \in [0..n -> Nat] : Sums(n, s)}
<1>1. 0 \in S
  <2>1. Sums(0, [k \in 0..0 |-> 0])
    OBVIOUS
  <2>. QED  BY <2>1
<1>2. ASSUME NEW n \in Nat, n \in S PROVE n + 1 \in S
  <2> SUFFICES ASSUME n + 1 <= Len(w)
               PROVE  \E s \in [0..(n + 1) -> Nat] : Sums(n + 1, s)
    <3> HIDE DEF Sums
    <3>. QED  OBVIOUS
  <2>1. n <= Len(w) /\ n + 1 \in 1..Len(w) /\ w[n + 1] \in Nat
    OBVIOUS
  <2>2. PICK s \in [0..n -> Nat] : Sums(n, s)
    BY <1>2, <2>1
  <2> DEFINE t == [k \in 0..(n + 1) |-> IF k = n + 1 THEN s[n] + w[n + 1] ELSE s[k]]
  <2>3. t \in [0..(n + 1) -> Nat]
    <3>1. s[n] \in Nat
      OBVIOUS
    <3>2. s[n] + w[n + 1] \in Nat
      BY <2>1, <3>1
    <3>3. \A k \in 0..(n + 1) : k # n + 1 => s[k] \in Nat
      OBVIOUS
    <3>. QED  BY <3>2, <3>3
  <2>4. t[0] = 0
    BY <2>2
  <2>5. ASSUME NEW k \in 1..(n + 1) PROVE t[k] = t[k - 1] + w[k]
    <3>1. k - 1 \in 0..n /\ k - 1 # n + 1 /\ k \in 0..(n + 1) /\ k - 1 \in 0..(n + 1)
      OBVIOUS
    <3>2. t[k - 1] = s[k - 1]
      BY <3>1
    <3>3. CASE k = n + 1
      BY <3>1, <3>2, <3>3
    <3>4. CASE k # n + 1
      <4>1. k \in 1..n /\ t[k] = s[k]
        BY <3>1, <3>4
      <4>. QED  BY <2>2, <3>2, <4>1
    <3>. QED  BY <3>3, <3>4
  <2>. QED  BY <2>3, <2>4, <2>5
<1>3. Len(w) \in S
  <2> HIDE DEF S
  <2>. QED  BY <1>1, <1>2, Induction
<1>. QED  BY <1>3 DEF IsSumOf

(* Total is the last of these sums. *)
LEMMA TotalIsSum ==
  ASSUME NEW w \in Seq(Nat)
  PROVE  \E s : IsSumOf(s, w) /\ Total(w) = s[Len(w)]
<1> DEFINE n == Len(w)
           IsFun(f) == f = [k \in 0..n |-> IF k = 0 THEN 0 ELSE f[k - 1] + w[k]]
           sum == CHOOSE f : IsFun(f)
<1>1. Total(w) = sum[n]
  BY DEF Total
<1>2. PICK s : IsSumOf(s, w)
  BY SumsExist
<1>3. IsFun(s)
  <2>1. \A k \in 0..n : s[k] = IF k = 0 THEN 0 ELSE s[k - 1] + w[k]
    BY <1>2 DEF IsSumOf
  <2>2. s = [k \in 0..n |-> s[k]]
    BY <1>2 DEF IsSumOf
  <2>. QED  BY <2>1, <2>2
<1>4. IsFun(sum)
  <2> HIDE DEF IsFun
  <2>. QED  BY <1>3
<1> HIDE DEF sum
<1>5. sum = [k \in 0..n |-> sum[k]] /\ sum[0] = 0
        /\ \A k \in 1..n : sum[k] = sum[k - 1] + w[k]
  BY <1>4
<1> DEFINE S == {k \in Nat : k <= n => sum[k] \in Nat}
<1>6. 0 \in S
  BY <1>5
<1>7. ASSUME NEW k \in Nat, k \in S PROVE k + 1 \in S
  <2> SUFFICES ASSUME k + 1 <= n PROVE sum[k + 1] \in Nat
    OBVIOUS
  <2>1. k + 1 \in 1..n /\ (k + 1) - 1 = k /\ sum[k] \in Nat
    BY <1>7
  <2>2. w[k + 1] \in Nat
    BY <2>1
  <2>3. sum[k + 1] = sum[(k + 1) - 1] + w[k + 1]
    <3> HIDE DEF n
    <3>. QED  BY <1>5, <2>1, Zenon
  <2>4. sum[k + 1] = sum[k] + w[k + 1]
    BY <2>1, <2>3, Zenon
  <2>. QED  BY <2>1, <2>2, <2>4
<1>8. Nat \subseteq S
  <2> HIDE DEF S
  <2>. QED  BY <1>6, <1>7, Induction
<1>9. sum \in [0..n -> Nat]
  BY <1>5, <1>8
<1>. QED  BY <1>1, <1>5, <1>9 DEF IsSumOf

(* Totals are numbers. *)
LEMMA TotalType ==
  ASSUME NEW w \in Seq(Nat)
  PROVE  Total(w) \in Nat
  BY TotalIsSum DEF IsSumOf

(* One sum is the one before it and a sample. *)
LEMMA NextSum ==
  ASSUME NEW w \in Seq(Nat), NEW s, IsSumOf(s, w), NEW k \in Nat, k + 1 <= Len(w)
  PROVE  s[k + 1] = s[k] + w[k + 1] /\ s[k] \in Nat /\ w[k + 1] \in Nat
<1>1. k + 1 \in 1..Len(w) /\ (k + 1) - 1 = k /\ k \in 0..Len(w)
  OBVIOUS
<1>2. w[k + 1] \in Nat
  BY <1>1
<1>3. s[k] \in Nat /\ s[k + 1] = s[(k + 1) - 1] + w[k + 1]
  BY <1>1 DEF IsSumOf
<1>. QED  BY <1>1, <1>2, <1>3

(* One more sample on either side, and one more gap. *)
LEMMA OneMoreSample ==
  ASSUME NEW c \in Int, NEW d \in Int, NEW gap \in Int, NEW k \in Int,
         NEW x \in Nat, NEW y \in Nat, NEW a \in Nat, NEW b \in Nat,
         c * x + k * gap <= d * y, c * a + gap <= d * b
  PROVE  c * (x + a) + (k + 1) * gap <= d * (y + b)
<1>1. c * (x + a) = c * x + c * a
  OBVIOUS
<1>2. d * (y + b) = d * y + d * b
  OBVIOUS
<1>3. (k + 1) * gap = k * gap + gap
  OBVIOUS
<1>4. c * x \in Int /\ c * a \in Int /\ d * y \in Int /\ d * b \in Int /\ k * gap \in Int
  OBVIOUS
<1>. QED  BY <1>1, <1>2, <1>3, <1>4

(* Two windows in proportion, sample by sample and by at least a gap.      *)
InProportion(v, w, c, d, gap) ==
  Len(v) = Len(w) /\ \A k \in 1..Len(w) : c * v[k] + gap <= d * w[k]

(* Their totals are in proportion, too, by at least as many gaps as there  *)
(* are samples. *)
LEMMA TotalsInProportion ==
  ASSUME NEW v \in Seq(Nat), NEW w \in Seq(Nat),
         NEW c \in Int, NEW d \in Int, NEW gap \in Int, InProportion(v, w, c, d, gap)
  PROVE  c * Total(v) + Len(w) * gap <= d * Total(w)
<1>1. PICK s : IsSumOf(s, v) /\ Total(v) = s[Len(v)]
  BY TotalIsSum
<1>2. PICK t : IsSumOf(t, w) /\ Total(w) = t[Len(w)]
  BY TotalIsSum
<1> DEFINE S == {k \in Nat : k <= Len(w) => c * s[k] + k * gap <= d * t[k]}
<1>3. 0 \in S
  <2>1. s[0] = 0 /\ t[0] = 0
    BY <1>1, <1>2 DEF IsSumOf
  <2>. QED  BY <2>1
<1>4. ASSUME NEW k \in Nat, k \in S PROVE k + 1 \in S
  <2> SUFFICES ASSUME k + 1 <= Len(w)
               PROVE  c * s[k + 1] + (k + 1) * gap <= d * t[k + 1]
    OBVIOUS
  <2>1. k + 1 \in 1..Len(w) /\ (k + 1) - 1 = k /\ k \in 0..Len(w)
    OBVIOUS
  <2>2. /\ s[k + 1] = s[k] + v[k + 1] /\ s[k] \in Nat /\ v[k + 1] \in Nat
        /\ t[k + 1] = t[k] + w[k + 1] /\ t[k] \in Nat /\ w[k + 1] \in Nat
    <3>1. Len(v) = Len(w)
      BY DEF InProportion
    <3>2. s[k + 1] = s[k] + v[k + 1] /\ s[k] \in Nat /\ v[k + 1] \in Nat
      BY <1>1, <3>1, NextSum
    <3>3. t[k + 1] = t[k] + w[k + 1] /\ t[k] \in Nat /\ w[k + 1] \in Nat
      BY <1>2, NextSum
    <3>. QED  BY <3>2, <3>3, Zenon
  <2>3. c * s[k] + k * gap <= d * t[k]
    BY <1>4, <2>1
  <2>4. c * v[k + 1] + gap <= d * w[k + 1]
    BY <2>1 DEF InProportion
  <2>5. c * (s[k] + v[k + 1]) + (k + 1) * gap <= d * (t[k] + w[k + 1])
    <3>1. k \in Int
      OBVIOUS
    <3> HIDE DEF S
    <3>. QED  BY <2>2, <2>3, <2>4, <3>1, OneMoreSample
  <2>. QED  BY <2>2, <2>5
<1>5. Len(w) \in S
  <2> HIDE DEF S
  <2>1. Nat \subseteq S
    BY <1>3, <1>4, Induction
  <2>2. Len(w) \in Nat
    OBVIOUS
  <2>. QED  BY <2>1, <2>2
<1>6. Len(v) = Len(w)
  BY DEF InProportion
<1>. QED  BY <1>1, <1>2, <1>5, <1>6

(* Both sides of a comparison times the same number of samples.            *)
LEMMA Scale ==
  ASSUME NEW x \in Int, NEW y \in Int, NEW n \in Nat \ {0}
  PROVE  x <= y <=> x * n <= y * n
<1>1. ASSUME NEW a \in Nat PROVE a * n >= 0 /\ (a > 0 => a * n > 0)
  OBVIOUS
<1>2. (y - x) * n = y * n - x * n /\ (x - y) * n = x * n - y * n
  OBVIOUS
<1>3. x * n \in Int /\ y * n \in Int
  OBVIOUS
<1>4. CASE x <= y
  <2>1. (y - x) * n >= 0
    BY <1>1, <1>4
  <2>. QED  BY <1>2, <1>3, <1>4, <2>1
<1>5. CASE x > y
  <2>1. (x - y) * n > 0
    BY <1>1, <1>5
  <2>. QED  BY <1>2, <1>3, <1>5, <2>1
<1>. QED  BY <1>4, <1>5

(* Two totals of as many samples: the test is one on the totals alone.     *)
LEMMA ExceedsTotals ==
  ASSUME NEW x \in Nat, NEW y \in Nat, NEW n \in Nat \ {0}, NEW pct \in Nat
  PROVE  Exceeds(x, n, y, n, pct) <=> 100 * Distance(x, y) > pct * y
<1>1. Distance(x * n, y * n) = Distance(x, y) * n
  <2>1. x <= y <=> x * n <= y * n
    BY Scale
  <2>2. y <= x <=> y * n <= x * n
    BY Scale
  <2>3. (y - x) * n = y * n - x * n /\ (x - y) * n = x * n - y * n
    OBVIOUS
  <2>4. x * n \in Int /\ y * n \in Int
    OBVIOUS
  <2>. QED  BY <2>1, <2>2, <2>3, <2>4 DEF Distance
<1>2. 100 * (Distance(x, y) * n) = (100 * Distance(x, y)) * n /\ pct * (y * n) = (pct * y) * n
  <2>1. Distance(x, y) \in Int
    BY DEF Distance
  <2>. QED  BY <2>1
<1>3. 100 * Distance(x, y) \in Int /\ pct * y \in Int
  BY DEF Distance
<1>4. 100 * Distance(x, y) <= pct * y <=> (100 * Distance(x, y)) * n <= (pct * y) * n
  BY <1>3, Scale
<1>5. (100 * Distance(x, y)) * n \in Int /\ (pct * y) * n \in Int
  BY <1>3
<1>. QED  BY <1>1, <1>2, <1>3, <1>4, <1>5 DEF Exceeds

(* What a window holds are numbers. *)
LEMMA SampleType ==
  ASSUME NEW w \in Seq(Nat)
  PROVE  \A k \in 1..Len(w) : w[k] \in Nat
  OBVIOUS

(* A sample within pct percent of another, as two proportions.             *)
LEMMA SampleWithin ==
  ASSUME NEW a \in Nat, NEW b \in Nat, NEW pct \in Nat, 100 * Distance(a, b) <= pct * b
  PROVE  100 * a + 0 <= (100 + pct) * b /\ (100 - pct) * b + 0 <= 100 * a
<1>1. (100 + pct) * b = 100 * b + pct * b /\ (100 - pct) * b = 100 * b - pct * b
        /\ pct * b \in Int
  OBVIOUS
<1>. QED  BY <1>1 DEF Distance

(* A sample beyond pct percent of another, on either side.                 *)
LEMMA SampleBeyond ==
  ASSUME NEW a \in Nat, NEW b \in Nat, NEW pct \in Nat
  PROVE  /\ 100 * (a - b) > pct * b => (100 + pct) * b + 1 <= 100 * a
         /\ 100 * (b - a) > pct * b => 100 * a + 1 <= (100 - pct) * b
<1>1. (100 + pct) * b = 100 * b + pct * b /\ (100 - pct) * b = 100 * b - pct * b
        /\ pct * b \in Int
  OBVIOUS
<1>. QED  BY <1>1

(***************************************************************************)
(* A window whose samples are each within pct percent of the base's is not *)
(* further than that from it in the mean.                                  *)
(***************************************************************************)
LEMMA WithinDoesNotExceed ==
  ASSUME NEW v \in Seq(Nat), NEW w \in Seq(Nat), NEW n \in Nat \ {0}, NEW pct \in Nat,
         Len(v) = n, Len(w) = n,
         \A k \in 1..n : 100 * Distance(v[k], w[k]) <= pct * w[k]
  PROVE  ~Exceeds(Total(v), n, Total(w), n, pct)
<1>1. \A k \in 1..n : v[k] \in Nat /\ w[k] \in Nat
  BY SampleType
<1>2. InProportion(v, w, 100, 100 + pct, 0)
  BY <1>1, SampleWithin DEF InProportion
<1>3. InProportion(w, v, 100 - pct, 100, 0)
  BY <1>1, SampleWithin DEF InProportion
<1> DEFINE x == Total(v)
           y == Total(w)
<1>4. x \in Nat /\ y \in Nat
  BY TotalType
<1>5. 100 * x + n * 0 <= (100 + pct) * y
  <2>1. 100 \in Int /\ 100 + pct \in Int /\ 0 \in Int
    OBVIOUS
  <2>. QED  BY <1>2, <2>1, TotalsInProportion
<1>6. (100 - pct) * y + n * 0 <= 100 * x
  <2>1. 100 \in Int /\ 100 - pct \in Int /\ 0 \in Int
    OBVIOUS
  <2>. QED  BY <1>3, <2>1, TotalsInProportion
<1> HIDE DEF x, y
<1>7. 100 * Distance(x, y) <= pct * y
  <2>1. (100 + pct) * y = 100 * y + pct * y /\ (100 - pct) * y = 100 * y - pct * y
          /\ pct * y \in Int /\ n * 0 = 0
    BY <1>4
  <2>. QED  BY <1>4, <1>5, <1>6, <2>1 DEF Distance
<1>8. pct * y \in Int /\ 100 * Distance(x, y) \in Int
  BY <1>4 DEF Distance
<1>9. ~(100 * Distance(x, y) > pct * y)
  BY <1>7, <1>8
<1>. QED  BY <1>4, <1>9, ExceedsTotals DEF x, y

(***************************************************************************)
(* A window whose samples are all beyond pct percent of the base's, on one *)
(* side, is further than that from it in the mean.                         *)
(***************************************************************************)
LEMMA BeyondExceeds ==
  ASSUME NEW v \in Seq(Nat), NEW w \in Seq(Nat), NEW n \in Nat \ {0}, NEW pct \in Nat,
         Len(v) = n, Len(w) = n,
         \/ \A k \in 1..n : 100 * (v[k] - w[k]) > pct * w[k]
         \/ \A k \in 1..n : 100 * (w[k] - v[k]) > pct * w[k]
  PROVE  Exceeds(Total(v), n, Total(w), n, pct)
<1>1. \A k \in 1..n : v[k] \in Nat /\ w[k] \in Nat
  BY SampleType
<1> DEFINE x == Total(v)
           y == Total(w)
<1>2. x \in Nat /\ y \in Nat
  BY TotalType
<1> HIDE DEF x, y
<1>3. pct * y \in Nat
  BY <1>2
<1>4. CASE \A k \in 1..n : 100 * (v[k] - w[k]) > pct * w[k]
  <2>1. InProportion(w, v, 100 + pct, 100, 1)
    BY <1>1, <1>4, SampleBeyond DEF InProportion
  <2>2. (100 + pct) * y + n * 1 <= 100 * x
    <3>1. 100 \in Int /\ 100 + pct \in Int /\ 1 \in Int
      OBVIOUS
    <3>. QED  BY <2>1, <3>1, TotalsInProportion DEF x, y
  <2>3. (100 + pct) * y = 100 * y + pct * y /\ n * 1 = n
    BY <1>2
  <2>4. 100 * Distance(x, y) > pct * y
    BY <1>2, <1>3, <2>2, <2>3 DEF Distance
  <2>. QED  BY <1>2, <2>4, ExceedsTotals DEF x, y
<1>5. CASE \A k \in 1..n : 100 * (w[k] - v[k]) > pct * w[k]
  <2>1. InProportion(v, w, 100, 100 - pct, 1)
    BY <1>1, <1>5, SampleBeyond DEF InProportion
  <2>2. 100 * x + n * 1 <= (100 - pct) * y
    <3>1. 100 \in Int /\ 100 - pct \in Int /\ 1 \in Int
      OBVIOUS
    <3>. QED  BY <2>1, <3>1, TotalsInProportion DEF x, y
  <2>3. (100 - pct) * y = 100 * y - pct * y /\ n * 1 = n
    BY <1>2
  <2>4. 100 * Distance(x, y) > pct * y
    BY <1>2, <1>3, <2>2, <2>3 DEF Distance
  <2>. QED  BY <1>2, <2>4, ExceedsTotals DEF x, y
<1>. QED  BY <1>4, <1>5

-----------------------------------------------------------------------------
(***************************************************************************)
(* The window and the baseline.                                            *)
(***************************************************************************)

(* Appending a packet to a log. *)
LEMMA AppendPacket ==
  ASSUME NEW s \in Seq(Detector!Packet), NEW e \in Detector!Packet
  PROVE  /\ Append(s, e) \in Seq(Detector!Packet)
         /\ Len(Append(s, e)) = Len(s) + 1
         /\ Append(s, e) # <<>>
         /\ Append(s, e)[Len(s) + 1] = e
         /\ \A i \in 1..Len(s) : Append(s, e)[i] = s[i]
  OBVIOUS

(* A log has one run start, the one RunStart chooses. *)
LEMMA RunStartUnique ==
  ASSUME NEW s \in Seq(Detector!Packet), NEW b \in 1..Len(s),
         Detector!IsRunStart(s, b)
  PROVE  Detector!RunStart(s) = b
<1>1. ASSUME NEW i \in 1..Len(s), NEW j \in 1..Len(s), i < j,
             Detector!IsRunStart(s, i), Detector!IsRunStart(s, j)
      PROVE  FALSE
  <2>1. j - 1 \in i..Len(s) /\ j # 1
    BY <1>1
  <2>. QED  BY <1>1, <2>1 DEF Detector!IsRunStart
<1>2. \A i \in 1..Len(s) : Detector!IsRunStart(s, i) => i = b
  <2> SUFFICES ASSUME NEW i \in 1..Len(s), Detector!IsRunStart(s, i), i # b
               PROVE  FALSE
    OBVIOUS
  <2>1. i < b \/ b < i
    OBVIOUS
  <2>. QED  BY <1>1, <2>1
<1>. QED  BY <1>2 DEF Detector!RunStart

(* A packet on the path of the one before continues the run. *)
LEMMA RunContinues ==
  ASSUME NEW s \in Seq(Detector!Packet), NEW e \in Detector!Packet,
         NEW b \in 1..Len(s), Detector!IsRunStart(s, b),
         s[Len(s)].path = e.path
  PROVE  Detector!IsRunStart(Append(s, e), b)
<1> DEFINE t == Append(s, e)
<1>1. Len(t) = Len(s) + 1 /\ t[Len(t)] = e /\ \A i \in 1..Len(s) : t[i] = s[i]
  BY AppendPacket
<1>2. \A j \in b..Len(t) : t[j].path = e.path
  <2> SUFFICES ASSUME NEW j \in b..Len(t) PROVE t[j].path = e.path
    OBVIOUS
  <2>1. CASE j = Len(t)
    BY <1>1, <2>1
  <2>2. CASE j # Len(t)
    <3>1. j \in b..Len(s) /\ j \in 1..Len(s)
      BY <1>1, <2>2
    <3>. QED  BY <1>1, <3>1 DEF Detector!IsRunStart
  <2>. QED  BY <2>1, <2>2
<1>3. b = 1 \/ t[b - 1].path # e.path
  <2>1. b # 1 => b - 1 \in 1..Len(s)
    OBVIOUS
  <2>. QED  BY <1>1, <2>1 DEF Detector!IsRunStart
<1>. QED  BY <1>1, <1>2, <1>3 DEF Detector!IsRunStart

(* A packet on another path, or the flow's first, starts a run. *)
LEMMA RunStarts ==
  ASSUME NEW s \in Seq(Detector!Packet), NEW e \in Detector!Packet,
         s = <<>> \/ s[Len(s)].path # e.path
  PROVE  Detector!IsRunStart(Append(s, e), Len(s) + 1)
<1>1. s # <<>> => Len(s) \in 1..Len(s)
  OBVIOUS
<1>2. s = <<>> => Len(s) = 0
  OBVIOUS
<1>. QED  BY AppendPacket, <1>1, <1>2 DEF Detector!IsRunStart

(* Two sequences of the same length with the same elements are equal, in   *)
(* particular a window and the stretch of the log it was taken from.       *)
LEMMA WindowIsStretch ==
  ASSUME NEW w \in Seq(Latency), NEW s, NEW i \in Nat, NEW n \in Nat,
         Len(w) = n, \A k \in 1..n : w[k] = s[i + k - 1].latency
  PROVE  w = Detector!Latencies(s, i, n)
<1>1. w = [k \in 1..n |-> w[k]]
  OBVIOUS
<1>. QED  BY <1>1 DEF Detector!Latencies

(* What update leaves in the window: the last sample is the new one, and   *)
(* the ones before it are the end of what was kept. *)
LEMMA WindowSlides ==
  ASSUME NEW f \in Flow, NEW p \in PathId, NEW l \in Latency,
         KeptSamples(f, p) \in Seq(Latency), Len(KeptSamples(f, p)) <= WINDOW_SIZE
  PROVE  LET k == KeptSamples(f, p)
             w == NewSamples(f, p, l)
         IN  /\ w \in Seq(Latency)
             /\ Len(w) = IF Len(k) < WINDOW_SIZE THEN Len(k) + 1 ELSE WINDOW_SIZE
             /\ w[Len(w)] = l
             /\ \A i \in 1..(Len(w) - 1) : w[i] = k[Len(k) + 1 - Len(w) + i]
<1> DEFINE k == KeptSamples(f, p)
           a == Append(k, l)
           w == NewSamples(f, p, l)
<1> USE CnfAssumption
<1>1. a \in Seq(Latency) /\ Len(a) = Len(k) + 1 /\ a[Len(a)] = l
        /\ \A i \in 1..Len(k) : a[i] = k[i]
  OBVIOUS
<1>2. CASE Len(a) <= WINDOW_SIZE
  <2>1. w = a
    BY <1>1, <1>2 DEF NewSamples
  <2> HIDE DEF k, a, w
  <2>. QED  BY <1>1, <1>2, <2>1 DEF k, w
<1>3. CASE Len(a) > WINDOW_SIZE
  <2>1. w = Tail(a)
    BY <1>1, <1>3 DEF NewSamples
  <2> HIDE DEF k, a, w
  <2>2. w \in Seq(Latency) /\ Len(w) = Len(a) - 1 /\ \A i \in 1..Len(w) : w[i] = a[i + 1]
    BY <1>1, <1>3, <2>1
  <2>3. Len(k) = WINDOW_SIZE
    BY <1>1, <1>3 DEF k
  <2>. QED  BY <1>1, <1>3, <2>2, <2>3 DEF k, w
<1>. QED  BY <1>1, <1>2, <1>3

(* startup: empty dictionaries have the types and summarise empty logs. *)
LEMMA InitInv == Init => TypeOK /\ WindowInv
  BY CnfAssumption DEF Init, TypeOK, WindowInv, FlowInv

(* handle_packet keeps the types, and so does a packet that is ignored. *)
LEMMA TypeStep == TypeOK /\ WindowInv /\ [Next]_vars => TypeOK'
<1> SUFFICES ASSUME TypeOK, WindowInv, [Next]_vars PROVE TypeOK'
  OBVIOUS
<1>1. ASSUME NEW f \in Flow, NEW p \in PathId, NEW l \in Latency, HandlePacket(f, p, l)
      PROVE  TypeOK'
  <2>1. /\ NewSamples(f, p, l) \in Seq(Latency)
        /\ Len(NewSamples(f, p, l)) <= WINDOW_SIZE
    <3>1. /\ KeptSamples(f, p) \in Seq(Latency)
          /\ Len(KeptSamples(f, p)) <= WINDOW_SIZE
      BY CnfAssumption DEF TypeOK, KeptSamples
    <3>2. Len(KeptSamples(f, p)) \in Nat
      BY <3>1
    <3>. QED  BY <3>1, <3>2, WindowSlides, CnfAssumption
  <2>2. /\ samples' \in [Flow -> Seq(Latency)]
        /\ \A g \in Flow : Len(samples'[g]) <= WINDOW_SIZE
    BY <1>1, <2>1 DEF HandlePacket, TypeOK
  <2>3. DOMAIN baselines' \subseteq Flow
    BY <1>1 DEF HandlePacket, TypeOK, NewBaselines, KeptBaselines
  <2>4. DOMAIN last_path' \subseteq Flow /\ \A g \in DOMAIN last_path' : last_path'[g] \in PathId
    BY <1>1 DEF HandlePacket, TypeOK
  <2>5. packet_counter' \in [Flow -> Nat]
    BY <1>1 DEF HandlePacket, TypeOK
  <2>6. log' \in [Flow -> Seq(Detector!Packet)]
    <3>1. [path |-> p, latency |-> l] \in Detector!Packet
      BY DEF Detector!Packet
    <3>. QED  BY <1>1, <3>1 DEF HandlePacket, TypeOK
  <2>7. sent' \in SUBSET Detector!Report
    <3>1. IsDegraded(samples'[f], baselines', f) \in BOOLEAN
      BY DEF IsDegraded
    <3>. QED  BY <1>1, <3>1 DEF HandlePacket, Detector!Report
  <2>. QED  BY <2>2, <2>3, <2>4, <2>5, <2>6, <2>7 DEF TypeOK
<1>2. CASE IgnorePacket
  BY <1>2 DEF IgnorePacket, TypeOK, cnfVars
<1>3. CASE UNCHANGED vars
  BY <1>3 DEF vars, TypeOK
<1>. QED  BY <1>1, <1>2, <1>3 DEF Next

(***************************************************************************)
(* What update keeps before it appends: with t the flow's new log, there   *)
(* is a run start b of t such that the kept window and baseline are those  *)
(* of t's current run without its last packet.                             *)
(***************************************************************************)
KeptSummary(f, p, t, b) ==
  LET k == KeptSamples(f, p)
      m == Len(t) - b
  IN  /\ Detector!IsRunStart(t, b)
      /\ Len(k) = IF m <= WINDOW_SIZE THEN m ELSE WINDOW_SIZE
      /\ \A i \in 1..Len(k) : k[i] = t[Len(t) - 1 - Len(k) + i].latency
      /\ f \in KeptBaselines(f, p) <=> m >= WINDOW_SIZE
      /\ f \in KeptBaselines(f, p) =>
           baselines[f] = Detector!Total(Detector!Latencies(t, b, WINDOW_SIZE))

(* What update keeps before it appends belongs to the run that goes on.    *)
LEMMA KeepsSummary ==
  ASSUME TypeOK, WindowInv, NEW f \in Flow, NEW p \in PathId, NEW l \in Latency,
         NEW t, t = Append(log[f], [path |-> p, latency |-> l])
  PROVE  \E b \in 1..Len(t) : KeptSummary(f, p, t, b)
<1> DEFINE s == log[f]
           e == [path |-> p, latency |-> l]
<1> USE CnfAssumption
<1>1. s \in Seq(Detector!Packet) /\ e \in Detector!Packet /\ FlowInv(f)
  BY DEF TypeOK, WindowInv, Detector!Packet
<1> HIDE DEF s, e
<1>2. Len(t) = Len(s) + 1 /\ \A i \in 1..Len(s) : t[i] = s[i]
  BY <1>1, AppendPacket DEF s, e
<1>3. Len(s) \in Nat /\ (s # <<>> => Len(s) \in 1..Len(s))
  BY <1>1
<1>4. e.path = p
  BY DEF e
<1>5. CASE s # <<>> /\ s[Len(s)].path = p
  <2>1. PICK b \in 1..Len(s) : Summarises(f, s, b)
    BY <1>1, <1>5 DEF FlowInv, s
  <2>2. Detector!IsRunStart(t, b)
    BY <1>1, <1>4, <1>5, <2>1, RunContinues DEF Summarises, s, e
  <2>3. KeptSamples(f, p) = samples[f] /\ (f \in KeptBaselines(f, p) <=> f \in DOMAIN baselines)
    BY <1>1, <1>5 DEF FlowInv, PathChanged, KeptSamples, KeptBaselines, s
  <2>4. Len(t) - b = Len(s) + 1 - b /\ b \in 1..Len(t)
    BY <1>2, <1>3
  <2>5. Len(samples[f]) \in Nat
    BY DEF TypeOK
  <2>6. \A i \in 1..Len(samples[f]) : samples[f][i] = t[Len(t) - 1 - Len(samples[f]) + i].latency
    <3> SUFFICES ASSUME NEW i \in 1..Len(samples[f])
                 PROVE  samples[f][i] = t[Len(t) - 1 - Len(samples[f]) + i].latency
      OBVIOUS
    <3>1. Len(samples[f]) <= Len(s) + 1 - b
      BY <1>3, <2>1, <2>5 DEF Summarises
    <3>2. Len(s) - Len(samples[f]) + i \in 1..Len(s)
      BY <1>3, <2>5, <3>1
    <3>3. PICK j \in 1..Len(s) : j = Len(s) - Len(samples[f]) + i
      BY <3>2
    <3>4. samples[f][i] = s[j].latency
      BY <2>1, <3>3 DEF Summarises
    <3>5. Len(t) - 1 - Len(samples[f]) + i = j
      <4>1. Len(t) - 1 = Len(s)
        BY <1>2, <1>3
      <4>. QED  BY <3>3, <4>1
    <3>. QED  BY <1>2, <3>4, <3>5
  <2>7. f \in DOMAIN baselines =>
          Detector!Latencies(s, b, WINDOW_SIZE) = Detector!Latencies(t, b, WINDOW_SIZE)
    <3> SUFFICES ASSUME f \in DOMAIN baselines, NEW i \in 1..WINDOW_SIZE
                 PROVE  s[b + i - 1].latency = t[b + i - 1].latency
      BY DEF Detector!Latencies
    <3>1. b + i - 1 \in 1..Len(s)
      BY <1>3, <2>1 DEF Summarises
    <3>. QED  BY <1>2, <3>1
  <2>. QED  BY <2>1, <2>2, <2>3, <2>4, <2>6, <2>7 DEF KeptSummary, Summarises
<1>6. CASE s = <<>> \/ s[Len(s)].path # p
  <2>1. Detector!IsRunStart(t, Len(t))
    BY <1>1, <1>2, <1>4, <1>6, RunStarts DEF s, e
  <2>2. KeptSamples(f, p) = <<>> /\ f \notin KeptBaselines(f, p)
    BY <1>1, <1>6 DEF FlowInv, PathChanged, KeptSamples, KeptBaselines, s
  <2>3. Len(t) \in 1..Len(t) /\ Len(t) - Len(t) = 0
    BY <1>2, <1>3
  <2>. QED  BY <2>1, <2>2, <2>3 DEF KeptSummary
<1>. QED  BY <1>5, <1>6

(* After update, window and baseline summarise the flow's new log. *)
LEMMA UpdateSummarises ==
  ASSUME TypeOK, WindowInv, NEW f \in Flow, NEW p \in PathId, NEW l \in Latency,
         HandlePacket(f, p, l)
  PROVE  FlowInv(f)'
<1> DEFINE t == log'[f]
           k == KeptSamples(f, p)
           w == NewSamples(f, p, l)
<1> USE CnfAssumption
<1>1. t = Append(log[f], [path |-> p, latency |-> l]) /\ samples'[f] = w
        /\ last_path'[f] = p /\ f \in DOMAIN last_path'
        /\ packet_counter'[f] = packet_counter[f] + 1
  BY DEF HandlePacket, TypeOK
<1>2. log[f] \in Seq(Detector!Packet) /\ [path |-> p, latency |-> l] \in Detector!Packet
        /\ k \in Seq(Latency) /\ packet_counter[f] = Len(log[f])
  <2>1. k \in Seq(Latency)
    BY DEF TypeOK, KeptSamples
  <2>. QED  BY <2>1 DEF TypeOK, Detector!Packet, WindowInv, FlowInv
<1>3. Len(t) = Len(log[f]) + 1 /\ t # <<>> /\ t[Len(t)] = [path |-> p, latency |-> l]
        /\ Len(t) \in Nat \ {0}
  BY <1>1, <1>2, AppendPacket
<1>4. PICK b \in 1..Len(t) : KeptSummary(f, p, t, b)
  BY <1>1, KeepsSummary
<1> HIDE DEF t, k, w
<1>5. Len(k) \in Nat /\ Len(k) <= WINDOW_SIZE
  BY <1>2, <1>3, <1>4 DEF KeptSummary, k
<1>6. /\ w \in Seq(Latency)
      /\ Len(w) = IF Len(k) < WINDOW_SIZE THEN Len(k) + 1 ELSE WINDOW_SIZE
      /\ w[Len(w)] = l
      /\ \A i \in 1..(Len(w) - 1) : w[i] = k[Len(k) + 1 - Len(w) + i]
  BY <1>2, <1>5, WindowSlides DEF k, w
<1>7. Len(k) = IF Len(t) - b <= WINDOW_SIZE THEN Len(t) - b ELSE WINDOW_SIZE
  BY <1>4 DEF KeptSummary, k
<1>8. Len(w) = IF Len(t) + 1 - b <= WINDOW_SIZE THEN Len(t) + 1 - b ELSE WINDOW_SIZE
  BY <1>3, <1>6, <1>7
<1>9. \A i \in 1..Len(w) : w[i] = t[Len(t) - Len(w) + i].latency
  <2> SUFFICES ASSUME NEW i \in 1..Len(w) PROVE w[i] = t[Len(t) - Len(w) + i].latency
    OBVIOUS
  <2>1. Len(w) \in Nat /\ Len(w) >= 1 /\ Len(w) <= Len(t) /\ Len(w) <= Len(k) + 1
    BY <1>3, <1>5, <1>6, <1>8
  <2>2. CASE i = Len(w)
    <3>1. Len(t) - Len(w) + i = Len(t)
      BY <1>3, <2>1, <2>2
    <3>. QED  BY <1>3, <1>6, <2>2, <3>1
  <2>3. CASE i # Len(w)
    <3>1. Len(k) + 1 - Len(w) + i \in 1..Len(k)
      BY <1>5, <2>1, <2>3
    <3>2. i \in 1..(Len(w) - 1)
      BY <2>1, <2>3
    <3>3. PICK j \in 1..Len(k) : j = Len(k) + 1 - Len(w) + i
      BY <3>1
    <3>4. Len(t) - 1 - Len(k) + j = Len(t) - Len(w) + i
      <4>1. Len(t) \in Nat /\ Len(k) \in Nat /\ Len(w) \in Nat /\ i \in Nat
        BY <1>3, <1>5, <2>1
      <4>. QED  BY <3>3, <4>1
    <3>5. k[j] = t[Len(t) - 1 - Len(k) + j].latency
      BY <1>4 DEF KeptSummary, k
    <3>6. w[i] = k[j]
      BY <1>6, <3>2, <3>3
    <3>. QED  BY <3>4, <3>5, <3>6
  <2>. QED  BY <2>2, <2>3
<1>10. baselines' = NewBaselines(f, p, l)
  BY DEF HandlePacket
<1>11. f \in DOMAIN baselines' <=> Len(t) + 1 - b >= WINDOW_SIZE
  <2>1. f \in DOMAIN baselines' <=> f \in KeptBaselines(f, p) \/ Len(w) >= WINDOW_SIZE
    BY <1>10 DEF NewBaselines, BaselineDue, w
  <2>2. f \in KeptBaselines(f, p) <=> Len(t) - b >= WINDOW_SIZE
    BY <1>4 DEF KeptSummary
  <2>. QED  BY <1>3, <1>8, <2>1, <2>2
<1>12. f \in DOMAIN baselines' =>
         baselines'[f] = Detector!Total(Detector!Latencies(t, b, WINDOW_SIZE))
  <2> SUFFICES ASSUME f \in DOMAIN baselines'
               PROVE  baselines'[f] = Detector!Total(Detector!Latencies(t, b, WINDOW_SIZE))
    OBVIOUS
  <2>1. CASE f \in KeptBaselines(f, p)
    <3>1. baselines'[f] = baselines[f]
      BY <1>10, <2>1 DEF NewBaselines, BaselineDue
    <3>. QED  BY <1>4, <2>1, <3>1 DEF KeptSummary
  <2>2. CASE f \notin KeptBaselines(f, p)
    <3>1. baselines'[f] = Detector!Total(w)
      BY <1>10, <1>11, <2>2 DEF NewBaselines, BaselineDue, w
    <3>2. Len(t) + 1 - b = WINDOW_SIZE
      <4>1. ~(Len(t) - b >= WINDOW_SIZE)
        BY <1>4, <2>2 DEF KeptSummary
      <4>. QED  BY <1>3, <1>11, <4>1
    <3>3. Len(w) = WINDOW_SIZE /\ \A i \in 1..WINDOW_SIZE : w[i] = t[b + i - 1].latency
      <4>1. Len(w) = WINDOW_SIZE /\ Len(t) - WINDOW_SIZE = b - 1
        BY <1>3, <1>8, <3>2
      <4>2. \A i \in 1..WINDOW_SIZE : Len(t) - WINDOW_SIZE + i = b + i - 1
        BY <4>1
      <4>. QED  BY <1>9, <4>1, <4>2
    <3>4. w = Detector!Latencies(t, b, WINDOW_SIZE)
      <4>1. b \in Nat /\ WINDOW_SIZE \in Nat
        OBVIOUS
      <4>2. w \in Seq(Latency)
        BY <1>6
      <4>. QED  BY <3>3, <4>1, <4>2, WindowIsStretch
    <3>. QED  BY <3>1, <3>4
  <2>. QED  BY <2>1, <2>2
<1>13. Summarises(f, log[f], b)'
  <2>1. Detector!IsRunStart(t, b) /\ samples'[f] = w
    BY <1>1, <1>4 DEF KeptSummary
  <2>. QED  BY <1>8, <1>9, <1>11, <1>12, <2>1 DEF Summarises, t
<1>14. packet_counter'[f] = Len(t) /\ last_path'[f] = t[Len(t)].path
         /\ f \in DOMAIN last_path'
  BY <1>1, <1>2, <1>3
<1>. QED
  BY <1>3, <1>13, <1>14 DEF FlowInv, t

(* A packet of one flow leaves every other flow's state alone. *)
LEMMA OthersUnchanged ==
  ASSUME TypeOK, WindowInv, NEW f \in Flow, NEW p \in PathId, NEW l \in Latency,
         HandlePacket(f, p, l), NEW g \in Flow, g # f
  PROVE  FlowInv(g)'
<1>1. samples'[g] = samples[g] /\ packet_counter'[g] = packet_counter[g]
        /\ log'[g] = log[g]
  BY DEF HandlePacket, TypeOK
<1>2. (g \in DOMAIN last_path' <=> g \in DOMAIN last_path)
        /\ (g \in DOMAIN last_path => last_path'[g] = last_path[g])
  BY DEF HandlePacket
<1>3. (g \in DOMAIN baselines' <=> g \in DOMAIN baselines)
        /\ (g \in DOMAIN baselines => baselines'[g] = baselines[g])
  BY DEF HandlePacket, NewBaselines, KeptBaselines
<1>4. FlowInv(g)
  BY DEF WindowInv
<1>5. ASSUME NEW b, Summarises(g, log[g], b) PROVE Summarises(g, log[g], b)'
  BY <1>1, <1>3, <1>5 DEF Summarises
<1>. QED  BY <1>1, <1>2, <1>3, <1>4, <1>5 DEF FlowInv

(* Types and windows together are preserved by every step. *)
LEMMA InvStep == TypeOK /\ WindowInv /\ [Next]_vars => (TypeOK /\ WindowInv)'
<1> SUFFICES ASSUME TypeOK, WindowInv, [Next]_vars PROVE WindowInv'
  BY TypeStep
<1>1. ASSUME NEW f \in Flow, NEW p \in PathId, NEW l \in Latency, HandlePacket(f, p, l)
      PROVE  WindowInv'
  BY <1>1, UpdateSummarises, OthersUnchanged DEF WindowInv
<1>2. CASE UNCHANGED <<cnfVars, log>>
  BY <1>2 DEF WindowInv, FlowInv, Summarises, cnfVars
<1>. QED  BY <1>1, <1>2 DEF Next, IgnorePacket, vars, cnfVars

(***************************************************************************)
(* In every reachable state of the cNF, for every flow: the rolling window *)
(* is the end of the current run and the baseline the total of the run's   *)
(* first window (PathState.update).                                        *)
(***************************************************************************)
THEOREM WindowCorrect == Spec => [](TypeOK /\ WindowInv)
  BY InitInv, InvStep, PTL DEF Spec

(* PathState's dictionaries keep their types, and no flow's window ever    *)
(* holds more than WINDOW_SIZE samples.                                    *)
THEOREM TypeCorrect == Spec => []TypeOK
  BY WindowCorrect, PTL

(* is_degraded decides, from window and baseline, what the detector        *)
(* decides from the whole log. *)
LEMMA SameVerdict ==
  ASSUME TypeOK', WindowInv', NEW f \in Flow, log'[f] # <<>>
  PROVE  IsDegraded(samples'[f], baselines', f) <=> Detector!Degraded(log'[f])
<1> DEFINE t == log'[f]
           w == samples'[f]
<1> USE CnfAssumption
<1>1. t \in Seq(Detector!Packet) /\ Len(t) \in Nat /\ w \in Seq(Latency)
  BY DEF TypeOK
<1>2. PICK b \in 1..Len(t) :
        /\ Detector!IsRunStart(t, b)
        /\ Len(w) = IF Len(t) + 1 - b <= WINDOW_SIZE THEN Len(t) + 1 - b ELSE WINDOW_SIZE
        /\ \A k \in 1..Len(w) : w[k] = t[Len(t) - Len(w) + k].latency
        /\ f \in DOMAIN baselines' <=> Len(t) + 1 - b >= WINDOW_SIZE
        /\ f \in DOMAIN baselines' =>
             baselines'[f] = Detector!Total(Detector!Latencies(t, b, WINDOW_SIZE))
  BY DEF WindowInv, FlowInv, Summarises
<1> HIDE DEF t, w
<1>3. Detector!RunStart(t) = b
  BY <1>1, <1>2, RunStartUnique
<1>4. f \in DOMAIN baselines' <=> Detector!RunLength(t) >= WINDOW_SIZE
  BY <1>2, <1>3 DEF Detector!RunLength
<1>5. CASE f \in DOMAIN baselines'
  <2>1. Len(w) = WINDOW_SIZE /\ WINDOW_SIZE <= Len(t)
    BY <1>1, <1>2, <1>5
  <2>2. w = Detector!LastWindow(t)
    <3>1. Len(t) + 1 - WINDOW_SIZE \in Nat
      BY <1>1, <2>1
    <3>2. \A k \in 1..WINDOW_SIZE : w[k] = t[Len(t) + 1 - WINDOW_SIZE + k - 1].latency
      <4>1. \A k \in 1..WINDOW_SIZE :
              Len(t) + 1 - WINDOW_SIZE + k - 1 = Len(t) - WINDOW_SIZE + k
        BY <1>1
      <4>. QED  BY <1>2, <2>1, <4>1
    <3>. QED  BY <1>1, <2>1, <3>1, <3>2, WindowIsStretch DEF Detector!LastWindow
  <2>3. baselines'[f] = Detector!Total(Detector!FirstWindow(t))
    BY <1>2, <1>3, <1>5 DEF Detector!FirstWindow
  <2>4. w # <<>>
    BY <1>1, <2>1
  <2>. QED
    BY <1>4, <1>5, <2>1, <2>2, <2>3, <2>4
    DEF IsDegraded, Detector!Degraded, w, t
<1>6. CASE f \notin DOMAIN baselines'
  BY <1>4, <1>6 DEF IsDegraded, Detector!Degraded, t
<1>. QED  BY <1>5, <1>6

(* One packet handled by the cNF is one packet handled by the detector. *)
LEMMA StepRefines ==
  TypeOK /\ WindowInv /\ (TypeOK /\ WindowInv)' /\ [Next]_vars
    => [Detector!Next]_<<log, sent>>
<1> SUFFICES ASSUME TypeOK, WindowInv, TypeOK', WindowInv', [Next]_vars
             PROVE  [Detector!Next]_<<log, sent>>
  OBVIOUS
<1>1. ASSUME NEW f \in Flow, NEW p \in PathId, NEW l \in Latency, HandlePacket(f, p, l)
      PROVE  Detector!Handle(f, p, l)
  <2>1. packet_counter'[f] = Len(log'[f])
    BY DEF WindowInv, FlowInv
  <2>2. log'[f] # <<>>
    <3>1. [path |-> p, latency |-> l] \in Detector!Packet
      BY DEF Detector!Packet
    <3>. QED  BY <1>1, <3>1, AppendPacket DEF HandlePacket, TypeOK
  <2>3. IsDegraded(samples'[f], baselines', f) = Detector!Degraded(log'[f])
    <3>1. IsDegraded(samples'[f], baselines', f) <=> Detector!Degraded(log'[f])
      BY <2>2, SameVerdict
    <3>. QED  BY <3>1 DEF IsDegraded, Detector!Degraded
  <2>. QED  BY <1>1, <2>1, <2>3 DEF HandlePacket, Detector!Handle
<1>2. CASE IgnorePacket
  BY <1>2 DEF IgnorePacket, Detector!Next, Detector!Ignore
<1>3. CASE UNCHANGED vars
  BY <1>3 DEF vars
<1>. QED  BY <1>1, <1>2, <1>3 DEF Next, Detector!Next

(***************************************************************************)
(* PathState and handle_packet implement the detector over whole           *)
(* histories, for every number of flows, window, threshold and interval.   *)
(***************************************************************************)
THEOREM CnfImplementsDetector == Spec => ImplementsDetector
<1>1. Init => Detector!Init
  BY DEF Init, Detector!Init
<1>. QED
  BY <1>1, WindowCorrect, StepRefines, PTL DEF Spec, Detector!Spec, ImplementsDetector

-----------------------------------------------------------------------------
(* The detector's mean is the mean of the lemmas about windows. *)
LEMMA SameMean ==
  /\ \A w : Detector!Total(w) = Total(w)
  /\ \A a, b : Detector!Distance(a, b) = Distance(a, b)
  /\ \A x, n, y, m, pct : Detector!Exceeds(x, n, y, m, pct) <=> Exceeds(x, n, y, m, pct)
<1>1. \A w : Detector!Total(w) = Total(w)
  BY DEF Detector!Total, Total
<1>2. \A a, b : Detector!Distance(a, b) = Distance(a, b)
  BY DEF Detector!Distance, Distance
<1>3. \A x, n, y, m, pct : Detector!Exceeds(x, n, y, m, pct) <=> Exceeds(x, n, y, m, pct)
  BY <1>2 DEF Detector!Exceeds, Exceeds
<1>. QED  BY <1>1, <1>2, <1>3

(* A function over 1..n is a sequence. *)
LEMMA FunctionIsSeq ==
  ASSUME NEW n \in Nat, NEW w \in [1..n -> Nat]
  PROVE  w \in Seq(Nat) /\ Len(w) = n
  OBVIOUS

(* The first and the last window of a run that fills one, sample by sample.*)
LEMMA Windows ==
  ASSUME NEW s \in Seq(Detector!Packet), NEW b \in 1..Len(s), Detector!IsRunStart(s, b),
         Detector!RunLength(s) >= WINDOW_SIZE
  PROVE  LET late == Detector!LastWindow(s)
             early == Detector!FirstWindow(s)
             from == Len(s) - WINDOW_SIZE
         IN  /\ Detector!RunStart(s) = b /\ Len(s) + 1 - b >= WINDOW_SIZE
             /\ late \in Seq(Nat) /\ Len(late) = WINDOW_SIZE
             /\ early \in Seq(Nat) /\ Len(early) = WINDOW_SIZE
             /\ DOMAIN late = 1..WINDOW_SIZE /\ DOMAIN early = 1..WINDOW_SIZE
             /\ \A k \in 1..WINDOW_SIZE :
                  /\ late[k] = s[from + k].latency /\ from + k \in b..Len(s)
                  /\ early[k] = s[b + k - 1].latency /\ b + k - 1 \in b..Len(s)
<1> DEFINE from == Len(s) - WINDOW_SIZE
           late == [k \in 1..WINDOW_SIZE |-> s[from + k].latency]
           early == [k \in 1..WINDOW_SIZE |-> s[b + k - 1].latency]
<1> USE CnfAssumption
<1>1. Detector!RunStart(s) = b
  BY RunStartUnique
<1>2. Len(s) \in Nat /\ Len(s) + 1 - b >= WINDOW_SIZE
  BY <1>1 DEF Detector!RunLength
<1>3. \A k \in 1..WINDOW_SIZE : from + k \in b..Len(s) /\ b + k - 1 \in b..Len(s)
  BY <1>2
<1>4. \A i \in b..Len(s) : s[i].latency \in Nat
  <2> SUFFICES ASSUME NEW i \in b..Len(s) PROVE s[i].latency \in Nat
    OBVIOUS
  <2>1. i \in 1..Len(s)
    BY <1>2
  <2>2. s[i] \in Detector!Packet
    BY <2>1
  <2>. QED  BY <2>2 DEF Detector!Packet
<1>5. \A k \in 1..WINDOW_SIZE : s[from + k].latency \in Nat /\ s[b + k - 1].latency \in Nat
  BY <1>3, <1>4
<1>6. late \in Seq(Nat) /\ early \in Seq(Nat) /\ Len(late) = WINDOW_SIZE /\ Len(early) = WINDOW_SIZE
  <2>1. late \in [1..WINDOW_SIZE -> Nat] /\ early \in [1..WINDOW_SIZE -> Nat]
    BY <1>5
  <2> HIDE DEF late, early
  <2>. QED  BY <2>1, FunctionIsSeq
<1>7. Detector!FirstWindow(s) = early
  BY <1>1 DEF Detector!FirstWindow, Detector!Latencies
<1>8. Detector!LastWindow(s) = late
  <2>1. \A k \in 1..WINDOW_SIZE : Len(s) + 1 - WINDOW_SIZE + k - 1 = from + k
    BY <1>2
  <2>. QED  BY <2>1 DEF Detector!LastWindow, Detector!Latencies
<1> HIDE DEF from
<1>9. \A k \in 1..WINDOW_SIZE : late[k] = s[from + k].latency /\ early[k] = s[b + k - 1].latency
  OBVIOUS
<1>10. DOMAIN late = 1..WINDOW_SIZE /\ DOMAIN early = 1..WINDOW_SIZE
  OBVIOUS
<1> HIDE DEF late, early
<1>. QED  BY <1>1, <1>2, <1>3, <1>6, <1>7, <1>8, <1>9, <1>10 DEF from

(* While a run is steady, or not longer than its first window, the         *)
(* detector does not fire. *)
LEMMA SteadyIsNotDegraded ==
  ASSUME NEW s \in Seq(Detector!Packet), NEW b \in 1..Len(s), Detector!IsRunStart(s, b),
         Detector!Degraded(s)
  PROVE  ~Steady(s) /\ Detector!RunLength(s) > WINDOW_SIZE
<1> DEFINE late == Detector!LastWindow(s)
           early == Detector!FirstWindow(s)
           from == Len(s) - WINDOW_SIZE
<1> USE CnfAssumption
<1>1. Detector!RunLength(s) >= WINDOW_SIZE
        /\ Exceeds(Total(late), WINDOW_SIZE, Total(early), WINDOW_SIZE, DEGRADATION_PCT)
  BY SameMean DEF Detector!Degraded
<1>2. /\ Detector!RunStart(s) = b
      /\ late \in Seq(Nat) /\ Len(late) = WINDOW_SIZE
      /\ early \in Seq(Nat) /\ Len(early) = WINDOW_SIZE
      /\ \A k \in 1..WINDOW_SIZE :
           /\ late[k] = s[from + k].latency /\ from + k \in b..Len(s)
           /\ early[k] = s[b + k - 1].latency /\ b + k - 1 \in b..Len(s)
  BY <1>1, Windows
<1>3. Len(s) \in Nat
  OBVIOUS
<1>4. ASSUME \A k \in 1..WINDOW_SIZE :
               100 * Distance(late[k], early[k]) <= DEGRADATION_PCT * early[k]
      PROVE  FALSE
  <2> HIDE DEF late, early
  <2>. QED  BY <1>1, <1>2, <1>4, WithinDoesNotExceed
<1>5. ASSUME Steady(s) PROVE FALSE
  <2>1. \A k \in 1..WINDOW_SIZE :
          100 * Distance(late[k], early[k]) <= DEGRADATION_PCT * early[k]
    <3> SUFFICES ASSUME NEW k \in 1..WINDOW_SIZE
                 PROVE  100 * Distance(late[k], early[k]) <= DEGRADATION_PCT * early[k]
      OBVIOUS
    <3>1. PICK i \in b..Len(s) : late[k] = s[i].latency
      BY <1>2
    <3>2. PICK j \in b..Len(s) : early[k] = s[j].latency
      BY <1>2
    <3>. QED  BY <1>2, <1>5, <3>1, <3>2, SameMean DEF Steady
  <2>. QED  BY <1>4, <2>1
<1>6. ASSUME Detector!RunLength(s) = WINDOW_SIZE PROVE FALSE
  <2>1. \A k \in 1..WINDOW_SIZE : from + k = b + k - 1
    <3>1. Len(s) + 1 - b = WINDOW_SIZE
      BY <1>2, <1>6 DEF Detector!RunLength
    <3>2. from = b - 1
      BY <1>3, <3>1
    <3> HIDE DEF from
    <3>. QED  BY <3>2
  <2>2. \A k \in 1..WINDOW_SIZE : late[k] = early[k] /\ early[k] \in Nat
    <3> HIDE DEF late, early, from
    <3>1. \A k \in 1..WINDOW_SIZE : late[k] = early[k]
      BY <1>2, <2>1
    <3>2. \A k \in 1..WINDOW_SIZE : early[k] \in Nat
      BY <1>2
    <3>. QED  BY <3>1, <3>2
  <2>3. \A k \in 1..WINDOW_SIZE :
          100 * Distance(late[k], early[k]) <= DEGRADATION_PCT * early[k]
    <3> SUFFICES ASSUME NEW k \in 1..WINDOW_SIZE
                 PROVE  100 * Distance(late[k], early[k]) <= DEGRADATION_PCT * early[k]
      OBVIOUS
    <3> HIDE DEF late, early
    <3>1. Distance(late[k], early[k]) = 0
      BY <2>2 DEF Distance
    <3>2. DEGRADATION_PCT * early[k] >= 0
      BY <2>2
    <3>. QED  BY <3>1, <3>2
  <2>. QED  BY <1>4, <2>3
<1>7. Detector!RunLength(s) \in Int
  BY <1>2, <1>3 DEF Detector!RunLength
<1>. QED  BY <1>1, <1>5, <1>6, <1>7

(* A window beyond the threshold, sample by sample, makes it fire. *)
LEMMA ShiftIsDegraded ==
  ASSUME NEW s \in Seq(Detector!Packet), NEW b \in 1..Len(s), Detector!IsRunStart(s, b),
         Detector!RunLength(s) >= WINDOW_SIZE,
         AllBeyond(Detector!LastWindow(s), Detector!FirstWindow(s))
  PROVE  Detector!Degraded(s)
<1> DEFINE late == Detector!LastWindow(s)
           early == Detector!FirstWindow(s)
<1> USE CnfAssumption
<1>1. /\ late \in Seq(Nat) /\ Len(late) = WINDOW_SIZE
      /\ early \in Seq(Nat) /\ Len(early) = WINDOW_SIZE
      /\ DOMAIN late = 1..WINDOW_SIZE /\ DOMAIN early = 1..WINDOW_SIZE
  BY Windows
<1>2. \/ \A k \in 1..WINDOW_SIZE : 100 * (late[k] - early[k]) > DEGRADATION_PCT * early[k]
      \/ \A k \in 1..WINDOW_SIZE : 100 * (early[k] - late[k]) > DEGRADATION_PCT * early[k]
  <2> HIDE DEF late, early
  <2>. QED  BY <1>1 DEF AllBeyond, late, early
<1>3. Exceeds(Total(late), WINDOW_SIZE, Total(early), WINDOW_SIZE, DEGRADATION_PCT)
  <2> HIDE DEF late, early
  <2>. QED  BY <1>1, <1>2, BeyondExceeds
<1>. QED  BY <1>3, SameMean DEF Detector!Degraded

(***************************************************************************)
(* What is_degraded has decided for the packet handled last is what the    *)
(* detector decides, on the log as it is: nothing is handled between the   *)
(* decision and the report.                                                *)
(***************************************************************************)
AlarmInv ==
  \A r \in sent : r.flow \in Flow /\ log[r.flow] # <<>>
                    /\ (r.degraded => Detector!Degraded(log[r.flow]))

(* A handled packet is in its flow's log, and the verdict sent with it is  *)
(* the detector's. *)
LEMMA VerdictSent ==
  ASSUME TypeOK, WindowInv, TypeOK', WindowInv',
         NEW f \in Flow, NEW p \in PathId, NEW l \in Latency, HandlePacket(f, p, l)
  PROVE  /\ log'[f] # <<>>
         /\ \A g \in Flow : g # f => log'[g] = log[g]
         /\ \A r \in sent' : r.flow = f /\ (r.degraded => Detector!Degraded(log'[f]))
         /\ Detector!Degraded(log'[f]) => \E r \in sent' : r.flow = f /\ r.degraded
<1>1. log'[f] # <<>>
  <2>1. [path |-> p, latency |-> l] \in Detector!Packet
    BY DEF Detector!Packet
  <2>. QED  BY <2>1, AppendPacket DEF HandlePacket, TypeOK
<1>2. \A g \in Flow : g # f => log'[g] = log[g]
  BY DEF HandlePacket, TypeOK
<1>3. IsDegraded(samples'[f], baselines', f) <=> Detector!Degraded(log'[f])
  BY <1>1, SameVerdict
<1>4. \A r \in sent' : r.flow = f /\ (r.degraded => Detector!Degraded(log'[f]))
  BY <1>3 DEF HandlePacket
<1>5. Detector!Degraded(log'[f]) => \E r \in sent' : r.flow = f /\ r.degraded
  BY <1>3 DEF HandlePacket
<1>. QED  BY <1>1, <1>2, <1>4, <1>5

(* AlarmInv holds when nothing is sent, and HandlePacket establishes it. *)
LEMMA AlarmStep ==
  TypeOK /\ WindowInv /\ (TypeOK /\ WindowInv)' /\ AlarmInv /\ [Next]_vars => AlarmInv'
<1> SUFFICES ASSUME TypeOK, WindowInv, TypeOK', WindowInv', AlarmInv, [Next]_vars
             PROVE  AlarmInv'
  OBVIOUS
<1>1. ASSUME NEW f \in Flow, NEW p \in PathId, NEW l \in Latency, HandlePacket(f, p, l)
      PROVE  AlarmInv'
  BY <1>1, VerdictSent DEF AlarmInv
<1>2. CASE IgnorePacket
  BY <1>2 DEF IgnorePacket, AlarmInv
<1>3. CASE UNCHANGED vars
  BY <1>3 DEF vars, AlarmInv
<1>. QED  BY <1>1, <1>2, <1>3 DEF Next

(* A flow with packets has a run, which starts somewhere. *)
LEMMA RunExists ==
  ASSUME TypeOK, WindowInv, NEW f \in Flow, log[f] # <<>>
  PROVE  log[f] \in Seq(Detector!Packet)
           /\ \E b \in 1..Len(log[f]) : Detector!IsRunStart(log[f], b)
  BY DEF TypeOK, WindowInv, FlowInv, Summarises

(***************************************************************************)
(* NoFalseAlarm, for windows of every length and every threshold: a report *)
(* says "degraded" only when the run has outgrown its first window and its *)
(* latencies are not all within DEGRADATION_PCT of each other.             *)
(***************************************************************************)
THEOREM AlarmsAreJustified == Spec => []NoFalseAlarm
<1>1. Init => AlarmInv
  BY DEF Init, AlarmInv
<1>2. TypeOK /\ WindowInv /\ AlarmInv => NoFalseAlarm
  <2> SUFFICES ASSUME TypeOK, WindowInv, AlarmInv, NEW r \in sent, r.degraded
               PROVE  ~Steady(log[r.flow]) /\ Detector!RunLength(log[r.flow]) > WINDOW_SIZE
    BY DEF NoFalseAlarm
  <2>1. r.flow \in Flow /\ log[r.flow] # <<>> /\ Detector!Degraded(log[r.flow])
    BY DEF AlarmInv
  <2>. QED  BY <2>1, RunExists, SteadyIsNotDegraded
<1>. QED  BY <1>1, <1>2, WindowCorrect, AlarmStep, PTL DEF Spec

(***************************************************************************)
(* ShiftIsReported, for windows of every length and every threshold: the   *)
(* packet that completes a window beyond the threshold, on either side, is *)
(* reported at once.                                                       *)
(***************************************************************************)
THEOREM ShiftsAreReported == Spec => ShiftIsReported
<1> DEFINE ShiftStep ==
             \A f \in Flow :
               /\ log'[f] # log[f]
               /\ Detector!RunLength(log'[f]) >= WINDOW_SIZE
               /\ AllBeyond(Detector!LastWindow(log'[f]), Detector!FirstWindow(log'[f]))
               => \E r \in sent' : r.flow = f /\ r.degraded
<1>1. TypeOK /\ WindowInv /\ (TypeOK /\ WindowInv)' /\ [Next]_vars => [ShiftStep]_vars
  <2> SUFFICES ASSUME TypeOK, WindowInv, TypeOK', WindowInv', Next,
                      NEW f \in Flow, log'[f] # log[f],
                      Detector!RunLength(log'[f]) >= WINDOW_SIZE,
                      AllBeyond(Detector!LastWindow(log'[f]), Detector!FirstWindow(log'[f]))
               PROVE  \E r \in sent' : r.flow = f /\ r.degraded
    OBVIOUS
  <2>1. PICK g \in Flow, p \in PathId, l \in Latency : HandlePacket(g, p, l)
    BY DEF Next, IgnorePacket
  <2>2. g = f /\ log'[f] # <<>>
    BY <2>1, VerdictSent
  <2>3. log'[f] \in Seq(Detector!Packet)
          /\ \E b \in 1..Len(log'[f]) : Detector!IsRunStart(log'[f], b)
    BY <2>2, RunExists DEF TypeOK, WindowInv, FlowInv, Summarises
  <2>4. Detector!Degraded(log'[f])
    BY <2>3, ShiftIsDegraded
  <2>. QED  BY <2>1, <2>2, <2>4, VerdictSent
<1>. QED  BY <1>1, WindowCorrect, PTL DEF Spec, ShiftIsReported
=============================================================================
