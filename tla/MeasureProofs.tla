---------------------------- MODULE MeasureProofs ---------------------------
(***************************************************************************)
(* Theorems about Measures, for samples of any length over any labels, any *)
(* number of bins, draws, weights and clusters.                            *)
(***************************************************************************)
EXTENDS Measures, Induction, SequenceTheorems, TLAPS

(* A sum lies between the number of its summands times the least and times the greatest. *)
LEMMA SigmaBetween ==
  ASSUME NEW S, IsFiniteSet(S), NEW f, NEW k \in Nat, NEW lo \in Int, NEW hi \in Int,
         \A x \in S : f[x] \in Int /\ lo <= k * f[x] /\ k * f[x] <= hi
  PROVE  lo * Cardinality(S) <= k * Sigma(f, S) /\ k * Sigma(f, S) <= hi * Cardinality(S)
<1> DEFINE G == {T \in SUBSET S : lo * Cardinality(T) <= k * Sigma(f, T) /\ k * Sigma(f, T) <= hi * Cardinality(T)}
<1>1. {} \in G
  BY SigmaStep, FS_EmptySet
<1>2. ASSUME NEW T \in SUBSET S, NEW x \in S \ T, T \in G PROVE T \cup {x} \in G
  <2> DEFINE n == Cardinality(T)
             s == Sigma(f, T)
  <2>1. Sigma(f, T \cup {x}) = f[x] + s /\ s \in Int
    BY SigmaStep
  <2>2. Cardinality(T \cup {x}) = n + 1 /\ n \in Nat
    BY FS_Subset, FS_AddElement, FS_CardinalityType
  <2>3. lo * n <= k * s /\ k * s <= hi * n /\ T \cup {x} \in SUBSET S
    BY <1>2
  <2> HIDE DEF n, s, G
  <2>4. ASSUME NEW a \in Int, lo <= k * a, k * a <= hi
        PROVE  lo * (n + 1) <= k * (a + s) /\ k * (a + s) <= hi * (n + 1)
    <3>1. lo * (n + 1) = lo * n + lo /\ hi * (n + 1) = hi * n + hi /\ k * (a + s) = k * a + k * s
      BY <2>1, <2>2
    <3>2. lo * n \in Int /\ hi * n \in Int /\ k * a \in Int /\ k * s \in Int
      BY <2>1, <2>2
    <3> QED BY <2>3, <2>4, <3>1, <3>2
  <2> QED BY <2>1, <2>2, <2>3, <2>4 DEF G
<1>3. S \in G
  <2> HIDE DEF G
  <2> QED BY <1>1, <1>2, FiniteSubsets
<1> QED BY <1>3

(***************************************************************************)
(* A sample of any length.                                                 *)
(***************************************************************************)
Observation == [truth : Labels, said : Labels \cup {Foreign}, p : 0 .. Grain]

LEMMA Observed ==
  ASSUME NEW s \in Seq(Observation)
  PROVE  /\ Len(s) \in Nat /\ DOMAIN s = 1 .. Len(s) /\ IsFiniteSet(DOMAIN s) /\ Cardinality(DOMAIN s) = Len(s)
         /\ \A i \in DOMAIN s : s[i].p \in 0 .. Grain /\ s[i].truth \in Labels /\ s[i].said \in Labels \cup {Foreign}
         /\ \A i \in DOMAIN s : s[i].p \in Nat /\ s[i].p <= Grain
<1>1. Len(s) \in Nat /\ DOMAIN s = 1 .. Len(s) /\ \A i \in DOMAIN s : s[i] \in Observation
  OBVIOUS
<1>2. \A o \in Observation : o.p \in 0 .. Grain /\ o.truth \in Labels /\ o.said \in Labels \cup {Foreign}
  BY DEF Observation
<1>3. IsFiniteSet(DOMAIN s) /\ Cardinality(DOMAIN s) = Len(s)
  BY <1>1, UpToCount
<1>4. \A p \in 0 .. Grain : p \in Nat /\ p <= Grain
  BY MeasureAssumption
<1> HIDE DEF Observation
<1>5. \A i \in DOMAIN s : s[i].p \in 0 .. Grain /\ s[i].truth \in Labels /\ s[i].said \in Labels \cup {Foreign}
  BY <1>1, <1>2
<1> QED BY <1>1, <1>3, <1>4, <1>5

(***************************************************************************)
(* Selective risk: the observations accepted at a threshold shrink as it   *)
(* rises, and the risk is a share of them.                                 *)
(***************************************************************************)
LEMMA RatioIs ==
  /\ \A n, d : d # 0 => Ratio(n, d) = <<n, d>>
  /\ \A n : Ratio(n, 0) = NotAvailable
  /\ \A n, d : Ratio(n, d) # NotAvailable => d # 0
BY DEF Ratio

LEMMA ShareAtMostOne ==
  ASSUME NEW n \in Nat, NEW d \in Nat, n <= d, d # 0 PROVE AtMost(Ratio(n, d), <<1, 1>>) /\ AtMost(<<0, 1>>, Ratio(n, d))
BY RatioIs DEF AtMost

LEMMA RisksCovered == ASSUME sample \in Seq(Observation) PROVE RisksAreCovered
<1> DEFINE D == DOMAIN sample
           T == {0, Grain} \cup {sample[i].p : i \in D}
           curve == RiskCoverageCurve(sample)
           Accepted(t) == {i \in D : sample[i].p >= t}
           Wrong(t) == {i \in Accepted(t) : ~Right(sample[i])}
<1>1. \A i \in D : sample[i].p \in Nat /\ sample[i].p <= Grain
  BY Observed
<1>2. IsFiniteSet(D)
  BY Observed
<1>3. \A t \in T : curve[t].accepted = Accepted(t) /\ curve[t].risk = Ratio(Cardinality(Wrong(t)), Cardinality(Accepted(t)))
  BY DEF RiskCoverageCurve, SelectiveRisk
<1>4. DOMAIN curve = T /\ 0 \in T
  BY DEF RiskCoverageCurve
<1>5. curve[0].accepted = D
  <2>1. Accepted(0) = D
    <3> HIDE DEF D
    <3> QED BY <1>1
  <2> QED BY <1>3, <1>4, <2>1
<1>6. \A t, u \in T : t <= u => Accepted(u) \subseteq Accepted(t)
  <2>1. \A t \in T : t \in Int
    <3>1. 0 \in Int /\ Grain \in Int
      BY MeasureAssumption
    <3>2. \A t \in T : t = 0 \/ t = Grain \/ \E i \in D : t = sample[i].p
      OBVIOUS
    <3> HIDE DEF D, T
    <3> QED BY <1>1, <3>1, <3>2
  <2>2. ASSUME NEW t \in T, NEW u \in T, t <= u, NEW i \in Accepted(u) PROVE i \in Accepted(t)
    <3>1. sample[i].p \in Nat /\ u \in Int /\ t \in Int /\ sample[i].p >= u /\ i \in D
      BY <1>1, <2>1
    <3> HIDE DEF D, T
    <3> QED BY <2>2, <3>1
  <2> QED BY <2>2
<1>7. \A t : IsFiniteSet(Accepted(t)) /\ IsFiniteSet(Wrong(t)) /\ Cardinality(Wrong(t)) <= Cardinality(Accepted(t))
             /\ Cardinality(Accepted(t)) \in Nat /\ Cardinality(Wrong(t)) \in Nat
  <2>1. \A t : Accepted(t) \subseteq D /\ Wrong(t) \subseteq Accepted(t)
    OBVIOUS
  <2> HIDE DEF Accepted, Wrong
  <2> QED BY <1>2, <2>1, FS_Subset, FS_CardinalityType
<1>8. \A t \in T : curve[t].accepted # {} => AtMost(curve[t].risk, <<1, 1>>)
  <2> SUFFICES ASSUME NEW t \in T, Accepted(t) # {} PROVE AtMost(curve[t].risk, <<1, 1>>)
    BY <1>3
  <2>1. Cardinality(Accepted(t)) # 0
    BY <1>7, FS_EmptySet
  <2> HIDE DEF Accepted, Wrong, curve
  <2> QED BY <1>3, <1>7, <2>1, ShareAtMostOne
<1>9. WeightedMean(sample) # NotAvailable => AtMost(<<0, 1>>, WeightedMean(sample)) /\ AtMost(WeightedMean(sample), <<1, 1>>)
  <2> DEFINE f == [i \in D |-> IF Right(sample[i]) THEN sample[i].p ELSE 0]
             g == [i \in D |-> sample[i].p]
  <2>1. /\ \A i \in D : f[i] \in Nat /\ g[i] \in Nat /\ f[i] \in Int /\ g[i] \in Int /\ f[i] <= g[i]
        /\ DOMAIN f = D /\ DOMAIN g = D
    BY <1>1
  <2>2. WeightedMean(sample) = Ratio(SumFunction(f), SumFunction(g))
    BY DEF WeightedMean
  <2> HIDE DEF f, g
  <2>3. SumFunction(f) \in Nat /\ SumFunction(g) \in Nat /\ SumFunction(f) <= SumFunction(g)
    BY <1>2, <2>1, SumIs, SigmaNatural, SigmaMonotone
  <2> QED BY <2>2, <2>3, RatioIs, ShareAtMostOne
<1> HIDE DEF curve, Accepted, Wrong, T
<1> QED BY <1>3, <1>4, <1>5, <1>6, <1>8, <1>9 DEF RisksAreCovered, curve

(***************************************************************************)
(* Calibration bins: every probability is in one, between its bounds, and  *)
(* the shares of the bins add up.                                          *)
(***************************************************************************)

LEMMA LesserOf == ASSUME NEW a \in Int, NEW b \in Int PROVE Min({a, b}) = IF a <= b THEN a ELSE b
<1>1. IsFiniteSet({a}) /\ {a} \cup {b} = {a, b}
  BY FS_Singleton
<1>2. IsFiniteSet({a, b}) /\ {a, b} \subseteq Int /\ {a, b} # {}
  BY <1>1, FS_AddElement
<1>3. Min({a, b}) \in {a, b} /\ \A y \in {a, b} : Min({a, b}) <= y
  BY <1>2, FiniteExtremes
<1> QED BY <1>3

LEMMA Quotient ==
  ASSUME NEW n \in Nat, NEW d \in Nat \ {0}
  PROVE  n \div d \in Nat /\ n % d \in 0 .. d - 1 /\ n = d * (n \div d) + (n % d)
OBVIOUS

LEMMA BinIs ==
  ASSUME NEW p \in Nat, p <= Grain, NEW bins \in Nat \ {0}
  PROVE  BinOf(p, bins) \in 0 .. bins - 1 /\ BinOf(p, bins) * Grain <= p * bins /\ p * bins <= (BinOf(p, bins) + 1) * Grain
<1> DEFINE n == p * bins
           q == n \div Grain
           r == n % Grain
<1>1. Grain \in Nat \ {0} /\ n \in Nat /\ n <= Grain * bins
  <2>1. Grain \in Nat \ {0}
    BY MeasureAssumption
  <2>2. \A a, b, c \in Nat : a <= b => a * c \in Nat /\ a * c <= b * c
    OBVIOUS
  <2> QED BY <2>1, <2>2
<1>2. q \in Nat /\ r \in 0 .. Grain - 1 /\ n = Grain * q + r
  <2> HIDE DEF n
  <2> QED BY <1>1, Quotient
<1>3. BinOf(p, bins) = IF bins - 1 <= q THEN bins - 1 ELSE q
  <2> HIDE DEF n
  <2>1. bins - 1 \in Int /\ q \in Int
    BY <1>2
  <2> HIDE DEF q
  <2> QED BY <2>1, LesserOf DEF BinOf, q, n
<1> HIDE DEF n, q, r
<1>4. q * Grain <= n /\ n <= (q + 1) * Grain
  <2>1. q * Grain = Grain * q /\ (q + 1) * Grain = Grain * q + Grain
    BY <1>1, <1>2
  <2>2. Grain * q \in Nat
    BY <1>1, <1>2
  <2> QED BY <1>1, <1>2, <2>1, <2>2
<1>5. CASE bins - 1 <= q
  <2>1. (bins - 1) * Grain <= q * Grain
    BY <1>1, <1>2, <1>5
  <2>2. (bins - 1 + 1) * Grain = Grain * bins
    BY <1>1
  <2>3. (bins - 1) * Grain \in Int /\ q * Grain \in Int
    BY <1>1, <1>2
  <2> QED BY <1>1, <1>3, <1>4, <1>5, <2>1, <2>2, <2>3 DEF n
<1>6. CASE ~(bins - 1 <= q)
  BY <1>2, <1>3, <1>4, <1>6 DEF n
<1> QED BY <1>5, <1>6


(* What the calibration bins of a sample are, for one number of bins. *)
Binned(s, b, bins) ==
  /\ \A i \in DOMAIN s : \E n \in DOMAIN b : /\ i \in b[n].members
                                             /\ \A m \in DOMAIN b : i \in b[m].members => m = n
                                             /\ n * Grain <= s[i].p * bins
  /\ \A n \in DOMAIN b : b[n].members # {} =>
         /\ AtMost(<<n, bins>>, b[n].prediction) /\ AtMost(b[n].prediction, <<n + 1, bins>>)
         /\ AtMost(b[n].gap, <<1, 1>>)

(* Two shares differ by one at most. *)
LEMMA SharesDiffer ==
  ASSUME NEW s \in Nat, NEW d \in Nat \ {0}, NEW o \in Nat, NEW c \in Nat \ {0}, s <= d, o <= c
  PROVE  AtMost(Distance(<<s, d>>, <<o, c>>), <<1, 1>>)
<1>1. /\ s * c \in Nat /\ o * d \in Nat /\ d * c \in Nat
      /\ s * c <= d * c /\ o * d <= d * c
  <2>1. \A x, y, z \in Nat : x <= y => x * z \in Nat /\ y * z \in Nat /\ x * z <= y * z /\ y * z = z * y
    OBVIOUS
  <2> QED BY <2>1
<1>2. Minus(<<s, d>>, <<o, c>>) = <<s * c - o * d, d * c>>
  BY DEF Minus
<1>3. Distance(<<s, d>>, <<o, c>>) = <<IF s * c - o * d < 0 THEN -(s * c - o * d) ELSE s * c - o * d, d * c>>
  BY <1>2 DEF Distance
<1> DEFINE x == s * c
           y == o * d
           z == d * c
<1> HIDE DEF x, y, z
<1>4. x \in Nat /\ y \in Nat /\ z \in Nat /\ x <= z /\ y <= z
  BY <1>1 DEF x, y, z
<1>5. Distance(<<s, d>>, <<o, c>>) = <<IF x - y < 0 THEN -(x - y) ELSE x - y, z>>
  BY <1>3 DEF x, y, z
<1> QED BY <1>4, <1>5 DEF AtMost

LEMMA BinsHold ==
  ASSUME NEW s \in Seq(Observation), NEW bins \in Nat \ {0}
  PROVE  Binned(s, CalibrationBins(s, bins), bins)
<1> DEFINE b == CalibrationBins(s, bins)
           D == DOMAIN s
           M(n) == {i \in D : BinOf(s[i].p, bins) = n}
           P(n) == [i \in M(n) |-> s[i].p]
           R(n) == {i \in M(n) : Right(s[i])}
           total(n) == SumFunction(P(n))
           count(n) == Cardinality(M(n))
           right(n) == Cardinality(R(n))
<1>1. /\ DOMAIN b = 0 .. bins - 1
      /\ \A n \in 0 .. bins - 1 :
            /\ b[n].members = M(n) /\ b[n].prediction = Ratio(total(n), Grain * count(n))
            /\ M(n) # {} => b[n].gap = Distance(Ratio(total(n), Grain * count(n)), Ratio(right(n), count(n)))
  BY DEF CalibrationBins
<1>2. Grain \in Nat \ {0} /\ IsFiniteSet(D) /\ \A i \in D : s[i].p \in Nat /\ s[i].p <= Grain
  BY MeasureAssumption, Observed
<1>3. \A i \in D : /\ BinOf(s[i].p, bins) \in 0 .. bins - 1 /\ BinOf(s[i].p, bins) * Grain <= s[i].p * bins
                   /\ s[i].p * bins <= (BinOf(s[i].p, bins) + 1) * Grain
  BY <1>2, BinIs
<1>4. \A i \in D : \E n \in DOMAIN b : /\ i \in b[n].members /\ \A m \in DOMAIN b : i \in b[m].members => m = n
                                       /\ n * Grain <= s[i].p * bins
  <2> SUFFICES ASSUME NEW i \in D
               PROVE  \E n \in 0 .. bins - 1 : /\ i \in M(n) /\ \A m \in 0 .. bins - 1 : i \in M(m) => m = n
                                               /\ n * Grain <= s[i].p * bins
    BY <1>1
  <2>1. BinOf(s[i].p, bins) \in 0 .. bins - 1 /\ i \in M(BinOf(s[i].p, bins))
    BY <1>3
  <2> QED BY <1>3, <2>1
<1>5. ASSUME NEW n \in 0 .. bins - 1, M(n) # {}
      PROVE  /\ AtMost(<<n, bins>>, b[n].prediction) /\ AtMost(b[n].prediction, <<n + 1, bins>>)
             /\ AtMost(b[n].gap, <<1, 1>>)
  <2>1. IsFiniteSet(M(n)) /\ IsFiniteSet(R(n)) /\ right(n) \in Nat /\ count(n) \in Nat \ {0} /\ right(n) <= count(n)
    <3>1. M(n) \subseteq D /\ R(n) \subseteq M(n)
      OBVIOUS
    <3> HIDE DEF M, R
    <3>2. IsFiniteSet(M(n)) /\ IsFiniteSet(R(n)) /\ right(n) <= count(n)
      BY <1>2, <3>1, FS_Subset
    <3> QED BY <1>5, <3>2, FS_CardinalityType, FS_EmptySet
  <2>2. DOMAIN P(n) = M(n) /\ \A i \in M(n) : /\ P(n)[i] \in Nat /\ P(n)[i] \in Int
                                              /\ n * Grain <= bins * P(n)[i] /\ bins * P(n)[i] <= (n + 1) * Grain
                                              /\ 1 * P(n)[i] <= Grain
    <3> SUFFICES ASSUME NEW i \in M(n)
                 PROVE  /\ s[i].p \in Nat /\ n * Grain <= bins * s[i].p /\ bins * s[i].p <= (n + 1) * Grain /\ s[i].p <= Grain
      OBVIOUS
    <3>1. i \in D /\ BinOf(s[i].p, bins) = n
      OBVIOUS
    <3>2. s[i].p * bins = bins * s[i].p
      BY <1>2, <3>1
    <3> QED BY <1>2, <1>3, <3>1, <3>2
  <2> HIDE DEF M, P, R, b
  <2>3. total(n) = Sigma(P(n), M(n)) /\ total(n) \in Nat
    BY <2>1, <2>2, SumIs, SigmaNatural
  <2>4. n * Grain \in Int /\ (n + 1) * Grain \in Int /\ n \in Nat
    BY <1>2
  <2>5. (n * Grain) * count(n) <= bins * total(n) /\ bins * total(n) <= ((n + 1) * Grain) * count(n)
    <3> HIDE DEF total
    <3> QED BY <2>1, <2>2, <2>3, <2>4, SigmaBetween
  <2>6. total(n) <= Grain * count(n)
    <3>0. 0 \in Int /\ Grain \in Int /\ 1 \in Nat
      BY <1>2
    <3>1. \A i \in M(n) : P(n)[i] \in Int /\ 0 <= 1 * P(n)[i] /\ 1 * P(n)[i] <= Grain
      BY <2>2
    <3>2. 1 * Sigma(P(n), M(n)) <= Grain * Cardinality(M(n))
      BY <2>1, <3>0, <3>1, SigmaBetween
    <3> QED BY <2>3, <3>2
  <2> HIDE DEF total, count, right
  <2>7. Grain * count(n) \in Nat \ {0}
    BY <1>2, <2>1, PositiveProduct
  <2>8. b[n].prediction = <<total(n), Grain * count(n)>> /\ b[n].gap = Distance(<<total(n), Grain * count(n)>>, <<right(n), count(n)>>)
    BY <1>1, <1>5, <2>1, <2>7, RatioIs
  <2>9. AtMost(b[n].gap, <<1, 1>>)
    <3> DEFINE d == Grain * count(n)
    <3> HIDE DEF d
    <3>1. AtMost(Distance(<<total(n), d>>, <<right(n), count(n)>>), <<1, 1>>)
      BY <2>1, <2>3, <2>6, <2>7, SharesDiffer DEF d
    <3> QED BY <2>8, <3>1 DEF d
  <2>10. n * (Grain * count(n)) <= total(n) * bins /\ total(n) * bins <= (n + 1) * (Grain * count(n))
    <3>1. \A a, c, e \in Int : (a * c) * e = a * (c * e)
      OBVIOUS
    <3>2. (n * Grain) * count(n) = n * (Grain * count(n)) /\ ((n + 1) * Grain) * count(n) = (n + 1) * (Grain * count(n))
      BY <1>2, <2>1, <2>4, <3>1
    <3>3. bins * total(n) = total(n) * bins
      BY <2>3
    <3> QED BY <2>5, <3>2, <3>3
  <2>11. AtMost(<<n, bins>>, b[n].prediction) /\ AtMost(b[n].prediction, <<n + 1, bins>>)
    BY <2>8, <2>10 DEF AtMost
  <2> QED BY <2>9, <2>11
<1>6. \A n \in DOMAIN b : b[n].members # {} =>
         /\ AtMost(<<n, bins>>, b[n].prediction) /\ AtMost(b[n].prediction, <<n + 1, bins>>)
         /\ AtMost(b[n].gap, <<1, 1>>)
  BY <1>1, <1>5
<1> HIDE DEF M
<1> QED BY <1>4, <1>6 DEF Binned

LEMMA ProbabilitiesBinned == ASSUME sample \in Seq(Observation) PROVE ProbabilitiesAreBinned
<1>1. \A bins \in 1 .. 3 : Binned(sample, CalibrationBins(sample, bins), bins)
  BY BinsHold
<1> QED BY <1>1 DEF ProbabilitiesAreBinned, Binned

(***************************************************************************)
(* Labels: an observation is counted in the row of its truth and the       *)
(* column of its answer, so the counts of the labels add up to the sample. *)
(***************************************************************************)
Count(s, label, said) == Cardinality({i \in DOMAIN s : s[i].truth = label /\ s[i].said = said})
OfTruth(s, l) == {i \in DOMAIN s : s[i].truth = l}
OfAnswer(s, l) == {i \in DOMAIN s : s[i].said = l}

LEMMA SetSize ==
  ASSUME NEW S, IsFiniteSet(S), NEW T, T \subseteq S
  PROVE  IsFiniteSet(T) /\ Cardinality(T) \in Nat /\ Cardinality(T) <= Cardinality(S)
BY FS_Subset, FS_CardinalityType

(* A sum, with one of the summands apart from the others. *)
Apart(S, l, f, g) == l \in S /\ DOMAIN g = S \ {l} /\ \A x \in S : f[x] \in Nat /\ (x # l => g[x] = f[x])

LEMMA SigmaApart ==
  ASSUME NEW S, IsFiniteSet(S), NEW l, NEW f, NEW g, Apart(S, l, f, g)
  PROVE  SumFunction(g) \in Nat /\ Sigma(f, S) = f[l] + SumFunction(g)
<1> DEFINE R == S \ {l}
           a == Sigma(f, R)
           b == Sigma(g, R)
<1>1. IsFiniteSet(R) /\ R \cup {l} = S /\ R \in SUBSET S /\ l \in S \ R
  BY FS_Subset DEF Apart
<1>2. \A x \in S : f[x] \in Int
  BY DEF Apart
<1>3. \A x \in R : f[x] \in Nat /\ g[x] \in Nat /\ f[x] \in Int /\ g[x] \in Int /\ f[x] <= g[x] /\ g[x] <= f[x]
  BY <1>2 DEF Apart
<1>4. SumFunction(g) = b
  BY SumIs DEF Apart
<1> HIDE DEF R
<1>5. Sigma(f, R \cup {l}) = f[l] + a
  BY <1>1, <1>2, SigmaStep
<1>6. a <= b /\ b <= a
  BY <1>1, <1>3, SigmaMonotone
<1>7. a \in Nat /\ b \in Nat
  BY <1>1, <1>3, SigmaNatural
<1> HIDE DEF a, b
<1>8. a = b
  BY <1>6, <1>7
<1> QED BY <1>1, <1>4, <1>5, <1>7, <1>8

LEMMA AnswersAdd ==
  ASSUME NEW s \in Seq(Observation), NEW l \in Labels
  PROVE  /\ LabelMetrics(s, l).tp = Count(s, l, l)
         /\ LabelMetrics(s, l).tp \in Nat /\ LabelMetrics(s, l).fp \in Nat /\ LabelMetrics(s, l).fn \in Nat
         /\ LabelMetrics(s, l).tp + LabelMetrics(s, l).fn = Cardinality(OfTruth(s, l))
         /\ LabelMetrics(s, l).tp + LabelMetrics(s, l).fp = Cardinality(OfAnswer(s, l))
<1> DEFINE D == DOMAIN s
           A == Labels \cup {Foreign}
           out == [said \in A |-> Count(s, l, said)]
           into == [other \in Labels |-> Count(s, other, l)]
           said == [i \in D |-> s[i].said]
           truth == [i \in D |-> s[i].truth]
           fn == [a \in (Labels \ {l}) \cup {Foreign} |-> Count(s, l, a)]
           fp == [o \in Labels \ {l} |-> Count(s, o, l)]
<1>1. IsFiniteSet(D) /\ \A i \in D : s[i].truth \in Labels /\ s[i].said \in A
  BY Observed
<1>2. IsFiniteSet(Labels) /\ IsFiniteSet(A) /\ Foreign \notin Labels
  BY MeasureAssumption, FS_AddElement
<1>3. \A a, b : Count(s, a, b) \in Nat /\ Count(s, a, b) \in Int
  BY <1>1, SetSize DEF Count
<1>4. LabelMetrics(s, l).tp = Count(s, l, l) /\ LabelMetrics(s, l).fp = SumFunction(fp) /\ LabelMetrics(s, l).fn = SumFunction(fn)
  BY DEF LabelMetrics, Confusion, Prf, NumberOf, Count
<1>5. Sigma(out, A) = Cardinality(OfTruth(s, l))
  <2>1. IsFiniteSet(OfTruth(s, l))
    BY <1>1, SetSize DEF OfTruth
  <2>2. \A i \in OfTruth(s, l) : said[i] \in A
    BY <1>1 DEF OfTruth
  <2>3. \A a \in A : out[a] = Cardinality(Fiber(OfTruth(s, l), said, a))
    <3> SUFFICES ASSUME NEW a \in A PROVE {i \in D : s[i].truth = l /\ s[i].said = a} = Fiber(OfTruth(s, l), said, a)
      BY DEF Count
    <3> QED BY DEF Fiber, OfTruth
  <2> HIDE DEF A, out, said
  <2> QED BY <1>2, <2>1, <2>2, <2>3, CountBy
<1>6. Sigma(into, Labels) = Cardinality(OfAnswer(s, l))
  <2>1. IsFiniteSet(OfAnswer(s, l))
    BY <1>1, SetSize DEF OfAnswer
  <2>2. \A i \in OfAnswer(s, l) : truth[i] \in Labels
    BY <1>1 DEF OfAnswer
  <2>3. \A a \in Labels : into[a] = Cardinality(Fiber(OfAnswer(s, l), truth, a))
    <3> SUFFICES ASSUME NEW a \in Labels PROVE {i \in D : s[i].truth = a /\ s[i].said = l} = Fiber(OfAnswer(s, l), truth, a)
      BY DEF Count
    <3> QED BY DEF Fiber, OfAnswer
  <2> HIDE DEF into, truth
  <2> QED BY <1>2, <2>1, <2>2, <2>3, CountBy
<1>8. SumFunction(fn) \in Nat /\ Sigma(out, A) = Count(s, l, l) + SumFunction(fn)
  <2>1. l \in A /\ (Labels \ {l}) \cup {Foreign} = A \ {l} /\ out[l] = Count(s, l, l)
    BY <1>2
  <2>2. DOMAIN fn = A \ {l} /\ (\A x \in A : out[x] \in Nat) /\ \A x \in A \ {l} : fn[x] = out[x]
    BY <1>3, <2>1
  <2> HIDE DEF A, fn, out
  <2>3. SumFunction(fn) \in Nat /\ Sigma(out, A) = out[l] + SumFunction(fn)
    <3>1. Apart(A, l, out, fn)
      BY <2>1, <2>2 DEF Apart
    <3> QED BY <1>2, <3>1, SigmaApart
  <2> QED BY <2>1, <2>3
<1>9. SumFunction(fp) \in Nat /\ Sigma(into, Labels) = Count(s, l, l) + SumFunction(fp)
  <2>1. into[l] = Count(s, l, l) /\ DOMAIN fp = Labels \ {l} /\ (\A x \in Labels : into[x] \in Nat) /\ \A x \in Labels \ {l} : fp[x] = into[x]
    BY <1>3
  <2> HIDE DEF fp, into
  <2>2. SumFunction(fp) \in Nat /\ Sigma(into, Labels) = into[l] + SumFunction(fp)
    <3>1. Apart(Labels, l, into, fp)
      BY <2>1 DEF Apart
    <3> QED BY <1>2, <3>1, SigmaApart
  <2> QED BY <2>1, <2>2
<1> HIDE DEF fn, fp, out, into, A
<1> QED BY <1>3, <1>4, <1>5, <1>6, <1>8, <1>9

(* Numerators and denominators of the harmonic mean of precision and recall. *)
LEMMA HarmonicMean ==
  ASSUME NEW tp \in Nat \ {0}, NEW fp \in Nat, NEW fn \in Nat
  PROVE  Same(Ratio(2 * tp, 2 * tp + fp + fn), Ratio(2 * tp * tp, tp * (tp + fn) + tp * (tp + fp)))
<1> DEFINE d == 2 * tp + fp + fn
<1>1. d \in Nat \ {0}
  OBVIOUS
<1>2. tp * (tp + fn) + tp * (tp + fp) = tp * d
  <2>1. \A a, b, c \in Nat : a * (a + c) + a * (a + b) = a * (2 * a + b + c)
    OBVIOUS
  <2> QED BY <2>1
<1> HIDE DEF d
<1>3. tp * d \in Nat \ {0}
  BY <1>1, PositiveProduct
<1>4. (2 * tp) * (tp * d) = (2 * tp * tp) * d
  <2>1. \A a, b \in Nat : (2 * a) * (a * b) = (2 * a * a) * b
    OBVIOUS
  <2> QED BY <1>1, <2>1
<1>5. Ratio(2 * tp, d) = <<2 * tp, d>> /\ Ratio(2 * tp * tp, tp * d) = <<2 * tp * tp, tp * d>>
  BY <1>1, <1>3, RatioIs
<1>6. \A x, y : y # 0 => <<x, y>> # NotAvailable
  BY DEF NotAvailable
<1>7. Same(Ratio(2 * tp, d), Ratio(2 * tp * tp, tp * d))
  BY <1>1, <1>3, <1>4, <1>5, <1>6 DEF Same
<1> QED BY <1>2, <1>7 DEF d

LEMMA LabelsAdd == ASSUME sample \in Seq(Observation) PROVE LabelsAddUp
<1> DEFINE D == DOMAIN sample
           m == ClassMetrics(sample)
           tp == [l \in Labels |-> LabelMetrics(sample, l).tp]
           fp == [l \in Labels |-> LabelMetrics(sample, l).fp]
           fn == [l \in Labels |-> LabelMetrics(sample, l).fn]
           of == [l \in Labels |-> LabelMetrics(sample, l)]
           right == {i \in D : Right(sample[i])}
           known == {i \in D : sample[i].said \in Labels}
           foreign == {i \in D : sample[i].said = Foreign}
           truth == [i \in D |-> sample[i].truth]
           said == [i \in D |-> sample[i].said]
           truths == [l \in Labels |-> Cardinality(OfTruth(sample, l))]
           answers == [l \in Labels |-> Cardinality(OfAnswer(sample, l))]
<1>1. IsFiniteSet(Labels) /\ Foreign \notin Labels
  BY MeasureAssumption
<1>2. Len(sample) \in Nat /\ IsFiniteSet(D) /\ Cardinality(D) = Len(sample)
      /\ \A i \in D : sample[i].truth \in Labels /\ sample[i].said \in Labels \cup {Foreign}
  BY Observed
<1>3. \A l \in Labels : /\ of[l] = LabelMetrics(sample, l)
                        /\ tp[l] = Count(sample, l, l) /\ tp[l] \in Nat /\ fp[l] \in Nat /\ fn[l] \in Nat
                        /\ truths[l] = tp[l] + fn[l] /\ answers[l] = tp[l] + fp[l]
                        /\ of[l].tp = tp[l] /\ of[l].fp = fp[l] /\ of[l].fn = fn[l]
  BY AnswersAdd
<1>4. /\ m.of = of /\ m.micro.tp = SumFunction(tp) /\ m.micro.fp = SumFunction(fp) /\ m.micro.fn = SumFunction(fn)
      /\ m.accuracy = Ratio(SumFunction(tp), Len(sample)) /\ m.foreign = Cardinality(foreign)
      /\ m.eligible = {l \in Labels : of[l].tp + of[l].fn > 0}
  BY DEF ClassMetrics, Prf, NumberOf
<1>5. DOMAIN tp = Labels /\ DOMAIN fp = Labels /\ DOMAIN fn = Labels
  OBVIOUS
<1>6. SumFunction(tp) = Cardinality(right)
  <2>1. IsFiniteSet(right)
    BY <1>2, SetSize
  <2>2. \A i \in right : truth[i] \in Labels
    BY <1>2
  <2>3. \A l \in Labels : tp[l] = Cardinality(Fiber(right, truth, l))
    <3> SUFFICES ASSUME NEW l \in Labels PROVE {i \in D : sample[i].truth = l /\ sample[i].said = l} = Fiber(right, truth, l)
      BY <1>3 DEF Count
    <3> QED BY DEF Fiber, Right
  <2> HIDE DEF tp, right, truth
  <2> QED BY <1>1, <1>5, <2>1, <2>2, <2>3, CountBy, SumIs
<1>7. Sigma(truths, Labels) = Cardinality(D)
  <2>1. \A i \in D : truth[i] \in Labels
    BY <1>2
  <2>2. \A l \in Labels : truths[l] = Cardinality(Fiber(D, truth, l))
    BY DEF Fiber, OfTruth
  <2> HIDE DEF truths, truth, D
  <2> QED BY <1>1, <1>2, <2>1, <2>2, CountBy
<1>8. Sigma(answers, Labels) = Cardinality(known)
  <2>1. \A i \in known : said[i] \in Labels
    OBVIOUS
  <2>2. \A l \in Labels : answers[l] = Cardinality(Fiber(known, said, l))
    BY DEF Fiber, OfAnswer
  <2>3. IsFiniteSet(known)
    BY <1>2, SetSize
  <2> HIDE DEF answers, said, known
  <2> QED BY <1>1, <2>1, <2>2, <2>3, CountBy
<1>9. Cardinality(D) = Cardinality(known) + Cardinality(foreign)
  <2>1. known \cup foreign = D /\ known \cap foreign = {}
    BY <1>1, <1>2
  <2>2. IsFiniteSet(known) /\ IsFiniteSet(foreign)
    BY <1>2, SetSize
  <2>3. Cardinality({}) = 0 /\ Cardinality(known) \in Nat /\ Cardinality(foreign) \in Nat
    BY <2>2, FS_EmptySet, FS_CardinalityType
  <2> HIDE DEF known, foreign, D
  <2>4. Cardinality(known \cup foreign) = Cardinality(known) + Cardinality(foreign) - Cardinality(known \cap foreign)
    BY <2>2, FS_Union
  <2> DEFINE a == Cardinality(known)
             b == Cardinality(foreign)
  <2>5. Cardinality(D) = a + b - 0 /\ a \in Nat /\ b \in Nat
    BY <2>1, <2>3, <2>4
  <2> HIDE DEF a, b
  <2>6. Cardinality(D) = a + b
    BY <2>5
  <2> QED BY <2>6 DEF a, b
<1>10. Cardinality(foreign) \in Nat /\ Cardinality(known) \in Nat
  BY <1>2, SetSize
<1> HIDE DEF tp, fp, fn, truths, answers, truth, said, known, foreign, D, right
<1>11. Sigma(truths, Labels) = SumFunction(tp) + SumFunction(fn) /\ Sigma(answers, Labels) = SumFunction(tp) + SumFunction(fp)
       /\ SumFunction(tp) \in Nat /\ SumFunction(fp) \in Nat /\ SumFunction(fn) \in Nat
  <2>1. SumFunction(tp) = Sigma(tp, Labels) /\ SumFunction(fp) = Sigma(fp, Labels) /\ SumFunction(fn) = Sigma(fn, Labels)
    BY <1>5, SumIs
  <2>2. \A l \in Labels : tp[l] \in Int /\ fp[l] \in Int /\ fn[l] \in Int
    BY <1>3
  <2>3. Sigma(truths, Labels) = Sigma(tp, Labels) + Sigma(fn, Labels)
    BY <1>1, <1>3, <2>2, SigmaOfSum
  <2>4. Sigma(answers, Labels) = Sigma(tp, Labels) + Sigma(fp, Labels)
    BY <1>1, <1>3, <2>2, SigmaOfSum
  <2>5. Sigma(tp, Labels) \in Nat /\ Sigma(fp, Labels) \in Nat /\ Sigma(fn, Labels) \in Nat
    BY <1>1, <1>3, SigmaNatural
  <2> QED BY <2>1, <2>3, <2>4, <2>5
<1>12. m.micro.tp + m.micro.fn = Len(sample) /\ m.micro.fn = m.micro.fp + m.foreign
  <2> DEFINE a == SumFunction(tp)
             b == SumFunction(fp)
             c == SumFunction(fn)
             k == Cardinality(known)
             f == Cardinality(foreign)
  <2>1. /\ a \in Nat /\ b \in Nat /\ c \in Nat /\ k \in Nat /\ f \in Nat
        /\ a + c = Len(sample) /\ a + b = k /\ Len(sample) = k + f
    BY <1>2, <1>7, <1>8, <1>9, <1>10, <1>11
  <2>2. m.micro.tp = a /\ m.micro.fp = b /\ m.micro.fn = c /\ m.foreign = f
    BY <1>4
  <2> HIDE DEF a, b, c, k, f, m
  <2>3. c = b + f
    BY <2>1
  <2> QED BY <2>1, <2>2, <2>3
<1>13. Same(m.accuracy, Ratio(Successes(sample), Len(sample)))
  <2>1. Successes(sample) = Cardinality(right)
    BY DEF Successes, NumberOf, right, D
  <2>2. m.accuracy = Ratio(Successes(sample), Len(sample))
    BY <1>4, <1>6, <2>1
  <2>3. \A x : Same(x, x)
    BY DEF Same
  <2> QED BY <2>2, <2>3
<1>14. ASSUME NEW l \in m.eligible, m.of[l].precision # NotAvailable, m.of[l].tp # 0
       PROVE  LET a == m.of[l].precision
                  b == m.of[l].recall
              IN  Same(m.of[l].f1, Ratio(2 * a[1] * b[1], a[1] * b[2] + b[1] * a[2]))
  <2> DEFINE x == m.of[l].tp
             y == m.of[l].fp
             z == m.of[l].fn
  <2>1. l \in Labels /\ m.of[l] = LabelMetrics(sample, l) /\ x \in Nat /\ y \in Nat /\ z \in Nat
    <3> HIDE DEF m, of
    <3> QED BY <1>3, <1>4
  <2>2. m.of[l].precision = Ratio(x, x + y) /\ m.of[l].recall = Ratio(x, x + z) /\ m.of[l].f1 = Ratio(2 * x, 2 * x + y + z)
    <3> HIDE DEF m
    <3> QED BY <2>1 DEF LabelMetrics, Prf
  <2> HIDE DEF m, x, y, z
  <2>3. x # 0 /\ x + y # 0 /\ x + z # 0
    BY <1>14, <2>1 DEF x
  <2>4. m.of[l].precision = <<x, x + y>> /\ m.of[l].recall = <<x, x + z>>
    BY <2>2, <2>3, RatioIs
  <2>5. Same(Ratio(2 * x, 2 * x + y + z), Ratio(2 * x * x, x * (x + z) + x * (x + y)))
    BY <2>1, <2>3, HarmonicMean
  <2> QED BY <2>2, <2>4, <2>5
<1> HIDE DEF m
<1> QED BY <1>12, <1>13, <1>14 DEF LabelsAddUp, m

(***************************************************************************)
(* Draws: pass@k is the share of the draws of k observations that hold a   *)
(* right one.  The binomial coefficient counts them by the rule of Pascal: *)
(* the draws from one element more are those with it and those without.    *)
(***************************************************************************)
Factors(f, n) == f = [k \in 0 .. n |-> IF k = 0 THEN 1 ELSE k * f[k - 1]]

LEMMA FactorialSteps ==
  /\ factorial[0] = 1
  /\ \A n \in Nat : factorial[n] \in Nat \ {0} /\ factorial[n + 1] = (n + 1) * factorial[n]
<1> DEFINE Body(f, k) == IF k = 0 THEN 1 ELSE k * f[k - 1]
           upTo == [n \in Nat |-> CHOOSE f : Factors(f, n)]
           all == [n \in Nat |-> upTo[n][n]]
<1>1. \A n \in Nat : \E f : Factors(f, n)
  <2> DEFINE N == {n \in Nat : \E f : Factors(f, n)}
  <2>1. 0 \in N
    <3>1. Factors([k \in 0 .. 0 |-> 1], 0)
      BY DEF Factors
    <3> QED BY <3>1
  <2>2. ASSUME NEW n \in Nat, n \in N PROVE n + 1 \in N
    <3>1. PICK f : Factors(f, n)
      BY <2>2
    <3> DEFINE up == [k \in 0 .. n + 1 |-> Body(f, k)]
    <3>2. ASSUME NEW k \in 0 .. n + 1 PROVE up[k] = Body(up, k)
      <4>1. CASE k = 0
        BY <4>1
      <4>2. CASE k # 0
        <5>1. k - 1 \in 0 .. n /\ k - 1 \in 0 .. n + 1
          BY <4>2
        <5>2. up[k - 1] = Body(f, k - 1) /\ f[k - 1] = Body(f, k - 1)
          BY <3>1, <5>1 DEF Factors
        <5> HIDE DEF up
        <5>3. Body(f, k) = Body(up, k)
          BY <4>2, <5>2
        <5> QED BY <5>3 DEF up
      <4> QED BY <4>1, <4>2
    <3>3. up = [k \in 0 .. n + 1 |-> Body(up, k)]
      <4> HIDE DEF Body
      <4> QED BY <3>2
    <3>4. \E new : new = [k \in 0 .. n + 1 |-> Body(new, k)]
      <4> HIDE DEF up, Body
      <4> QED BY <3>3
    <3> QED BY <3>4 DEF Factors
  <2>3. Nat \subseteq N
    <3> HIDE DEF N
    <3> QED BY <2>1, <2>2, NatSet
  <2> QED BY <2>3
<1>2. \A n \in Nat : Factors(upTo[n], n)
  BY <1>1
<1> HIDE DEF upTo
<1>3. \A n \in Nat : upTo[n][0] = 1 /\ \A k \in 0 .. n : k # 0 => upTo[n][k] = k * upTo[n][k - 1]
  <2> SUFFICES ASSUME NEW n \in Nat PROVE upTo[n][0] = 1 /\ \A k \in 0 .. n : k # 0 => upTo[n][k] = k * upTo[n][k - 1]
    OBVIOUS
  <2> DEFINE f == upTo[n]
  <2>1. f = [k \in 0 .. n |-> IF k = 0 THEN 1 ELSE k * f[k - 1]]
    BY <1>2 DEF Factors
  <2> HIDE DEF f
  <2>2. f[0] = 1 /\ \A k \in 0 .. n : k # 0 => f[k] = k * f[k - 1]
    <3>1. 0 \in 0 .. n
      OBVIOUS
    <3> QED BY <2>1, <3>1
  <2> QED BY <2>2 DEF f
<1>4. ASSUME NEW n \in Nat PROVE \A k \in 0 .. n : upTo[n + 1][k] = upTo[n][k]
  <2> DEFINE N == {k \in Nat : k <= n => upTo[n + 1][k] = upTo[n][k]}
  <2>1. 0 \in N
    BY <1>3
  <2>2. ASSUME NEW k \in Nat, k \in N PROVE k + 1 \in N
    <3> SUFFICES ASSUME k + 1 <= n PROVE upTo[n + 1][k + 1] = upTo[n][k + 1]
      OBVIOUS
    <3>1. k + 1 \in 0 .. n /\ k + 1 \in 0 .. n + 1 /\ k + 1 # 0 /\ (k + 1) - 1 = k /\ upTo[n + 1][k] = upTo[n][k]
      BY <2>2
    <3>2. n \in Nat /\ n + 1 \in Nat
      OBVIOUS
    <3> QED BY <1>3, <3>1, <3>2
  <2>3. Nat \subseteq N
    <3> HIDE DEF N
    <3> QED BY <2>1, <2>2, NatSet
  <2> QED BY <2>3
<1>5. all[0] = 1 /\ \A n \in Nat : all[n + 1] = (n + 1) * all[n]
  <2> SUFFICES ASSUME NEW n \in Nat PROVE upTo[n + 1][n + 1] = (n + 1) * upTo[n][n]
    BY <1>3
  <2>1. n + 1 \in Nat /\ n + 1 \in 0 .. n + 1 /\ n + 1 # 0 /\ (n + 1) - 1 = n /\ n \in 0 .. n
    OBVIOUS
  <2>2. upTo[n + 1][n + 1] = (n + 1) * upTo[n + 1][n]
    BY <1>3, <2>1
  <2> QED BY <1>4, <2>1, <2>2
<1>6. all = [n \in Nat |-> IF n = 0 THEN 1 ELSE n * all[n - 1]]
  <2> SUFFICES ASSUME NEW n \in Nat PROVE all[n] = IF n = 0 THEN 1 ELSE n * all[n - 1]
    BY DEF all
  <2>1. CASE n = 0
    BY <1>5, <2>1
  <2>2. CASE n # 0
    <3>1. n - 1 \in Nat /\ (n - 1) + 1 = n
      BY <2>2
    <3> HIDE DEF all
    <3> QED BY <1>5, <2>2, <3>1
  <2> QED BY <2>1, <2>2
<1>7. factorial = [n \in Nat |-> IF n = 0 THEN 1 ELSE n * factorial[n - 1]]
  <2> HIDE DEF all
  <2> QED BY <1>6 DEF factorial
<1>8. factorial[0] = 1 /\ \A n \in Nat : factorial[n + 1] = (n + 1) * factorial[n]
  <2> SUFFICES ASSUME NEW n \in Nat PROVE factorial[0] = 1 /\ factorial[n + 1] = (n + 1) * factorial[n]
    OBVIOUS
  <2>1. n + 1 \in Nat /\ n + 1 # 0 /\ (n + 1) - 1 = n /\ 0 \in Nat
    OBVIOUS
  <2> QED BY <1>7, <2>1
<1> DEFINE P == {n \in Nat : factorial[n] \in Nat \ {0}}
<1>9. 0 \in P
  BY <1>8
<1>10. ASSUME NEW n \in Nat, n \in P PROVE n + 1 \in P
  <2>1. factorial[n] \in Nat \ {0} /\ n + 1 \in Nat \ {0}
    BY <1>10
  <2>2. (n + 1) * factorial[n] \in Nat \ {0}
    BY <2>1, PositiveProduct
  <2> QED BY <1>8, <2>2
<1>11. Nat \subseteq P
  <2> HIDE DEF P
  <2> QED BY <1>9, <1>10, NatSet
<1> QED BY <1>8, <1>11

Draws(S, k) == {g \in SUBSET S : Cardinality(g) = k}

LEMMA DrawsFinite ==
  ASSUME NEW S, IsFiniteSet(S), NEW k
  PROVE  IsFiniteSet(Draws(S, k)) /\ Cardinality(Draws(S, k)) \in Nat
<1>1. IsFiniteSet(SUBSET S)
  BY FS_SUBSET
<1> QED BY <1>1, SetSize DEF Draws

(* with x or without it *)
LEMMA DrawsStep ==
  ASSUME NEW S, IsFiniteSet(S), NEW x, x \notin S, NEW k \in Nat
  PROVE  Cardinality(Draws(S \cup {x}, k + 1)) = Cardinality(Draws(S, k + 1)) + Cardinality(Draws(S, k))
<1> DEFINE without == Draws(S, k + 1)
           with == {g \in Draws(S \cup {x}, k + 1) : x \in g}
           f == [g \in Draws(S, k) |-> g \cup {x}]
<1>0. \A g \in SUBSET (S \cup {x}) : IsFiniteSet(g) /\ Cardinality(g) \in Nat
  BY FS_AddElement, SetSize
<1>1. \A g \in Draws(S, k) : f[g] \in with
  <2> SUFFICES ASSUME NEW g \in Draws(S, k) PROVE g \cup {x} \in with
    OBVIOUS
  <2>1. g \in SUBSET S /\ Cardinality(g) = k /\ x \notin g
    BY DEF Draws
  <2>2. Cardinality(g \cup {x}) = k + 1
    BY <1>0, <2>1, FS_AddElement
  <2> QED BY <2>1, <2>2 DEF Draws
<1>2. \A g, h \in Draws(S, k) : f[g] = f[h] => g = h
  BY DEF Draws
<1>3. \A h \in with : \E g \in Draws(S, k) : f[g] = h
  <2> SUFFICES ASSUME NEW h \in with PROVE h \ {x} \in Draws(S, k) /\ (h \ {x}) \cup {x} = h
    OBVIOUS
  <2>1. h \in SUBSET (S \cup {x}) /\ Cardinality(h) = k + 1 /\ x \in h
    BY DEF Draws
  <2>2. Cardinality(h \ {x}) = Cardinality(h) - 1
    BY <1>0, <2>1, FS_RemoveElement
  <2>3. Cardinality(h \ {x}) = k
    BY <2>1, <2>2
  <2> QED BY <2>1, <2>3 DEF Draws
<1>4. f \in Bijection(Draws(S, k), with)
  <2> HIDE DEF with
  <2> QED BY <1>1, <1>2, <1>3 DEF Bijection, Injection, Surjection, IsInjective
<1>5. IsFiniteSet(Draws(S, k)) /\ IsFiniteSet(without) /\ IsFiniteSet(with) /\ Cardinality(without) \in Nat /\ Cardinality(Draws(S, k)) \in Nat
  <2>1. IsFiniteSet(Draws(S \cup {x}, k + 1))
    BY FS_AddElement, DrawsFinite
  <2> QED BY <2>1, DrawsFinite, SetSize
<1>6. Cardinality(with) = Cardinality(Draws(S, k))
  <2> HIDE DEF with, f
  <2> QED BY <1>4, <1>5, FS_Bijection DEF ExistsBijection
<1>7. Draws(S \cup {x}, k + 1) = without \cup with /\ without \cap with = {}
  BY DEF Draws
<1> HIDE DEF with, without
<1>8. Cardinality(without \cup with) = Cardinality(without) + Cardinality(with) - Cardinality({})
  BY <1>5, <1>7, FS_Union
<1> DEFINE a == Cardinality(without)
           b == Cardinality(Draws(S, k))
<1>9. Cardinality(without \cup with) = a + b - 0 /\ a \in Nat /\ b \in Nat
  BY <1>5, <1>6, <1>8, FS_EmptySet
<1> HIDE DEF a, b
<1>10. Cardinality(without \cup with) = a + b
  BY <1>9
<1> QED BY <1>7, <1>10 DEF a, b, without

LEMMA DrawsAtTheEnds ==
  ASSUME NEW S, IsFiniteSet(S)
  PROVE  /\ Cardinality(Draws(S, 0)) = 1 /\ Cardinality(Draws(S, Cardinality(S))) = 1
         /\ \A k \in Nat : k > Cardinality(S) => Draws(S, k) = {}
<1>1. \A g \in SUBSET S : IsFiniteSet(g) /\ Cardinality(g) \in Nat /\ Cardinality(g) <= Cardinality(S)
                          /\ (Cardinality(S) = Cardinality(g) => S = g) /\ (Cardinality(g) = 0 <=> g = {})
  BY FS_Subset, FS_CardinalityType, FS_EmptySet
<1>2. Draws(S, 0) = {{}}
  <2>1. \A g \in SUBSET S : Cardinality(g) = 0 <=> g = {}
    BY <1>1
  <2> QED BY <2>1 DEF Draws
<1>3. Draws(S, Cardinality(S)) = {S}
  <2>1. \A g \in SUBSET S : Cardinality(g) = Cardinality(S) <=> g = S
    BY <1>1
  <2> QED BY <2>1 DEF Draws
<1>4. ASSUME NEW k \in Nat, k > Cardinality(S) PROVE Draws(S, k) = {}
  <2>1. Cardinality(S) \in Nat
    BY FS_CardinalityType
  <2>2. \A g \in SUBSET S : Cardinality(g) # k
    BY <1>1, <1>4, <2>1
  <2> QED BY <2>2 DEF Draws
<1> QED BY <1>2, <1>3, <1>4, FS_Singleton

(* how many draws of k there are, as Combinatorics!choose counts them *)
LEMMA DrawsCount ==
  ASSUME NEW S, IsFiniteSet(S), NEW k \in 0 .. Cardinality(S)
  PROVE  Cardinality(Draws(S, k)) * (factorial[k] * factorial[Cardinality(S) - k]) = factorial[Cardinality(S)]
<1> DEFINE N(T, j) == Cardinality(Draws(T, j))
           n(T) == Cardinality(T)
           G == {T \in SUBSET S : \A j \in 0 .. n(T) : N(T, j) * (factorial[j] * factorial[n(T) - j]) = factorial[n(T)]}
<1>1. \A T \in SUBSET S : IsFiniteSet(T) /\ n(T) \in Nat
  BY SetSize
<1>2. {} \in G
  <2>1. n({}) = 0
    BY FS_EmptySet
  <2>2. N({}, 0) = 1
    BY DrawsAtTheEnds, FS_EmptySet
  <2>3. \A j \in 0 .. 0 : j = 0
    OBVIOUS
  <2>4. N({}, 0) * (factorial[0] * factorial[0 - 0]) = factorial[0]
    <3> HIDE DEF N
    <3> QED BY <2>2, FactorialSteps
  <2> HIDE DEF N, n
  <2> QED BY <2>1, <2>3, <2>4
<1>3. ASSUME NEW T \in SUBSET S, NEW x \in S \ T, T \in G PROVE T \cup {x} \in G
  <2> DEFINE m == n(T)
             U == T \cup {x}
  <2>1. IsFiniteSet(T) /\ m \in Nat /\ IsFiniteSet(U) /\ n(U) = m + 1
    BY <1>1, FS_AddElement
  <2>2. \A j \in 0 .. m : N(T, j) * (factorial[j] * factorial[m - j]) = factorial[m]
    BY <1>3
  <2>3. ASSUME NEW j \in 0 .. m + 1 PROVE N(U, j) * (factorial[j] * factorial[(m + 1) - j]) = factorial[m + 1]
    <3> DEFINE F(i) == factorial[i]
    <3>0. F(m + 1) \in Nat
      BY <2>1, FactorialSteps
    <3>1. CASE j = 0
      <4>1. N(U, 0) = 1
        BY <2>1, DrawsAtTheEnds
      <4>2. F(0) = 1 /\ (m + 1) - 0 = m + 1
        BY <2>1, FactorialSteps
      <4> HIDE DEF N, F, m, U
      <4>3. N(U, 0) * (F(0) * F((m + 1) - 0)) = F(m + 1)
        BY <3>0, <4>1, <4>2
      <4> QED BY <3>1, <4>3 DEF F
    <3>2. CASE j = m + 1
      <4>1. N(U, m + 1) = 1
        BY <2>1, DrawsAtTheEnds
      <4>2. F(0) = 1 /\ (m + 1) - (m + 1) = 0
        BY <2>1, FactorialSteps
      <4> HIDE DEF N, F, m, U
      <4>3. N(U, m + 1) * (F(m + 1) * F((m + 1) - (m + 1))) = F(m + 1)
        BY <3>0, <4>1, <4>2
      <4> QED BY <3>2, <4>3 DEF F
    <3>3. CASE j # 0 /\ j # m + 1
      <4> DEFINE i == j - 1
                 r == m - j
                 a == N(T, j)
                 b == N(T, i)
      <4>1. i \in Nat /\ r \in Nat /\ i + 1 = j /\ (m + 1) - j = r + 1 /\ m - i = r + 1 /\ m + 1 = (i + 1) + (r + 1)
            /\ i \in 0 .. m /\ j \in 0 .. m /\ r = m - j
        BY <2>1, <3>3
      <4>2. x \notin T /\ N(U, i + 1) = N(T, i + 1) + N(T, i)
        BY <2>1, <4>1, DrawsStep
      <4>3. a \in Nat /\ b \in Nat
        BY <2>1, DrawsFinite
      <4>4. a * (F(j) * F(r)) = F(m) /\ b * (F(i) * F(r + 1)) = F(m)
        <5> HIDE DEF N, m
        <5>1. a * (F(j) * F(m - j)) = F(m) /\ b * (F(i) * F(m - i)) = F(m)
          BY <2>2, <4>1
        <5> QED BY <4>1, <5>1
      <4> HIDE DEF i, r
      <4>5. F(m + 1) = (m + 1) * F(m) /\ F(i + 1) = (i + 1) * F(i) /\ F(r + 1) = (r + 1) * F(r)
            /\ F(m) \in Nat /\ F(i) \in Nat /\ F(r) \in Nat
        BY <2>1, <4>1, FactorialSteps
      <4>6. N(U, j) = a + b
        BY <4>1, <4>2
      <4> HIDE DEF a, b, F, N, m, U
      <4>8. (a + b) * (F(j) * F(r + 1)) = F(m + 1)
        <5> DEFINE A == F(i)
                   B == F(r)
                   M == F(m)
        <5>1. A \in Nat /\ B \in Nat /\ M \in Nat /\ F(j) = (i + 1) * A /\ F(r + 1) = (r + 1) * B
              /\ F(m + 1) = ((i + 1) + (r + 1)) * M
              /\ a * (((i + 1) * A) * B) = M /\ b * (A * ((r + 1) * B)) = M
          BY <4>1, <4>4, <4>5
        <5> HIDE DEF A, B, M
        <5>2. \A p, q, u, v, w, z \in Nat :
                (p + q) * ((u * v) * (z * w)) = z * (p * ((u * v) * w)) + u * (q * (v * (z * w)))
          OBVIOUS
        <5>3. (a + b) * (((i + 1) * A) * ((r + 1) * B))
                = (r + 1) * (a * (((i + 1) * A) * B)) + (i + 1) * (b * (A * ((r + 1) * B)))
          BY <4>1, <4>3, <5>1, <5>2
        <5>4. (r + 1) * M + (i + 1) * M = ((i + 1) + (r + 1)) * M
          BY <4>1, <5>1
        <5> QED BY <5>1, <5>3, <5>4
      <4> QED BY <4>1, <4>6, <4>8 DEF F
    <3> QED BY <3>1, <3>2, <3>3
  <2> HIDE DEF N, m
  <2>4. n(U) = m + 1
    BY <2>1
  <2> HIDE DEF n, U
  <2>5. \A j \in 0 .. n(U) : N(U, j) * (factorial[j] * factorial[n(U) - j]) = factorial[n(U)]
    BY <2>3, <2>4
  <2> QED BY <2>5 DEF U
<1>4. S \in G
  <2>1. S \in SUBSET S
    OBVIOUS
  <2> HIDE DEF G
  <2> QED BY <1>2, <1>3, <2>1, FiniteSubsets
<1> HIDE DEF N
<1>5. N(S, k) * (factorial[k] * factorial[n(S) - k]) = factorial[n(S)]
  BY <1>4
<1> QED BY <1>5 DEF N

LEMMA ExactQuotient == ASSUME NEW q \in Nat, NEW d \in Nat \ {0} PROVE (q * d) \div d = q
OBVIOUS

LEMMA WaysCount ==
  ASSUME NEW S, IsFiniteSet(S), NEW k \in Nat
  PROVE  Cardinality(Draws(S, k)) = Ways(Cardinality(S), k)
<1> DEFINE n == Cardinality(S)
           d == factorial[k] * factorial[n - k]
           c == Cardinality(Draws(S, k))
<1>1. n \in Nat /\ c \in Nat
  BY FS_CardinalityType, DrawsFinite
<1>2. CASE k > n
  <2>1. Draws(S, k) = {}
    BY <1>2, DrawsAtTheEnds
  <2> QED BY <1>2, <2>1, FS_EmptySet DEF Ways
<1>3. CASE ~(k > n)
  <2>1. k \in 0 .. n /\ n - k \in Nat
    BY <1>1, <1>3
  <2>2. c * d = factorial[n]
    BY <2>1, DrawsCount
  <2>3. d \in Nat \ {0}
    <3>1. factorial[k] \in Nat \ {0} /\ factorial[n - k] \in Nat \ {0}
      BY <2>1, FactorialSteps
    <3> QED BY <3>1, PositiveProduct
  <2>4. Ways(n, k) = factorial[n] \div d
    BY <1>3 DEF Ways, choose
  <2> HIDE DEF c, d, n
  <2>5. (c * d) \div d = c
    BY <1>1, <2>3, ExactQuotient
  <2> QED BY <2>2, <2>4, <2>5 DEF c, n
<1> QED BY <1>2, <1>3

(***************************************************************************)
(* Repeatability: the pairs of observations that agree.                    *)
(***************************************************************************)
(* what of n draws is left *)
LEMMA SameShare ==
  ASSUME NEW a \in Nat, NEW all \in Nat \ {0}, NEW rest \in Nat, a + rest = all
  PROVE  Same(Minus(<<1, 1>>, Ratio(rest, all)), Ratio(a, all))
<1>1. Minus(<<1, 1>>, Ratio(rest, all)) = <<1 * all - rest * 1, 1 * all>> /\ Ratio(a, all) = <<a, all>>
  BY RatioIs DEF Minus
<1>2. Minus(<<1, 1>>, Ratio(rest, all)) = <<a, all>>
  BY <1>1
<1> QED BY <1>1, <1>2 DEF Same

LEMMA SharedOut ==
  ASSUME NEW all \in Nat \ {0}
  PROVE  Same(<<1, 1>>, Ratio(all, all)) /\ Same(<<0, 1>>, Ratio(0, all))
BY RatioIs DEF Same, NotAvailable

Agreeing(D, said) == {g \in Draws(D, 2) : \A i, j \in g : said[i] = said[j]}
Kind(D, said, v) == {i \in D : said[i] = v}

LEMMA TwoOf ==
  ASSUME NEW S, IsFiniteSet(S)
  PROVE  2 * Cardinality(Draws(S, 2)) = Cardinality(S) * (Cardinality(S) - 1)
<1> DEFINE n == Cardinality(S)
           c == Cardinality(Draws(S, 2))
<1>1. n \in Nat /\ c \in Nat
  BY FS_CardinalityType, DrawsFinite
<1>2. CASE n <= 1
  <2>1. 2 \in Nat /\ 2 > n
    BY <1>1, <1>2
  <2>2. Draws(S, 2) = {}
    BY <2>1, DrawsAtTheEnds
  <2>3. c = 0
    BY <2>2, FS_EmptySet
  <2>4. n = 0 \/ n = 1
    BY <1>1, <1>2
  <2> HIDE DEF c, n
  <2>5. 2 * c = n * (n - 1)
    BY <2>3, <2>4
  <2> QED BY <2>5 DEF c, n
<1>3. CASE n >= 2
  <2> DEFINE m == n - 2
             F == factorial[m]
  <2>1. m \in Nat /\ 2 \in 0 .. n /\ m + 2 = n /\ (m + 1) + 1 = n /\ m + 1 = n - 1 /\ m + 1 \in Nat
    BY <1>1, <1>3
  <2>2. c * (factorial[2] * factorial[m]) = factorial[n]
    BY <2>1, DrawsCount
  <2>3. factorial[2] = 2
    <3>1. factorial[0 + 1] = (0 + 1) * factorial[0] /\ factorial[1 + 1] = (1 + 1) * factorial[1] /\ factorial[0] = 1
      BY FactorialSteps
    <3>2. 0 + 1 = 1 /\ 1 + 1 = 2
      OBVIOUS
    <3> QED BY <3>1, <3>2
  <2>4. factorial[n] = n * ((n - 1) * F) /\ F \in Nat \ {0}
    <3> HIDE DEF m, n
    <3>1. factorial[m + 1] = (m + 1) * factorial[m] /\ factorial[(m + 1) + 1] = ((m + 1) + 1) * factorial[m + 1] /\ factorial[m] \in Nat \ {0}
      BY <2>1, FactorialSteps
    <3> QED BY <2>1, <3>1
  <2> HIDE DEF F, c, m, n
  <2>5. c * (2 * F) = n * ((n - 1) * F)
    BY <2>2, <2>3, <2>4 DEF F
  <2>6. (2 * c) * F = (n * (n - 1)) * F
    <3>1. \A x, y \in Nat : x * (2 * y) = (2 * x) * y
      OBVIOUS
    <3>2. \A x, z, y \in Nat : x * (z * y) = (x * z) * y
      OBVIOUS
    <3>3. n - 1 \in Nat
      BY <2>1
    <3> QED BY <1>1, <2>4, <2>5, <3>1, <3>2, <3>3
  <2>7. \A x, y \in Nat, z \in Nat \ {0} : x * z = y * z => x = y
    <3> SUFFICES ASSUME NEW x \in Nat, NEW y \in Nat, NEW z \in Nat \ {0}, x * z = y * z PROVE x = y
      OBVIOUS
    <3>1. (x * z) \div z = x /\ (y * z) \div z = y
      BY ExactQuotient
    <3> QED BY <3>1
  <2>8. 2 * c \in Nat /\ n * (n - 1) \in Nat
    <3>1. n - 1 \in Nat
      BY <2>1
    <3> QED BY <1>1, <3>1, PositiveProduct
  <2>9. 2 * c = n * (n - 1)
    BY <2>4, <2>6, <2>7, <2>8
  <2> QED BY <2>9 DEF c, n
<1> QED BY <1>1, <1>2, <1>3

(* The agreeing pairs are the pairs within each kind of answer. *)
LEMMA PairsAgree ==
  ASSUME NEW D, IsFiniteSet(D), NEW said, NEW kinds, IsFiniteSet(kinds), \A i \in D : said[i] \in kinds,
         NEW f, DOMAIN f = kinds,
         \A v \in kinds : f[v] = Cardinality(Kind(D, said, v)) * (Cardinality(Kind(D, said, v)) - 1)
  PROVE  SumFunction(f) = 2 * Cardinality(Agreeing(D, said))
<1> DEFINE X == Agreeing(D, said)
           key == [g \in X |-> said[CHOOSE i \in g : TRUE]]
           h == [v \in kinds |-> Cardinality(Draws(Kind(D, said, v), 2))]
<1>1. \A v : IsFiniteSet(Kind(D, said, v))
  BY SetSize DEF Kind
<1>2. \A v \in kinds : h[v] \in Int /\ f[v] = h[v] + h[v]
  <2> SUFFICES ASSUME NEW v \in kinds PROVE h[v] \in Int /\ f[v] = h[v] + h[v]
    OBVIOUS
  <2>1. h[v] \in Nat /\ h[v] = Cardinality(Draws(Kind(D, said, v), 2))
    BY <1>1, DrawsFinite
  <2>2. f[v] = 2 * h[v]
    BY <1>1, <2>1, TwoOf
  <2> HIDE DEF h
  <2> QED BY <2>1, <2>2
<1>3. IsFiniteSet(X) /\ Cardinality(X) \in Nat
  BY DrawsFinite, SetSize DEF Agreeing
<1>4. \A g \in X : \E i \in g : TRUE
  <2> SUFFICES ASSUME NEW g \in X, g = {} PROVE FALSE
    OBVIOUS
  <2>1. Cardinality(g) = 2 /\ Cardinality({}) = 0
    BY FS_EmptySet DEF Agreeing, Draws
  <2> QED BY <2>1
<1>5. \A g \in X : \A i \in g : i \in D /\ key[g] = said[i]
  <2> SUFFICES ASSUME NEW g \in X, NEW i \in g PROVE i \in D /\ said[CHOOSE j \in g : TRUE] = said[i]
    OBVIOUS
  <2>1. (CHOOSE j \in g : TRUE) \in g
    OBVIOUS
  <2> QED BY <2>1 DEF Agreeing, Draws
<1>6. \A g \in X : key[g] \in kinds
  <2> HIDE DEF X, key
  <2> QED BY <1>4, <1>5
<1>7. ASSUME NEW v \in kinds PROVE h[v] = Cardinality(Fiber(X, key, v))
  <2>1. ASSUME NEW g \in Draws(Kind(D, said, v), 2) PROVE g \in Fiber(X, key, v)
    <3>1. g \in SUBSET D /\ Cardinality(g) = 2 /\ \A i \in g : said[i] = v
      BY DEF Draws, Kind
    <3>2. g \in X
      BY <3>1 DEF Agreeing, Draws
    <3> HIDE DEF X, key
    <3>3. key[g] = v
      BY <1>4, <1>5, <3>1, <3>2
    <3> QED BY <3>2, <3>3 DEF Fiber
  <2>2. ASSUME NEW g \in Fiber(X, key, v) PROVE g \in Draws(Kind(D, said, v), 2)
    <3>1. g \in X /\ key[g] = v
      BY DEF Fiber
    <3>2. \A i \in g : i \in D /\ said[i] = v
      <4> HIDE DEF X, key
      <4> QED BY <1>5, <3>1
    <3>3. Cardinality(g) = 2
      BY <3>1 DEF Agreeing, Draws
    <3> QED BY <3>2, <3>3 DEF Draws, Kind
  <2>3. Draws(Kind(D, said, v), 2) = Fiber(X, key, v)
    <3> HIDE DEF X, key
    <3> QED BY <2>1, <2>2
  <2> QED BY <2>3
<1> HIDE DEF X, key, h
<1>8. Sigma(h, kinds) = Cardinality(X)
  BY <1>3, <1>6, <1>7, CountBy
<1>9. Sigma(f, kinds) = Sigma(h, kinds) + Sigma(h, kinds)
  BY <1>2, SigmaOfSum
<1>10. SumFunction(f) = Sigma(f, kinds)
  BY SumIs
<1> DEFINE c == Cardinality(X)
<1>11. SumFunction(f) = c + c /\ c \in Nat
  BY <1>3, <1>8, <1>9, <1>10
<1> HIDE DEF c
<1>12. SumFunction(f) = 2 * c
  BY <1>11
<1> QED BY <1>12 DEF c, X

LEMMA RepeatsDrawn == ASSUME sample \in Seq(Observation) PROVE RepeatsAreDrawn
<1> DEFINE D == DOMAIN sample
           n == Len(sample)
           right == {i \in D : Right(sample[i])}
           wrong == {i \in D : ~Right(sample[i])}
           c == Successes(sample)
<1>1. n \in Nat /\ IsFiniteSet(D) /\ Cardinality(D) = n
  BY Observed
<1>2. IsFiniteSet(right) /\ IsFiniteSet(wrong) /\ Cardinality(right) = c /\ c \in Nat /\ Cardinality(wrong) = n - c
  <2>1. IsFiniteSet(right) /\ IsFiniteSet(wrong) /\ Cardinality(right) \in Nat /\ Cardinality(wrong) \in Nat
    BY <1>1, SetSize
  <2>2. Cardinality(right) = c
    BY DEF Successes, NumberOf
  <2>3. right \cup wrong = D /\ right \cap wrong = {}
    OBVIOUS
  <2> DEFINE a == Cardinality(right)
             b == Cardinality(wrong)
  <2> HIDE DEF right, wrong, D
  <2>4. n = a + b - 0
    BY <1>1, <2>1, <2>3, FS_Union, FS_EmptySet
  <2>5. a \in Nat /\ b \in Nat
    BY <2>1
  <2> HIDE DEF a, b, n
  <2>6. b = n - a
    BY <2>4, <2>5
  <2> QED BY <2>1, <2>2, <2>6 DEF a, b
<1>3. \A k : Groups(k) = Draws(D, k)
  BY DEF Groups, Draws
<1>4. ASSUME NEW k \in 1 .. n
      PROVE  LET Share(Test(_)) == Ratio(Cardinality({g \in Groups(k) : Test(g)}), Cardinality(Groups(k)))
                 pass == PassAtK(c, n, k)
             IN  /\ Same(pass, Share(LAMBDA g : \E i \in g : Right(sample[i])))
                 /\ Same(PassAllK(c, n, k), Share(LAMBDA g : \A i \in g : Right(sample[i])))
  <2> DEFINE some == {g \in Draws(D, k) : \E i \in g : Right(sample[i])}
             each == {g \in Draws(D, k) : \A i \in g : Right(sample[i])}
             all == Cardinality(Draws(D, k))
             w == Cardinality(Draws(wrong, k))
             r == Cardinality(Draws(right, k))
  <2>1. k \in Nat /\ k # 0 /\ k <= n
    BY <1>1
  <2>2. all = Ways(n, k) /\ w = Ways(n - c, k) /\ r = Ways(c, k)
    BY <1>1, <1>2, <2>1, WaysCount
  <2>3. each = Draws(right, k)
    BY DEF Draws
  <2>4. some \cup Draws(wrong, k) = Draws(D, k) /\ some \cap Draws(wrong, k) = {}
    BY DEF Draws
  <2>5. IsFiniteSet(some) /\ IsFiniteSet(Draws(wrong, k)) /\ Cardinality(some) \in Nat /\ w \in Nat /\ all \in Nat /\ r \in Nat
    BY <1>1, <1>2, DrawsFinite, SetSize
  <2>6. Cardinality(some) + w = all
    <3> DEFINE a == Cardinality(some)
    <3> HIDE DEF some
    <3>1. Cardinality(some \cup Draws(wrong, k)) = Cardinality(some) + Cardinality(Draws(wrong, k)) - Cardinality(some \cap Draws(wrong, k))
      BY <2>5, FS_Union
    <3>2. all = a + w - 0 /\ a \in Nat /\ w \in Nat
      BY <2>4, <2>5, <3>1, FS_EmptySet
    <3> HIDE DEF a, w, all
    <3>3. a + w = all
      BY <3>2
    <3> QED BY <3>3 DEF a
  <2>7. all # 0
    <3>1. k \in 0 .. n
      BY <2>1, <1>1
    <3>2. all * (factorial[k] * factorial[n - k]) = factorial[n]
      BY <1>1, <3>1, DrawsCount
    <3>3. factorial[n] # 0 /\ factorial[k] \in Nat /\ factorial[n - k] \in Nat
      <4>1. n - k \in Nat
        BY <1>1, <2>1
      <4> QED BY <1>1, <2>1, <4>1, FactorialSteps
    <3>4. factorial[k] * factorial[n - k] \in Nat
      BY <3>3, PositiveProduct
    <3> DEFINE d == factorial[k] * factorial[n - k]
    <3> HIDE DEF d, all
    <3>5. all * d # 0 /\ d \in Nat
      BY <3>2, <3>3, <3>4 DEF d
    <3> QED BY <3>5
  <2> HIDE DEF some, each, all, w, r, right, wrong, D
  <2>8. Same(PassAtK(c, n, k), Ratio(Cardinality(some), all))
    <3>1. CASE n - c >= k
      <4>1. PassAtK(c, n, k) = Minus(<<1, 1>>, Ratio(w, all))
        BY <2>2, <3>1 DEF PassAtK
      <4> QED BY <2>5, <2>6, <2>7, <4>1, SameShare
    <3>2. CASE ~(n - c >= k)
      <4> HIDE DEF n
      <4>1. w = 0
        <5>1. k > n - c
          BY <1>1, <1>2, <2>1, <3>2
        <5> QED BY <2>2, <5>1 DEF Ways
      <4>2. Cardinality(some) = all
        BY <2>5, <2>6, <4>1
      <4>3. PassAtK(c, n, k) = <<1, 1>>
        BY <3>2 DEF PassAtK
      <4> QED BY <2>5, <2>7, <4>2, <4>3, SharedOut
    <3> QED BY <3>1, <3>2
  <2>9. Same(PassAllK(c, n, k), Ratio(Cardinality(each), all))
    <3>1. CASE c >= k
      <4>1. PassAllK(c, n, k) = Ratio(Cardinality(each), all)
        BY <2>2, <2>3, <3>1 DEF PassAllK, r
      <4> QED BY <4>1 DEF Same
    <3>2. CASE ~(c >= k)
      <4>1. k > c
        BY <1>2, <2>1, <3>2
      <4>2. Cardinality(each) = 0
        BY <2>2, <2>3, <4>1 DEF Ways, r
      <4>3. PassAllK(c, n, k) = <<0, 1>>
        BY <3>2 DEF PassAllK
      <4> QED BY <2>5, <2>7, <4>2, <4>3, SharedOut
    <3> QED BY <3>1, <3>2
  <2> QED BY <1>3, <2>8, <2>9 DEF some, each, all
<1>5. ASSUME n > 1
      PROVE  Same(Repeatability(Mapped(LAMBDA o : o.said)).pairwise,
                  Ratio(Cardinality({g \in Groups(2) : \A i, j \in g : sample[i].said = sample[j].said}), Cardinality(Groups(2))))
  <2> DEFINE said == [i \in D |-> sample[i].said]
             kinds == Range(said)
             f == [v \in kinds |-> Cardinality(Kind(D, said, v)) * (Cardinality(Kind(D, said, v)) - 1)]
             a == Cardinality(Agreeing(D, said))
             all == Cardinality(Draws(D, 2))
  <2>1. Len(said) = n
    <3>1. D = 1 .. n
      BY Observed
    <3> QED BY <1>1, <3>1
  <2>2. Repeatability(Mapped(LAMBDA o : o.said)).pairwise = Ratio(SumFunction(f), n * (n - 1))
    <3>1. Mapped(LAMBDA o : o.said) = said
      BY DEF Mapped
    <3>2. \A v : NumberOf(said, LAMBDA x : x = v) = Cardinality(Kind(D, said, v))
      BY DEF NumberOf, Kind
    <3> QED BY <2>1, <3>1, <3>2 DEF Repeatability
  <2>3. IsFiniteSet(kinds) /\ \A i \in D : said[i] \in kinds
    <3>1. DOMAIN said = D
      OBVIOUS
    <3> HIDE DEF said
    <3> QED BY <1>1, <3>1, FiniteImage DEF Range
  <2>4. SumFunction(f) = 2 * a
    <3>1. DOMAIN f = kinds /\ \A v \in kinds : f[v] = Cardinality(Kind(D, said, v)) * (Cardinality(Kind(D, said, v)) - 1)
      OBVIOUS
    <3> HIDE DEF f, said, kinds
    <3> QED BY <1>1, <2>3, <3>1, PairsAgree
  <2>5. 2 * all = n * (n - 1)
    BY <1>1, TwoOf
  <2>6. a \in Nat /\ all \in Nat
    BY <1>1, DrawsFinite, SetSize DEF Agreeing
  <2>7. {g \in Groups(2) : \A i, j \in g : sample[i].said = sample[j].said} = Agreeing(D, said)
    BY <1>3 DEF Agreeing, Draws
  <2> HIDE DEF a, all, f, said
  <2>8. Same(Ratio(2 * a, 2 * all), Ratio(a, all))
    <3>1. CASE all = 0
      BY <3>1, <2>6 DEF Ratio, Same
    <3>2. CASE all # 0
      <4>1. 2 * all # 0 /\ (2 * a) * all = a * (2 * all)
        BY <2>6, <3>2
      <4>2. Ratio(2 * a, 2 * all) = <<2 * a, 2 * all>> /\ Ratio(a, all) = <<a, all>>
        BY <3>2, <4>1, RatioIs
      <4>3. <<2 * a, 2 * all>> # NotAvailable /\ <<a, all>> # NotAvailable
        BY <3>2, <4>1 DEF NotAvailable
      <4> QED BY <4>1, <4>2, <4>3 DEF Same
    <3> QED BY <3>1, <3>2
  <2> HIDE DEF D, n
  <2> QED BY <1>3, <2>2, <2>4, <2>5, <2>7, <2>8 DEF a, all
<1> QED BY <1>4, <1>5 DEF RepeatsAreDrawn

(***************************************************************************)
(* Quantiles: Sorted puts the values in their order, and the interpolation *)
(* between two neighbours stays between them and rises with the rank.      *)
(***************************************************************************)
NotAbove(values, v) == {i \in DOMAIN values : values[i] <= v}

(* values in their order: none is lost, and as many as i do not exceed the i-th *)
InOrder(data, values) ==
  /\ DOMAIN data = DOMAIN values
  /\ \A i \in DOMAIN data : data[i] \in Nat /\ Cardinality(NotAbove(values, data[i])) >= i
  /\ \A i, j \in DOMAIN data : i <= j => data[i] <= data[j]
  /\ data[1] = Min(Range(values)) /\ data[Len(values)] = Max(Range(values))

LEMMA SortedIs ==
  ASSUME NEW n \in Nat \ {0}, NEW values \in [1 .. n -> Nat]
  PROVE  InOrder(Sorted(values), values)
<1> DEFINE D == DOMAIN values
           R == Range(values)
           C(v) == Cardinality(NotAbove(values, v))
           E(i) == {v \in R : C(v) >= i}
           data == Sorted(values)
<1>1. D = 1 .. n /\ IsFiniteSet(D) /\ Cardinality(D) = n /\ Len(values) = n
  BY UpToCount
<1>2. R \subseteq Int /\ R \subseteq Nat /\ R # {} /\ IsFiniteSet(R) /\ \A i \in D : values[i] \in R
  <2>1. IsFiniteSet(R)
    BY <1>1, FiniteImage DEF Range
  <2>2. values[1] \in R
    BY DEF Range
  <2> QED BY <2>1, <2>2 DEF Range
<1>3. Max(R) \in R /\ Min(R) \in R /\ \A v \in R : v <= Max(R) /\ Min(R) <= v
  <2> HIDE DEF R
  <2> QED BY <1>2, FiniteExtremes
<1>4. \A v : C(v) \in Nat /\ C(v) <= n /\ IsFiniteSet(NotAbove(values, v))
  <2>1. \A v : NotAbove(values, v) \subseteq D
    BY DEF NotAbove
  <2> QED BY <1>1, <2>1, SetSize
<1>5. \A v : C(v) = n => NotAbove(values, v) = D
  <2>1. \A v : NotAbove(values, v) \in SUBSET D
    BY DEF NotAbove
  <2> QED BY <1>1, <2>1, FS_Subset
<1>6. C(Max(R)) = n
  <2>1. NotAbove(values, Max(R)) = D
    <3> HIDE DEF R
    <3> QED BY <1>2, <1>3 DEF NotAbove
  <2> QED BY <1>1, <2>1
<1>7. \A v \in R : C(v) >= 1
  <2> SUFFICES ASSUME NEW v \in R PROVE C(v) # 0
    BY <1>4
  <2>1. PICK i \in D : values[i] = v
    BY DEF Range
  <2>2. v \in Nat
    BY <1>2
  <2>3. i \in NotAbove(values, v)
    BY <2>1, <2>2 DEF NotAbove
  <2> QED BY <1>4, <2>3, FS_EmptySet
<1>8. data = [i \in D |-> Min(E(i))]
  BY DEF Sorted, NumberOf, NotAbove
<1> HIDE DEF R, C, data, D
<1>9. \A i \in D : E(i) # {} /\ IsFiniteSet(E(i)) /\ E(i) \subseteq Int
  <2> SUFFICES ASSUME NEW i \in D PROVE E(i) # {} /\ IsFiniteSet(E(i)) /\ E(i) \subseteq Int
    OBVIOUS
  <2>1. Max(R) \in E(i)
    BY <1>1, <1>3, <1>6
  <2>2. IsFiniteSet(E(i))
    BY <1>2, SetSize
  <2> QED BY <1>2, <2>1, <2>2
<1>10. \A i \in D : Min(E(i)) \in E(i) /\ \A v \in E(i) : Min(E(i)) <= v
  <2> HIDE DEF E
  <2> QED BY <1>9, FiniteExtremes
<1>11. \A i \in D : data[i] = Min(E(i)) /\ data[i] \in R /\ data[i] \in Nat /\ C(data[i]) >= i
  BY <1>2, <1>8, <1>10
<1>12. \A i, j \in D : i <= j => data[i] <= data[j]
  <2> SUFFICES ASSUME NEW i \in D, NEW j \in D, i <= j PROVE data[i] <= data[j]
    OBVIOUS
  <2> DEFINE c == C(data[j])
  <2>0. c \in Nat /\ c >= j /\ i \in Nat /\ j \in Nat /\ data[j] \in R
    <3>1. i \in Nat /\ j \in Nat
      BY <1>1
    <3>2. c \in Nat
      BY <1>4
    <3>3. data[j] \in R /\ c >= j
      BY <1>11
    <3> QED BY <3>1, <3>2, <3>3
  <2>1. data[j] \in E(i)
    <3> HIDE DEF c
    <3>1. c >= i
      BY <2>0
    <3> QED BY <2>0, <3>1 DEF c
  <2> QED BY <1>10, <1>11, <2>1
<1>13. data[1] = Min(R)
  <2>1. 1 \in D
    BY <1>1
  <2>2. Min(R) \in E(1)
    BY <1>3, <1>7
  <2>3. data[1] \in R /\ data[1] = Min(E(1)) /\ Min(E(1)) <= Min(R)
    BY <1>10, <1>11, <2>1, <2>2
  <2>4. data[1] <= Min(R) /\ Min(R) <= data[1] /\ data[1] \in Int /\ Min(R) \in Int
    BY <1>2, <1>3, <2>3
  <2> QED BY <2>4
<1>14. data[n] = Max(R)
  <2>1. n \in D
    BY <1>1
  <2> DEFINE c == C(data[n])
  <2>0. c \in Nat /\ c <= n /\ c >= n
    BY <1>4, <1>11, <2>1
  <2>2. C(data[n]) = n
    <3> HIDE DEF c
    <3>1. c = n
      BY <2>0
    <3> QED BY <3>1 DEF c
  <2>3. \A i \in D : values[i] <= data[n]
    BY <1>5, <2>2 DEF NotAbove, C
  <2>4. \E i \in D : values[i] = Max(R)
    BY <1>3 DEF R, Range, D
  <2>5. Max(R) <= data[n] /\ data[n] <= Max(R) /\ data[n] \in Int /\ Max(R) \in Int
    BY <1>2, <1>3, <1>11, <2>1, <2>3, <2>4
  <2> HIDE DEF data
  <2> QED BY <2>5
<1>15. DOMAIN data = D
  BY <1>8
<1>16. \A i \in D : data[i] \in Nat /\ Cardinality(NotAbove(values, data[i])) >= i
  BY <1>11 DEF C
<1>17. data[1] = Min(Range(values)) /\ data[Len(values)] = Max(Range(values))
  BY <1>1, <1>13, <1>14 DEF R
<1>18. InOrder(data, values)
  BY <1>12, <1>15, <1>16, <1>17 DEF InOrder, D
<1> QED BY <1>18 DEF data

(* the interpolation: t quarters of the way from the first of the values to the last *)
Between(data, m, t) ==
  data[t \div 4 + 1] * 4
    + (t % 4) * (data[Min({t \div 4 + 1, m}) + 1] - data[t \div 4 + 1])

LEMMA Quarters ==
  ASSUME NEW m \in Nat, NEW t \in 0 .. 4 * m
  PROVE  t \div 4 \in 0 .. m /\ t % 4 \in 0 .. 3 /\ t = 4 * (t \div 4) + (t % 4)
OBVIOUS

Rising(data, m) == \A i, j \in 1 .. m + 1 : data[i] \in Nat /\ data[j] \in Nat /\ (i <= j => data[i] <= data[j])

LEMMA BetweenBounds ==
  ASSUME NEW m \in Nat, NEW data, Rising(data, m), NEW t \in 0 .. 4 * m
  PROVE  /\ Between(data, m, t) \in Nat /\ data[t \div 4 + 1] * 4 <= Between(data, m, t)
         /\ t \div 4 < m => Between(data, m, t) <= data[t \div 4 + 2] * 4
<1> DEFINE l == t \div 4
           r == t % 4
           u == Min({l + 1, m})
           a == data[l + 1]
           b == data[u + 1]
<1>1. l \in 0 .. m /\ r \in 0 .. 3
  BY Quarters
<1> HIDE DEF l, r
<1>2. u = IF l + 1 <= m THEN l + 1 ELSE m
  BY <1>1, LesserOf
<1>3. u \in l .. m
  BY <1>1, <1>2
<1> HIDE DEF u
<1>4. a \in Nat /\ b \in Nat /\ a <= b
  <2>1. l + 1 \in 1 .. m + 1 /\ u + 1 \in 1 .. m + 1 /\ l + 1 <= u + 1
    BY <1>1, <1>3
  <2> QED BY <2>1 DEF Rising
<1>5. l < m => b = data[l + 2]
  BY <1>1, <1>2
<1> HIDE DEF a, b
<1>6. a * 4 + r * (b - a) \in Nat /\ a * 4 <= a * 4 + r * (b - a) /\ a * 4 + r * (b - a) <= b * 4
  <2>1. b - a \in Nat
    BY <1>4
  <2>2. ASSUME NEW x \in Nat, NEW k \in 0 .. 3 PROVE k * x \in Nat /\ k * x <= 3 * x
    <3>1. k = 0 \/ k = 1 \/ k = 2 \/ k = 3
      OBVIOUS
    <3> QED BY <3>1
  <2>3. r * (b - a) \in Nat /\ r * (b - a) <= 3 * (b - a)
    BY <1>1, <2>1, <2>2
  <2> DEFINE p == r * (b - a)
  <2> HIDE DEF p
  <2>4. p \in Nat /\ p <= 3 * (b - a)
    BY <2>3 DEF p
  <2>5. a * 4 + p \in Nat /\ a * 4 <= a * 4 + p /\ a * 4 + p <= b * 4
    BY <1>4, <2>4
  <2> QED BY <2>5 DEF p
<1>7. Between(data, m, t) = a * 4 + r * (b - a)
  BY DEF Between, a, b, l, r, u
<1>8. l < m => a * 4 + r * (b - a) <= data[l + 2] * 4
  BY <1>5, <1>6
<1> QED BY <1>6, <1>7, <1>8 DEF a, l

LEMMA BetweenRises ==
  ASSUME NEW m \in Nat, NEW data, Rising(data, m), NEW t \in 0 .. 4 * m, NEW v \in 0 .. 4 * m, t <= v
  PROVE  Between(data, m, t) <= Between(data, m, v)
<1> DEFINE l == t \div 4
           k == v \div 4
           x == Between(data, m, t)
           y == Between(data, m, v)
<1>1. l \in 0 .. m /\ k \in 0 .. m /\ l <= k /\ (l = k => t % 4 <= v % 4) /\ t % 4 \in 0 .. 3 /\ v % 4 \in 0 .. 3
  BY Quarters
<1>2. x \in Nat /\ y \in Nat /\ data[k + 1] * 4 <= y /\ (l < m => x <= data[l + 2] * 4)
  BY BetweenBounds
<1>3. CASE l < k
  <2> HIDE DEF l, k, x, y
  <2>1. l < m /\ l + 2 \in 1 .. m + 1 /\ k + 1 \in 1 .. m + 1 /\ l + 2 <= k + 1
    BY <1>1, <1>3
  <2>2. data[l + 2] \in Nat /\ data[k + 1] \in Nat /\ data[l + 2] <= data[k + 1]
    BY <2>1 DEF Rising
  <2>3. x <= y
    BY <1>2, <2>1, <2>2
  <2> QED BY <2>3 DEF x, y
<1>4. CASE l = k
  <2> DEFINE a == data[l + 1]
             b == data[Min({l + 1, m}) + 1]
             p == t % 4
             q == v % 4
  <2>1. a \in Nat /\ b \in Nat /\ a <= b
    <3> HIDE DEF l
    <3>1. Min({l + 1, m}) = IF l + 1 <= m THEN l + 1 ELSE m
      BY <1>1, LesserOf
    <3>2. l + 1 \in 1 .. m + 1 /\ Min({l + 1, m}) + 1 \in 1 .. m + 1 /\ l + 1 <= Min({l + 1, m}) + 1
      BY <1>1, <3>1
    <3> QED BY <3>2 DEF Rising
  <2>2. x = a * 4 + p * (b - a) /\ y = a * 4 + q * (b - a)
    BY <1>4 DEF Between
  <2>3. p \in Nat /\ q \in Nat /\ p <= q
    BY <1>1, <1>4
  <2> HIDE DEF a, b, p, q, x, y
  <2>4. p * (b - a) <= q * (b - a) /\ p * (b - a) \in Int /\ q * (b - a) \in Int
    <3>1. \A i, j, z \in Nat : i <= j => i * z <= j * z /\ i * z \in Int /\ j * z \in Int
      OBVIOUS
    <3>2. b - a \in Nat
      BY <2>1
    <3> QED BY <2>3, <3>1, <3>2
  <2>5. a * 4 + p * (b - a) <= a * 4 + q * (b - a)
    BY <2>1, <2>4
  <2> QED BY <2>2, <2>5 DEF x, y
<1> QED BY <1>1, <1>3, <1>4

LEMMA QuantilesOrdered == ASSUME sample \in Seq(Observation) PROVE QuantilesAreOrdered
<1> DEFINE n == Len(sample)
           values == [i \in DOMAIN sample |-> sample[i].p]
           data == Sorted(values)
           m == n - 1
           At(num) == LinearQuantile(values, num, 4)
<1> SUFFICES ASSUME sample # <<>>
             PROVE  /\ At(0)[1] = 4 * Min(Range(values)) /\ At(4)[1] = 4 * Max(Range(values))
                    /\ \A num \in 0 .. 3 : AtMost(At(num), At(num + 1))
                    /\ 4 * NumberOf(values, LAMBDA v : AtMost(<<v, 1>>, At(2))) >= 2 * Len(values)
  BY DEF QuantilesAreOrdered, Mapped
<1>1. n \in Nat \ {0} /\ m \in Nat /\ m + 1 = n /\ values \in [1 .. n -> Nat]
  <2>1. n \in Nat /\ DOMAIN sample = 1 .. n /\ \A i \in DOMAIN sample : sample[i].p \in Nat
    BY Observed
  <2>2. n # 0
    OBVIOUS
  <2> QED BY <2>1, <2>2
<1>2. InOrder(data, values)
  BY <1>1, SortedIs
<1>3. Len(values) = n /\ DOMAIN values = 1 .. n
  BY <1>1
<1> HIDE DEF values
<1>4. DOMAIN data = 1 .. n /\ Len(data) = n
  BY <1>1, <1>2, <1>3 DEF InOrder
<1>5. Rising(data, m)
  BY <1>1, <1>2, <1>4 DEF InOrder, Rising
<1>12. data[1] \in Nat /\ data[n] \in Nat /\ data[1] = Min(Range(values)) /\ data[n] = Max(Range(values))
  <2>1. 1 \in DOMAIN data /\ n \in DOMAIN data
    BY <1>1, <1>4
  <2> HIDE DEF data, n
  <2> QED BY <1>2, <1>3, <2>1 DEF InOrder
<1>6. \A num \in 0 .. 4 : At(num) = <<Between(data, m, num * m), 4>>
  <2>1. data # <<>>
    BY <1>1, <1>4
  <2> HIDE DEF data
  <2> QED BY <1>4, <2>1 DEF LinearQuantile, Between, data
<1> HIDE DEF data, At
<1>7. \A num \in 0 .. 4 : num * m \in 0 .. 4 * m
  <2> HIDE DEF m
  <2> SUFFICES ASSUME NEW num \in 0 .. 4 PROVE num * m \in 0 .. 4 * m
    OBVIOUS
  <2>1. num = 0 \/ num = 1 \/ num = 2 \/ num = 3 \/ num = 4
    OBVIOUS
  <2> QED BY <1>1, <2>1
<1>8. At(0)[1] = 4 * Min(Range(values))
  <2>1. Between(data, m, 0 * m) = data[1] * 4
    <3> HIDE DEF m
    <3>1. 0 * m = 0 /\ 0 \div 4 = 0 /\ 0 % 4 = 0 /\ 0 + 1 = 1
      BY <1>1
    <3>2. Min({0 + 1, m}) + 1 \in 1 .. m + 1 /\ 1 \in 1 .. m + 1
      BY <1>1, LesserOf
    <3>3. data[1] \in Nat /\ data[Min({0 + 1, m}) + 1] \in Nat
      BY <1>5, <3>2 DEF Rising
    <3> DEFINE y == data[Min({0 + 1, m}) + 1]
    <3>4. Between(data, m, 0) = data[1] * 4 + 0 * (y - data[1])
      BY <3>1 DEF Between
    <3> HIDE DEF y
    <3>5. y \in Nat
      BY <3>3 DEF y
    <3> QED BY <3>1, <3>3, <3>4, <3>5
  <2> QED BY <1>6, <1>12, <2>1
<1>9. At(4)[1] = 4 * Max(Range(values))
  <2>1. Between(data, m, 4 * m) = data[n] * 4
    <3> DEFINE y == data[Min({m + 1, m}) + 1]
    <3> HIDE DEF m
    <3>1. (4 * m) \div 4 = m /\ (4 * m) % 4 = 0
      BY <1>1
    <3>2. Min({m + 1, m}) + 1 \in 1 .. m + 1 /\ n \in 1 .. m + 1
      BY <1>1, LesserOf
    <3>3. data[n] \in Nat /\ y \in Nat
      BY <1>5, <3>2 DEF Rising
    <3>4. Between(data, m, 4 * m) = data[m + 1] * 4 + 0 * (y - data[m + 1])
      BY <3>1 DEF Between
    <3> HIDE DEF y
    <3> QED BY <1>1, <3>3, <3>4
  <2> QED BY <1>6, <1>12, <2>1
<1>10. \A num \in 0 .. 3 : AtMost(At(num), At(num + 1))
  <2> SUFFICES ASSUME NEW num \in 0 .. 3 PROVE AtMost(At(num), At(num + 1))
    OBVIOUS
  <2> DEFINE x == Between(data, m, num * m)
             y == Between(data, m, (num + 1) * m)
  <2>1. num \in 0 .. 4 /\ num + 1 \in 0 .. 4
    OBVIOUS
  <2> HIDE DEF m
  <2>2. num * m \in 0 .. 4 * m /\ (num + 1) * m \in 0 .. 4 * m
    BY <1>7, <2>1
  <2>3. num * m <= (num + 1) * m
    BY <1>1
  <2>4. x <= y
    BY <1>1, <1>5, <2>2, <2>3, BetweenRises
  <2>5. x \in Nat /\ y \in Nat
    BY <1>1, <1>5, <2>2, BetweenBounds
  <2>6. At(num) = <<x, 4>> /\ At(num + 1) = <<y, 4>>
    BY <1>6, <2>1
  <2> HIDE DEF x, y
  <2> QED BY <2>4, <2>5, <2>6 DEF AtMost
<1>11. 4 * NumberOf(values, LAMBDA v : AtMost(<<v, 1>>, At(2))) >= 2 * Len(values)
  <2> DEFINE t == 2 * m
             l == t \div 4
             y == Between(data, m, t)
             low == NotAbove(values, data[l + 1])
             all == {i \in DOMAIN values : AtMost(<<values[i], 1>>, At(2))}
  <2>1. l \in 0 .. m /\ 4 * (l + 1) >= 2 * n
    <3> HIDE DEF m
    <3> QED BY <1>1
  <2>2. l + 1 \in 1 .. n
    BY <1>1, <2>1
  <2>3. Cardinality(low) >= l + 1 /\ data[l + 1] \in Nat
    BY <1>2, <1>4, <2>2 DEF InOrder
  <2>4. y \in Nat /\ data[l + 1] * 4 <= y
    <3>1. t \in 0 .. 4 * m
      BY <1>1
    <3> HIDE DEF t, m
    <3> QED BY <1>1, <1>5, <3>1, BetweenBounds
  <2>5. low \subseteq all
    <3>1. At(2) = <<y, 4>>
      BY <1>6
    <3>2. \A i \in DOMAIN values : values[i] \in Nat
      BY <1>1
    <3> DEFINE d == data[l + 1]
    <3>3. d \in Nat /\ d * 4 <= y
      BY <2>3, <2>4
    <3>4. low = {i \in DOMAIN values : values[i] <= d}
      BY DEF NotAbove
    <3> HIDE DEF d, y, values, l, low
    <3>5. \A i \in DOMAIN values : values[i] <= d => AtMost(<<values[i], 1>>, At(2))
      BY <2>4, <3>1, <3>2, <3>3 DEF AtMost
    <3> QED BY <3>4, <3>5
  <2>6. IsFiniteSet(all) /\ Cardinality(low) <= Cardinality(all) /\ Cardinality(low) \in Nat /\ Cardinality(all) \in Nat
    <3>1. IsFiniteSet(DOMAIN values)
      BY <1>1, <1>3, UpToCount
    <3>2. IsFiniteSet(all) /\ Cardinality(all) \in Nat
      BY <3>1, SetSize
    <3> HIDE DEF all, low
    <3> QED BY <2>5, <3>2, SetSize
  <2>7. NumberOf(values, LAMBDA v : AtMost(<<v, 1>>, At(2))) = Cardinality(all)
    BY DEF NumberOf
  <2> DEFINE c == Cardinality(all)
             b == Cardinality(low)
  <2> HIDE DEF l, all, low
  <2>8. l \in Nat /\ b >= l + 1 /\ b <= c /\ b \in Nat /\ c \in Nat /\ 4 * (l + 1) >= 2 * n
    BY <2>1, <2>3, <2>6
  <2> HIDE DEF c, b, n
  <2>9. 4 * c >= 2 * n
    BY <1>1, <2>8
  <2> QED BY <1>3, <2>7, <2>9 DEF c
<1> QED BY <1>8, <1>9, <1>10, <1>11

(***************************************************************************)
(* Retrieval: a predicted id takes one reference at most, and a reference is *)
(* taken once, so that the matches of a fact are the fewer of the two.     *)
(***************************************************************************)
(* FoldLeft takes the elements of a sequence in order, whatever function it folds. *)
Follows(it, V, base, F, seq) ==
  /\ it \in [SUBSET DOMAIN seq -> V]
  /\ \A T \in SUBSET DOMAIN seq : it[T] = IF T = {} THEN base ELSE F[<<it[T \ {Max(T)}], seq[Max(T)]>>]

LEMMA LastOfPrefix ==
  ASSUME NEW E, NEW seq \in Seq(E)
  PROVE  /\ IsFiniteSet(DOMAIN seq) /\ DOMAIN seq \subseteq Int
         /\ \A T \in SUBSET DOMAIN seq : T # {} => Max(T) \in T
<1> DEFINE D == DOMAIN seq
<1>1. D = 1 .. Len(seq) /\ Len(seq) \in Nat
  OBVIOUS
<1>2. IsFiniteSet(D) /\ D \subseteq Int
  BY <1>1, UpToCount
<1>3. ASSUME NEW T \in SUBSET D, T # {} PROVE Max(T) \in T
  <2>1. IsFiniteSet(T) /\ T \subseteq Int
    BY <1>2, FS_Subset
  <2> QED BY <1>3, <2>1, FiniteExtremes
<1> QED BY <1>2, <1>3

LEMMA FollowsExists ==
  ASSUME NEW V, NEW base \in V, NEW E, NEW seq \in Seq(E), NEW F \in [V \X E -> V]
  PROVE  \E it : Follows(it, V, base, F, seq)
<1> DEFINE D == DOMAIN seq
           pick == [T \in SUBSET D |-> Max(T)]
           H == [p \in V \X D |-> F[<<p[1], seq[p[2]]>>]]
<1>1. IsFiniteSet(D) /\ \A T \in SUBSET D : T # {} => Max(T) \in T
  BY LastOfPrefix
<1>2. \A i \in D : seq[i] \in E
  OBVIOUS
<1>3. \A T \in SUBSET D : T # {} => pick[T] \in T
  BY <1>1
<1>4. H \in [V \X D -> V]
  <2> HIDE DEF D
  <2> QED BY <1>2
<1>5. PICK it \in [SUBSET D -> V] : Folds(it, D, pick, base, H)
  <2> HIDE DEF D, pick, H
  <2> QED BY <1>1, <1>3, <1>4, FoldExists
<1>6. ASSUME NEW T \in SUBSET D
      PROVE  it[T] = IF T = {} THEN base ELSE F[<<it[T \ {Max(T)}], seq[Max(T)]>>]
  <2>1. it[T] = IF T = {} THEN base ELSE H[<<it[T \ {pick[T]}], pick[T]>>]
    BY <1>5 DEF Folds
  <2>2. CASE T = {}
    BY <2>1, <2>2
  <2>3. CASE T # {}
    <3>1. pick[T] = Max(T) /\ Max(T) \in D
      BY <1>1, <2>3
    <3> HIDE DEF pick, D
    <3>2. it[T \ {Max(T)}] \in V
      BY <1>5
    <3>3. H[<<it[T \ {Max(T)}], Max(T)>>] = F[<<it[T \ {Max(T)}], seq[Max(T)]>>]
      BY <3>1, <3>2
    <3> QED BY <2>1, <2>3, <3>1, <3>3
  <2> QED BY <2>2, <2>3
<1> HIDE DEF D
<1>7. Follows(it, V, base, F, seq)
  BY <1>5, <1>6 DEF Follows, D
<1> QED BY <1>7

(***************************************************************************)
(* Matching.                                                               *)
(***************************************************************************)
Untaken(reference, used, fact) == {r \in DOMAIN reference \ used : reference[r] = fact}
Taken(reference, used, fact) ==
  IF Untaken(reference, used, fact) = {} THEN used ELSE used \cup {Min(Untaken(reference, used, fact))}
TakenFor(reference, used, fact) == {r \in used : reference[r] = fact}
SaidSo(predicted, k, fact) == {i \in 1 .. k : predicted[i] = fact}

(* After k predictions, what was used is as many references of each fact as there are of both. *)
Matched(predicted, reference, used, k) ==
  /\ used \subseteq DOMAIN reference
  /\ \A fact : Cardinality(TakenFor(reference, used, fact))
                 = Min({Cardinality(SaidSo(predicted, k, fact)), Cardinality(TakenFor(reference, DOMAIN reference, fact))})

LEMMA TakenIs ==
  ASSUME NEW E, NEW reference \in Seq(E), NEW used \in SUBSET DOMAIN reference, NEW fact
  PROVE  /\ Taken(reference, used, fact) \in SUBSET DOMAIN reference
         /\ Untaken(reference, used, fact) # {} =>
              Min(Untaken(reference, used, fact)) \in DOMAIN reference \ used
              /\ reference[Min(Untaken(reference, used, fact))] = fact
<1> DEFINE hits == Untaken(reference, used, fact)
<1>1. hits \subseteq DOMAIN reference
  BY DEF Untaken
<1>2. IsFiniteSet(DOMAIN reference) /\ DOMAIN reference \subseteq Int
  BY LastOfPrefix
<1>3. IsFiniteSet(hits) /\ hits \subseteq Int
  BY <1>1, <1>2, FS_Subset
<1>4. hits # {} => Min(hits) \in hits
  <2> HIDE DEF hits
  <2> QED BY <1>3, FiniteExtremes
<1> QED BY <1>4 DEF Taken, Untaken

LEMMA MatchedStep ==
  ASSUME NEW E, NEW predicted \in Seq(E), NEW reference \in Seq(E), NEW used, NEW k \in Nat, k < Len(predicted),
         Matched(predicted, reference, used, k)
  PROVE  Matched(predicted, reference, Taken(reference, used, predicted[k + 1]), k + 1)
<1> DEFINE e == predicted[k + 1]
           D == DOMAIN reference
           now == Taken(reference, used, e)
           of(fact) == TakenFor(reference, used, fact)
           c(fact) == Cardinality(SaidSo(predicted, k, fact))
           t(fact) == Cardinality(TakenFor(reference, D, fact))
<1>1. used \in SUBSET D /\ now \in SUBSET D /\ IsFiniteSet(D)
  BY TakenIs, LastOfPrefix DEF Matched
<1>2. \A fact : /\ IsFiniteSet(of(fact)) /\ Cardinality(of(fact)) \in Nat /\ t(fact) \in Nat /\ c(fact) \in Nat
                /\ IsFiniteSet(SaidSo(predicted, k, fact)) /\ IsFiniteSet(TakenFor(reference, D, fact))
  <2>1. IsFiniteSet(1 .. k)
    BY UpToCount
  <2>2. \A fact : of(fact) \subseteq D /\ TakenFor(reference, D, fact) \subseteq D /\ SaidSo(predicted, k, fact) \subseteq 1 .. k
    BY <1>1 DEF TakenFor, SaidSo
  <2> HIDE DEF D
  <2> QED BY <1>1, <2>1, <2>2, SetSize
<1>3. \A fact : Cardinality(of(fact)) = IF c(fact) <= t(fact) THEN c(fact) ELSE t(fact)
  <2> SUFFICES ASSUME NEW fact PROVE Cardinality(of(fact)) = IF c(fact) <= t(fact) THEN c(fact) ELSE t(fact)
    OBVIOUS
  <2> DEFINE x == c(fact)
             y == t(fact)
  <2>1. Cardinality(of(fact)) = Min({x, y})
    BY DEF Matched
  <2>2. x \in Int /\ y \in Int
    BY <1>2
  <2> HIDE DEF x, y
  <2>3. Min({x, y}) = IF x <= y THEN x ELSE y
    BY <2>2, LesserOf
  <2> QED BY <2>1, <2>3 DEF x, y
<1> SUFFICES ASSUME NEW fact
             PROVE  Cardinality(TakenFor(reference, now, fact)) = Min({Cardinality(SaidSo(predicted, k + 1, fact)), t(fact)})
  BY <1>1 DEF Matched
<1>4. CASE fact # e
  <2>1. SaidSo(predicted, k + 1, fact) = SaidSo(predicted, k, fact)
    BY <1>4 DEF SaidSo
  <2>2. TakenFor(reference, now, fact) = of(fact)
    <3>1. now = used \/ \E r : now = used \cup {r} /\ reference[r] = e
      BY <1>1, TakenIs DEF Taken
    <3> QED BY <1>4, <3>1 DEF TakenFor
  <2>3. Cardinality(of(fact)) = Min({c(fact), t(fact)})
    BY DEF Matched
  <2> QED BY <2>1, <2>2, <2>3
<1>5. CASE fact = e
  <2>1. Cardinality(SaidSo(predicted, k + 1, e)) = c(e) + 1
    <3>1. SaidSo(predicted, k + 1, e) = SaidSo(predicted, k, e) \cup {k + 1} /\ k + 1 \notin SaidSo(predicted, k, e)
      BY DEF SaidSo
    <3> QED BY <1>2, <3>1, FS_AddElement
  <2>2. CASE Untaken(reference, used, e) = {}
    <3>1. now = used
      BY <2>2 DEF Taken
    <3>2. TakenFor(reference, D, e) = of(e)
      BY <1>1, <2>2 DEF TakenFor, Untaken
    <3>3. Cardinality(of(e)) = t(e)
      BY <3>2
    <3> DEFINE x == c(e)
               y == t(e)
    <3>4. y = IF x <= y THEN x ELSE y
      BY <1>3, <3>3
    <3>5. x \in Nat /\ y \in Nat
      BY <1>2
    <3> HIDE DEF x, y
    <3>6. Min({x + 1, y}) = y
      BY <3>4, <3>5, LesserOf
    <3> QED BY <1>5, <2>1, <3>1, <3>3, <3>6 DEF x, y
  <2>3. CASE Untaken(reference, used, e) # {}
    <3> DEFINE r == Min(Untaken(reference, used, e))
    <3>1. r \in D \ used /\ reference[r] = e /\ now = used \cup {r}
      BY <1>1, <2>3, TakenIs DEF Taken
    <3> HIDE DEF r, now
    <3>2. TakenFor(reference, now, e) = of(e) \cup {r} /\ r \notin of(e)
      BY <3>1 DEF TakenFor
    <3>3. of(e) \cup {r} \in SUBSET TakenFor(reference, D, e)
      BY <1>1, <3>1 DEF TakenFor
    <3> HIDE DEF of
    <3>4. Cardinality(of(e) \cup {r}) = Cardinality(of(e)) + 1
      BY <1>2, <3>2, FS_AddElement
    <3>5. Cardinality(of(e)) + 1 <= t(e)
      <4>1. Cardinality(of(e) \cup {r}) <= Cardinality(TakenFor(reference, D, e))
        BY <1>2, <3>3, FS_Subset
      <4> QED BY <3>4, <4>1
    <3> DEFINE x == c(e)
               y == t(e)
               z == Cardinality(of(e))
    <3>6. z = (IF x <= y THEN x ELSE y) /\ z + 1 <= y /\ x \in Nat /\ y \in Nat /\ z \in Nat
      BY <1>2, <1>3, <3>5
    <3> HIDE DEF x, y, z
    <3>7. Min({x + 1, y}) = z + 1
      BY <3>6, LesserOf
    <3> QED BY <1>5, <2>1, <3>2, <3>4, <3>7 DEF x, y, z
  <2> QED BY <2>2, <2>3
<1> QED BY <1>4, <1>5

LEMMA MatchIs ==
  ASSUME NEW E, NEW predicted \in Seq(E), NEW reference \in Seq(E)
  PROVE  \E used : /\ Matched(predicted, reference, used, Len(predicted))
                   /\ MatchExact(predicted, reference)
                        = [tp |-> Cardinality(used), fp |-> Len(predicted) - Cardinality(used), fn |-> Len(reference) - Cardinality(used)]
<1> DEFINE D == DOMAIN predicted
           V == SUBSET DOMAIN reference
           F == [p \in V \X E |-> Taken(reference, p[1], p[2])]
           Body(of, T) == IF T = {} THEN {} ELSE LET x == Max(T) IN Taken(reference, of[T \ {x}], predicted[x])
           Is(of) == of = [T \in SUBSET D |-> Body(of, T)]
           it == CHOOSE of : Is(of)
           n == Len(predicted)
<1>1. D = 1 .. n /\ n \in Nat /\ \A i \in D : predicted[i] \in E
  OBVIOUS
<1>2. F \in [V \X E -> V]
  <2>1. \A used \in V, fact \in E : Taken(reference, used, fact) \in V
    BY TakenIs
  <2> HIDE DEF V
  <2> QED BY <2>1
<1>3. \E of : Is(of)
  <2> HIDE DEF F, V
  <2>1. {} \in V
    BY DEF V
  <2>2. PICK of : Follows(of, V, {}, F, predicted)
    BY <1>2, <2>1, FollowsExists
  <2>3. ASSUME NEW T \in SUBSET D PROVE of[T] = Body(of, T)
    <3>1. of[T] = IF T = {} THEN {} ELSE F[<<of[T \ {Max(T)}], predicted[Max(T)]>>]
      BY <2>2 DEF Follows
    <3>2. CASE T = {}
      BY <3>1, <3>2
    <3>3. CASE T # {}
      <4>1. Max(T) \in D
        BY <3>3, LastOfPrefix
      <4>2. of[T \ {Max(T)}] \in V
        BY <2>2 DEF Follows
      <4>3. predicted[Max(T)] \in E
        BY <1>1, <4>1
      <4>4. F[<<of[T \ {Max(T)}], predicted[Max(T)]>>] = Taken(reference, of[T \ {Max(T)}], predicted[Max(T)])
        BY <4>2, <4>3 DEF F
      <4> QED BY <3>1, <3>3, <4>4
    <3> QED BY <3>2, <3>3
  <2>4. DOMAIN of = SUBSET D /\ of = [T \in DOMAIN of |-> of[T]]
    BY <2>2 DEF Follows
  <2>5. of = [T \in SUBSET D |-> Body(of, T)]
    <3> HIDE DEF Body, D
    <3> QED BY <2>3, <2>4
  <2> HIDE DEF Body
  <2> QED BY <2>5
<1>4. Is(it)
  <2> HIDE DEF Is
  <2> QED BY <1>3
<1>5. MatchExact(predicted, reference)
        = [tp |-> Cardinality(it[D]), fp |-> Len(predicted) - Cardinality(it[D]), fn |-> Len(reference) - Cardinality(it[D])]
  BY DEF MatchExact, FoldLeft, MapThenFoldSet, Taken, Untaken
<1> HIDE DEF it
<1>6. \A T \in SUBSET D : it[T] = Body(it, T)
  <2> HIDE DEF Body, D
  <2> QED BY <1>4
<1> DEFINE N == {k \in Nat : k <= n => Matched(predicted, reference, it[1 .. k], k)}
<1>7. 0 \in N
  <2>1. 1 .. 0 = {}
    OBVIOUS
  <2>2. it[{}] = {}
    BY <1>6
  <2>3. \A fact : SaidSo(predicted, 0, fact) = {} /\ TakenFor(reference, {}, fact) = {}
    BY DEF SaidSo, TakenFor
  <2>4. \A fact : Cardinality(TakenFor(reference, DOMAIN reference, fact)) \in Nat
    <3>1. \A fact : TakenFor(reference, DOMAIN reference, fact) \subseteq DOMAIN reference
      BY DEF TakenFor
    <3> QED BY <3>1, LastOfPrefix, SetSize
  <2>5. \A j \in Nat : Min({0, j}) = 0
    BY LesserOf
  <2>6. Matched(predicted, reference, {}, 0)
    BY <2>3, <2>4, <2>5, FS_EmptySet DEF Matched
  <2> QED BY <2>1, <2>2, <2>6
<1>8. ASSUME NEW k \in Nat, k \in N PROVE k + 1 \in N
  <2> SUFFICES ASSUME k + 1 <= n PROVE Matched(predicted, reference, it[1 .. k + 1], k + 1)
    OBVIOUS
  <2>1. k < n /\ Matched(predicted, reference, it[1 .. k], k)
    BY <1>1, <1>8
  <2>2. Max(1 .. k + 1) = k + 1 /\ (1 .. k + 1) \ {k + 1} = 1 .. k /\ 1 .. k + 1 # {}
    <3> DEFINE m == k + 1
    <3>1. m \in Nat \ {0} /\ m - 1 = k
      OBVIOUS
    <3> HIDE DEF m
    <3>2. Max(1 .. m) = m /\ (1 .. m) \ {m} = 1 .. m - 1 /\ 1 .. m # {}
      BY <3>1, GreatestOfPrefix
    <3> QED BY <3>1, <3>2 DEF m
  <2>3. 1 .. k + 1 \in SUBSET D
    BY <1>1
  <2>4. it[1 .. k + 1] = Taken(reference, it[1 .. k], predicted[k + 1])
    <3> DEFINE T == 1 .. k + 1
    <3>1. T # {} /\ T \in SUBSET D /\ Max(T) = k + 1 /\ T \ {k + 1} = 1 .. k
      BY <2>2, <2>3
    <3>2. it[T] = IF T = {} THEN {} ELSE Taken(reference, it[T \ {Max(T)}], predicted[Max(T)])
      BY <1>6, <3>1
    <3> HIDE DEF T
    <3>3. it[T] = Taken(reference, it[1 .. k], predicted[k + 1])
      BY <3>1, <3>2
    <3> QED BY <3>3 DEF T
  <2> QED BY <2>1, <2>4, MatchedStep
<1>9. Nat \subseteq N
  <2> HIDE DEF N
  <2> QED BY <1>7, <1>8, NatSet
<1>10. Matched(predicted, reference, it[D], n)
  BY <1>1, <1>9
<1> QED BY <1>5, <1>10

LEMMA DedupeIs == ASSUME NEW E, NEW ids \in Seq(E) PROVE DedupePreservingRank(ids) \in Seq(E)
<1> DEFINE D == DOMAIN ids
           V == Seq(E)
           Add(out, id) == IF id \in Range(out) THEN out ELSE Append(out, id)
           F == [p \in V \X E |-> Add(p[1], p[2])]
           Body(of, T) == IF T = {} THEN <<>> ELSE LET x == Max(T) IN Add(of[T \ {x}], ids[x])
           Is(of) == of = [T \in SUBSET D |-> Body(of, T)]
           it == CHOOSE of : Is(of)
<1>1. \A i \in D : ids[i] \in E
  OBVIOUS
<1>2. \A out \in V, id \in E : Add(out, id) \in V
  OBVIOUS
<1>3. F \in [V \X E -> V]
  <2> HIDE DEF V, Add
  <2> QED BY <1>2
<1>4. IsFiniteSet(D) /\ \A T \in SUBSET D : T # {} => Max(T) \in T
  BY LastOfPrefix
<1>5. \E of : Is(of)
  <2>1. <<>> \in V
    OBVIOUS
  <2> HIDE DEF V, Add
  <2>2. PICK of : Follows(of, V, <<>>, F, ids)
    <3> HIDE DEF F
    <3> QED BY <1>3, <2>1, FollowsExists
  <2>3. ASSUME NEW T \in SUBSET D PROVE of[T] = Body(of, T)
    <3>1. of[T] = IF T = {} THEN <<>> ELSE F[<<of[T \ {Max(T)}], ids[Max(T)]>>]
      BY <2>2 DEF Follows
    <3>2. CASE T = {}
      BY <3>1, <3>2
    <3>3. CASE T # {}
      <4>1. ids[Max(T)] \in E
        BY <1>1, <1>4, <3>3
      <4>2. of[T \ {Max(T)}] \in V
        BY <2>2 DEF Follows
      <4>4. F[<<of[T \ {Max(T)}], ids[Max(T)]>>] = Add(of[T \ {Max(T)}], ids[Max(T)])
        BY <4>1, <4>2
      <4> HIDE DEF F
      <4> QED BY <3>1, <3>3, <4>4
    <3> QED BY <3>2, <3>3
  <2>4. DOMAIN of = SUBSET D /\ of = [T \in DOMAIN of |-> of[T]]
    BY <2>2 DEF Follows
  <2>5. of = [T \in SUBSET D |-> Body(of, T)]
    <3> HIDE DEF Body, D
    <3> QED BY <2>3, <2>4
  <2> HIDE DEF Body
  <2> QED BY <2>5
<1>6. Is(it)
  <2> HIDE DEF Is
  <2> QED BY <1>5
<1>7. DedupePreservingRank(ids) = it[D]
  BY DEF DedupePreservingRank, FoldLeft, MapThenFoldSet
<1> HIDE DEF it
<1>8. \A T \in SUBSET D : it[T] = Body(it, T)
  <2> HIDE DEF Body, D
  <2> QED BY <1>6
<1> DEFINE G == {T \in SUBSET D : it[T] \in V}
<1>9. {} \in G
  <2>1. <<>> \in V
    BY NoElements
  <2>2. it[{}] = <<>>
    BY <1>8
  <2> HIDE DEF V
  <2> QED BY <2>1, <2>2
<1>10. ASSUME NEW T \in SUBSET D, T # {}, \A x \in T : T \ {x} \in G PROVE T \in G
  <2> HIDE DEF V, Add
  <2>1. Max(T) \in T /\ Max(T) \in D
    BY <1>4, <1>10
  <2>2. it[T] = Add(it[T \ {Max(T)}], ids[Max(T)]) /\ it[T \ {Max(T)}] \in V
    BY <1>8, <1>10, <2>1
  <2>3. ids[Max(T)] \in E
    BY <1>1, <2>1
  <2> QED BY <1>2, <2>2, <2>3
<1>11. D \in G
  <2>1. D \in SUBSET D
    OBVIOUS
  <2> HIDE DEF G, D
  <2> QED BY <1>4, <1>9, <1>10, <2>1, FiniteDescent
<1> QED BY <1>7, <1>11

LEMMA RangeCount == ASSUME NEW E, NEW s \in Seq(E) PROVE IsFiniteSet(Range(s)) /\ Cardinality(Range(s)) <= Len(s)
<1> DEFINE n == Len(s)
           f == [i \in 1 .. n |-> s[i]]
<1>1. n \in Nat /\ DOMAIN s = 1 .. n /\ Range(s) = {s[i] : i \in 1 .. n}
  BY DEF Range
<1>2. f \in Surjection(1 .. n, Range(s))
  BY <1>1 DEF Surjection
<1>3. IsFiniteSet(1 .. n) /\ Cardinality(1 .. n) = n
  BY <1>1, UpToCount
<1> HIDE DEF f, n
<1>4. IsFiniteSet(Range(s)) /\ Cardinality(Range(s)) <= Cardinality(1 .. n)
  BY <1>2, <1>3, FS_Surjection
<1> QED BY <1>3, <1>4 DEF n

LEMMA RetrievalHolds ==
  ASSUME NEW E, NEW ids \in Seq(E), NEW relevant, IsFiniteSet(relevant), NEW k \in Nat
  PROVE  LET found == RetrievalMetrics(relevant, ids, k, <<>>)
         IN  /\ found.precision[1] <= found.precision[2] /\ found.recall[1] <= found.recall[2]
             /\ found.recall[1] = 0 <=> found.rank[1] = 0
<1> DEFINE unique == DedupePreservingRank(ids)
           top == SubSeq(unique, 1, Min({k, Len(unique)}))
           both == Range(top) \cap relevant
           hits == Cardinality(both)
           ranks == {i \in DOMAIN top : top[i] \in relevant}
           found == RetrievalMetrics(relevant, ids, k, <<>>)
<1>1. unique \in Seq(E)
  BY DedupeIs
<1> HIDE DEF unique
<1>2. top \in Seq(E)
  <2>1. Len(unique) \in Nat
    BY <1>1
  <2>2. Min({k, Len(unique)}) \in Nat /\ Min({k, Len(unique)}) <= Len(unique)
    BY <2>1, LesserOf
  <2> DEFINE j == Min({k, Len(unique)})
  <2> HIDE DEF j
  <2>3. SubSeq(unique, 1, j) \in Seq(E)
    <3>1. 1 \in 1 .. Len(unique) + 1 /\ j \in 0 .. Len(unique)
      BY <2>1, <2>2 DEF j
    <3> QED BY <1>1, <3>1, SubSeqProperties
  <2> QED BY <2>3 DEF j
<1> HIDE DEF top
<1>3. relevant \cup {d \in DOMAIN <<>> : <<>>[d] > 0} = relevant
  OBVIOUS
<1>4. /\ found.precision = <<hits, Len(top)>> /\ found.recall = <<hits, Cardinality(relevant)>>
      /\ found.rank = IF relevant = {} THEN NotAvailable ELSE IF ranks = {} THEN <<0, 1>> ELSE <<1, Min(ranks)>>
  BY <1>3 DEF RetrievalMetrics, top, unique
<1>5. IsFiniteSet(Range(top)) /\ Cardinality(Range(top)) <= Len(top) /\ Len(top) \in Nat
  BY <1>2, RangeCount
<1>6. IsFiniteSet(both) /\ hits \in Nat /\ hits <= Cardinality(Range(top)) /\ hits <= Cardinality(relevant)
      /\ Cardinality(Range(top)) \in Nat
  BY <1>5, FS_Intersection, FS_CardinalityType
<1>7. hits = 0 <=> ranks = {}
  <2>1. both = {} <=> ranks = {}
    BY DEF Range
  <2> QED BY <1>6, <2>1, FS_EmptySet
<1>8. relevant = {} => hits = 0
  BY FS_EmptySet
<1>9. found.rank[1] = IF relevant = {} \/ ranks = {} THEN 0 ELSE 1
  <2> HIDE DEF found
  <2> QED BY <1>4 DEF NotAvailable
<1>10. found.recall[1] = hits /\ found.precision[1] = hits /\ found.recall[2] = Cardinality(relevant) /\ found.precision[2] = Len(top)
  <2> HIDE DEF found, hits
  <2> QED BY <1>4
<1> HIDE DEF found, hits, ranks, both
<1>11. found.recall[1] = 0 <=> found.rank[1] = 0
  BY <1>7, <1>8, <1>9, <1>10
<1>12. hits <= Len(top)
  BY <1>5, <1>6
<1> QED BY <1>6, <1>10, <1>11, <1>12 DEF found

LEMMA MatchesOneToOne == ASSUME sample \in Seq(Observation) PROVE MatchesAreOneToOne
<1> DEFINE said == [i \in DOMAIN sample |-> sample[i].said]
           truth == [i \in DOMAIN sample |-> sample[i].truth]
           A == Labels \cup {Foreign}
           n == Len(sample)
           Both(l) == Min({NumberOf(sample, LAMBDA o : o.said = l), NumberOf(sample, LAMBDA o : o.truth = l)})
           m == MatchExact(said, truth)
<1>1. n \in Nat /\ DOMAIN sample = 1 .. n /\ \A i \in DOMAIN sample : sample[i].truth \in Labels /\ sample[i].said \in A
  BY Observed
<1>2. said \in Seq(A) /\ truth \in Seq(A) /\ Len(said) = n /\ Len(truth) = n /\ DOMAIN truth = 1 .. n
  BY <1>1
<1>3. PICK used : /\ Matched(said, truth, used, n)
                  /\ m = [tp |-> Cardinality(used), fp |-> n - Cardinality(used), fn |-> n - Cardinality(used)]
  <2> HIDE DEF said, truth, n, A
  <2> QED BY <1>2, MatchIs
<1>4. used \subseteq 1 .. n /\ IsFiniteSet(used) /\ Cardinality(used) \in Nat
  <2>1. used \subseteq 1 .. n
    BY <1>2, <1>3 DEF Matched
  <2> QED BY <1>1, <2>1, UpToCount, SetSize
<1>5. \A l : Both(l) = Cardinality(Fiber(used, truth, l))
  <2> SUFFICES ASSUME NEW l PROVE Both(l) = Cardinality(Fiber(used, truth, l))
    OBVIOUS
  <2>1. NumberOf(sample, LAMBDA o : o.said = l) = Cardinality(SaidSo(said, n, l))
    BY <1>1 DEF NumberOf, SaidSo
  <2>2. NumberOf(sample, LAMBDA o : o.truth = l) = Cardinality(TakenFor(truth, DOMAIN truth, l))
    BY <1>1 DEF NumberOf, TakenFor
  <2>3. TakenFor(truth, used, l) = Fiber(used, truth, l)
    BY DEF TakenFor, Fiber
  <2> QED BY <1>3, <2>1, <2>2, <2>3 DEF Matched
<1>6. SumFunction([l \in Labels |-> Both(l)]) = Cardinality(used)
  <2> DEFINE f == [l \in Labels |-> Both(l)]
  <2>1. \A l \in Labels : f[l] = Cardinality(Fiber(used, truth, l))
    BY <1>5
  <2>2. \A i \in used : truth[i] \in Labels
    BY <1>1, <1>4
  <2>3. IsFiniteSet(Labels) /\ DOMAIN f = Labels
    BY MeasureAssumption
  <2>5. IsFiniteSet(used)
    BY <1>4
  <2> HIDE DEF f, truth, n, m, A, Both
  <2>4. Sigma(f, Labels) = Cardinality(used)
    BY <2>1, <2>2, <2>3, <2>5, CountBy
  <2> QED BY <2>3, <2>4, SumIs DEF f
<1>7. m.tp = Cardinality(used) /\ m.tp + m.fp = n /\ m.tp + m.fn = n
  <2> DEFINE c == Cardinality(used)
  <2>1. m.tp = c /\ m.fp = n - c /\ m.fn = n - c /\ c \in Nat
    BY <1>3, <1>4
  <2> HIDE DEF c, m, n
  <2> QED BY <1>1, <2>1 DEF c
<1>8. LET found == RetrievalMetrics({sample[i].truth : i \in DOMAIN sample}, said, n, <<>>)
      IN  /\ found.precision[1] <= found.precision[2] /\ found.recall[1] <= found.recall[2]
          /\ found.recall[1] = 0 <=> found.rank[1] = 0
  <2>1. IsFiniteSet({sample[i].truth : i \in DOMAIN sample})
    <3>1. IsFiniteSet({truth[i] : i \in DOMAIN sample})
      <4>1. IsFiniteSet(DOMAIN sample)
        BY Observed
      <4> HIDE DEF truth
      <4> QED BY <4>1, FiniteImage
    <3>2. {truth[i] : i \in DOMAIN sample} = {sample[i].truth : i \in DOMAIN sample}
      OBVIOUS
    <3> QED BY <3>1, <3>2
  <2> HIDE DEF said, n, A
  <2> QED BY <1>1, <1>2, <2>1, RetrievalHolds
<1> HIDE DEF said, truth, m
<1>9. Mapped(LAMBDA o : o.said) = said /\ Mapped(LAMBDA o : o.truth) = truth
  BY DEF Mapped, said, truth
<1> QED BY <1>6, <1>7, <1>8, <1>9 DEF MatchesAreOneToOne, m

(***************************************************************************)
(* Splits: the ends of the parts are the rounded shares of the clusters.   *)
(***************************************************************************)
(* Rounding is to a nearest integer, and in order. *)
LEMMA RoundIs ==
  ASSUME NEW a \in Nat, NEW d \in Nat \ {0}
  PROVE  /\ Round(a, d) \in a \div d .. a \div d + 1
         /\ 2 * (Round(a, d) * d) <= 2 * a + d /\ 2 * a <= 2 * (Round(a, d) * d) + d
         /\ a % d = 0 => Round(a, d) = a \div d
<1> DEFINE q == a \div d
           r == a % d
           x == Round(a, d)
<1>1. q \in Nat /\ r \in 0 .. d - 1 /\ a = d * q + r
  BY Quotient
<1>2. x = CASE 2 * r < d -> q [] 2 * r > d -> q + 1 [] OTHER -> IF q % 2 = 0 THEN q ELSE q + 1
  BY DEF Round
<1> HIDE DEF q, r, x
<1>3. (x = q /\ 2 * r <= d) \/ (x = q + 1 /\ 2 * r >= d)
  <2>1. CASE 2 * r < d
    BY <1>1, <1>2, <2>1
  <2>2. CASE 2 * r > d
    BY <1>1, <1>2, <2>2
  <2>3. CASE ~(2 * r < d) /\ ~(2 * r > d)
    BY <1>1, <1>2, <2>3
  <2> QED BY <2>1, <2>2, <2>3
<1>4. q * d = d * q /\ (q + 1) * d = d * q + d /\ d * q \in Nat
  BY <1>1
<1>5. 2 * (x * d) <= 2 * a + d /\ 2 * a <= 2 * (x * d) + d
  <2> DEFINE z == d * q
  <2>1. (x * d = z /\ 2 * r <= d) \/ (x * d = z + d /\ 2 * r >= d)
    BY <1>3, <1>4
  <2>2. a = z + r /\ z \in Nat /\ r \in Nat /\ r < d
    BY <1>1, <1>4
  <2> DEFINE y == x * d
  <2> HIDE DEF z, y
  <2>3. (y = z /\ 2 * r <= d) \/ (y = z + d /\ 2 * r >= d)
    BY <2>1 DEF y
  <2>4. 2 * y <= 2 * a + d /\ 2 * a <= 2 * y + d
    BY <2>2, <2>3
  <2> QED BY <2>4 DEF y
<1>6. r = 0 => x = q
  BY <1>1, <1>3
<1>7. x \in q .. q + 1
  BY <1>1, <1>3
<1> QED BY <1>5, <1>6, <1>7 DEF q, r, x

LEMMA QuotientRises ==
  ASSUME NEW a \in Nat, NEW b \in Nat, a <= b, NEW d \in Nat \ {0}
  PROVE  a \div d <= b \div d /\ (a \div d = b \div d => a % d <= b % d)
<1> DEFINE q == a \div d
           p == b \div d
           r == a % d
           s == b % d
<1>1. q \in Nat /\ r \in 0 .. d - 1 /\ a = d * q + r /\ p \in Nat /\ s \in 0 .. d - 1 /\ b = d * p + s
  BY Quotient
<1> HIDE DEF q, p, r, s
<1>2. q <= p
  <2> SUFFICES ASSUME p + 1 <= q PROVE FALSE
    BY <1>1
  <2>1. d * (p + 1) <= d * q
    <3>1. \A x, y, z \in Nat : x <= y => z * x <= z * y
      OBVIOUS
    <3> QED BY <1>1, <3>1
  <2>2. d * (p + 1) = d * p + d /\ d * p \in Nat /\ d * q \in Nat
    BY <1>1
  <2> DEFINE u == d * p
             v == d * q
  <2>3. u + d <= v /\ u \in Nat /\ v \in Nat /\ a = v + r /\ b = u + s
    BY <1>1, <2>1, <2>2
  <2> HIDE DEF u, v
  <2> QED BY <1>1, <2>3
<1>3. q = p => r <= s
  <2> SUFFICES ASSUME q = p PROVE r <= s
    OBVIOUS
  <2> DEFINE u == d * q
  <2>1. a = u + r /\ b = u + s /\ u \in Nat
    BY <1>1
  <2> HIDE DEF u
  <2> QED BY <1>1, <2>1
<1> QED BY <1>2, <1>3 DEF q, p, r, s

LEMMA RoundRises ==
  ASSUME NEW a \in Nat, NEW b \in Nat, a <= b, NEW d \in Nat \ {0}
  PROVE  Round(a, d) <= Round(b, d)
<1> DEFINE q == a \div d
           p == b \div d
           x == Round(a, d)
           y == Round(b, d)
<1>1. q \in Nat /\ p \in Nat /\ a % d \in Nat /\ b % d \in Nat
  BY Quotient
<1>2. q <= p /\ (q = p => a % d <= b % d)
  BY QuotientRises
<1>3. x \in q .. q + 1 /\ y \in p .. p + 1
  BY RoundIs
<1> SUFFICES x <= y
  OBVIOUS
<1> HIDE DEF x, y
<1>4. CASE q = p
  <2> DEFINE r == a % d
             s == b % d
             half == IF q % 2 = 0 THEN q ELSE q + 1
  <2>1. r \in Nat /\ s \in Nat /\ r <= s
    BY <1>1, <1>2, <1>4
  <2>2. /\ x = CASE 2 * r < d -> q [] 2 * r > d -> q + 1 [] OTHER -> half
        /\ y = CASE 2 * s < d -> q [] 2 * s > d -> q + 1 [] OTHER -> half
    BY <1>4 DEF Round, x, y
  <2>3. half \in q .. q + 1
    BY <1>1
  <2> HIDE DEF half, r, s, q, p
  <2>4. \/ 2 * s < d /\ 2 * r < d
        \/ 2 * s > d
        \/ ~(2 * s < d) /\ ~(2 * s > d) /\ 2 * r < d
        \/ ~(2 * s < d) /\ ~(2 * s > d) /\ ~(2 * r < d) /\ ~(2 * r > d)
    BY <2>1
  <2>5. CASE 2 * s < d /\ 2 * r < d
    <3>1. x = q
      <4>1. ~(2 * r > d)
        BY <2>1, <2>5
      <4> QED BY <2>2, <2>5, <4>1
    <3>2. y = q
      <4>1. ~(2 * s > d)
        BY <2>1, <2>5
      <4> QED BY <2>2, <2>5, <4>1
    <3> QED BY <1>1, <3>1, <3>2
  <2>6. CASE 2 * s > d
    <3>1. y = q + 1
      <4>1. ~(2 * s < d)
        BY <2>1, <2>6
      <4> QED BY <2>2, <2>6, <4>1
    <3> QED BY <1>1, <1>3, <3>1
  <2>7. CASE ~(2 * s < d) /\ ~(2 * s > d) /\ 2 * r < d
    <3>1. x = q /\ y = half
      <4>1. ~(2 * r > d)
        BY <2>1, <2>7
      <4> QED BY <2>2, <2>7, <4>1
    <3> QED BY <1>1, <2>3, <3>1
  <2>8. CASE ~(2 * s < d) /\ ~(2 * s > d) /\ ~(2 * r < d) /\ ~(2 * r > d)
    BY <1>1, <2>2, <2>3, <2>8
  <2> QED BY <2>4, <2>5, <2>6, <2>7, <2>8
<1>5. CASE q < p
  <2> HIDE DEF q, p
  <2> QED BY <1>1, <1>3, <1>5
<1> QED BY <1>1, <1>2, <1>4, <1>5

LEMMA UpToSteps ==
  ASSUME NEW w \in Nat \ {0}, NEW weights \in [1 .. w -> Nat \ {0}]
  PROVE  /\ Len(weights) = w /\ UpTo(weights, 0) = 0
         /\ \A i \in 0 .. w : UpTo(weights, i) \in Nat
         /\ \A i \in 1 .. w : UpTo(weights, i) = UpTo(weights, i - 1) + weights[i]
<1> DEFINE S == 1 .. w
<1>1. IsFiniteSet(S) /\ Len(weights) = w
  BY UpToCount
<1>2. \A x \in S : weights[x] \in Nat /\ weights[x] \in Int
  OBVIOUS
<1>3. ASSUME NEW i \in 0 .. w PROVE UpTo(weights, i) = Sigma(weights, 1 .. i) /\ UpTo(weights, i) \in Nat
  <2> DEFINE f == [j \in 1 .. i |-> weights[j]]
  <2>1. IsFiniteSet(1 .. i) /\ DOMAIN f = 1 .. i
    BY UpToCount
  <2>2. \A j \in 1 .. i : f[j] \in Int /\ weights[j] \in Int /\ f[j] <= weights[j] /\ weights[j] <= f[j] /\ f[j] \in Nat
    OBVIOUS
  <2>3. UpTo(weights, i) = SumFunction(f)
    BY DEF UpTo
  <2> HIDE DEF f
  <2>4. SumFunction(f) = Sigma(f, 1 .. i)
    BY <2>1, SumIs
  <2>5. Sigma(f, 1 .. i) <= Sigma(weights, 1 .. i) /\ Sigma(weights, 1 .. i) <= Sigma(f, 1 .. i)
    BY <2>1, <2>2, SigmaMonotone
  <2>6. Sigma(f, 1 .. i) \in Nat
    BY <2>1, <2>2, SigmaNatural
  <2>7. Sigma(weights, 1 .. i) \in Int
    <3>1. 1 .. i \in SUBSET S
      OBVIOUS
    <3> QED BY <1>1, <1>2, <3>1, SigmaStep
  <2> DEFINE x == Sigma(f, 1 .. i)
             y == Sigma(weights, 1 .. i)
  <2> HIDE DEF x, y
  <2>8. x = y
    BY <2>5, <2>6, <2>7 DEF x, y
  <2> QED BY <2>3, <2>4, <2>6, <2>8 DEF x, y
<1>4. UpTo(weights, 0) = 0
  <2>1. 1 .. 0 = {} /\ 0 \in 0 .. w
    OBVIOUS
  <2>2. Sigma(weights, {}) = 0
    BY <1>1, <1>2, SigmaStep
  <2> QED BY <1>3, <2>1, <2>2
<1>5. ASSUME NEW i \in 1 .. w PROVE UpTo(weights, i) = UpTo(weights, i - 1) + weights[i]
  <2>1. 1 .. i - 1 \in SUBSET S /\ i \in S \ (1 .. i - 1) /\ (1 .. i - 1) \cup {i} = 1 .. i
    OBVIOUS
  <2>2. Sigma(weights, (1 .. i - 1) \cup {i}) = weights[i] + Sigma(weights, 1 .. i - 1)
    <3> DEFINE P == 1 .. i - 1
               f == weights
               e == i
    <3>1. P \in SUBSET S /\ e \in S \ P
      BY <2>1
    <3>2. IsFiniteSet(S) /\ \A x \in S : f[x] \in Int
      BY <1>1, <1>2
    <3> HIDE DEF P, S, f, e
    <3>3. Sigma(f, P \cup {e}) = f[e] + Sigma(f, P)
      BY <3>1, <3>2, SigmaStep
    <3> QED BY <3>3 DEF P, f, e
  <2>3. i \in 0 .. w /\ i - 1 \in 0 .. w
    OBVIOUS
  <2>4. UpTo(weights, i) = weights[i] + UpTo(weights, i - 1) /\ UpTo(weights, i - 1) \in Nat /\ weights[i] \in Nat
    BY <1>3, <2>1, <2>2, <2>3
  <2> QED BY <2>4
<1> QED BY <1>1, <1>3, <1>4, <1>5

(* the parts' ends: in order, from none to all of the clusters *)
LEMMA TargetsRise ==
  ASSUME NEW w \in Nat \ {0}, NEW weights \in [1 .. w -> Nat \ {0}], NEW n \in Nat
  PROVE  /\ \A i \in 0 .. w : Target(weights, i, n) \in 0 .. n
         /\ Target(weights, 0, n) = 0 /\ Target(weights, w, n) = n
         /\ \A i, j \in 0 .. w : i <= j => Target(weights, i, n) <= Target(weights, j, n)
<1> DEFINE U(i) == UpTo(weights, i)
           all == U(w)
           T(i) == Target(weights, i, n)
<1>1. U(0) = 0 /\ (\A i \in 0 .. w : U(i) \in Nat) /\ (\A i \in 1 .. w : U(i) = U(i - 1) + weights[i])
      /\ Len(weights) = w /\ \A i \in 1 .. w : weights[i] \in Nat \ {0}
  BY UpToSteps
<1>2. \A i \in 0 .. w : T(i) = Round(U(i) * n, all)
  BY <1>1 DEF Target
<1> HIDE DEF U, T
<1>3. \A i \in 0 .. w : \A k \in Nat : i + k <= w => U(i) <= U(i + k)
  <2> SUFFICES ASSUME NEW i \in 0 .. w PROVE \A k \in Nat : i + k <= w => U(i) <= U(i + k)
    OBVIOUS
  <2> DEFINE N == {k \in Nat : i + k <= w => U(i) <= U(i + k)}
  <2>1. 0 \in N
    BY <1>1
  <2>2. ASSUME NEW k \in Nat, k \in N PROVE k + 1 \in N
    <3> SUFFICES ASSUME i + (k + 1) <= w PROVE U(i) <= U(i + (k + 1))
      OBVIOUS
    <3>1. U(i) <= U(i + k) /\ i + (k + 1) \in 1 .. w /\ i + k \in 0 .. w /\ (i + (k + 1)) - 1 = i + k
      BY <2>2
    <3>2. U(i + (k + 1)) = U(i + k) + weights[i + (k + 1)] /\ weights[i + (k + 1)] \in Nat /\ U(i + k) \in Nat /\ U(i) \in Nat
      BY <1>1, <3>1
    <3> QED BY <3>1, <3>2
  <2>3. Nat \subseteq N
    <3> HIDE DEF N
    <3> QED BY <2>1, <2>2, NatSet
  <2> QED BY <2>3
<1>4. \A i, j \in 0 .. w : i <= j => U(i) <= U(j)
  <2> SUFFICES ASSUME NEW i \in 0 .. w, NEW j \in 0 .. w, i <= j PROVE U(i) <= U(j)
    OBVIOUS
  <2>1. j - i \in Nat /\ i + (j - i) = j /\ j <= w
    OBVIOUS
  <2> QED BY <1>3, <2>1
<1>5. all \in Nat \ {0}
  <2>1. 1 \in 1 .. w /\ 1 \in 0 .. w /\ w \in 0 .. w /\ 1 - 1 = 0 /\ 1 <= w
    OBVIOUS
  <2>2. U(1) = U(0) + weights[1] /\ U(1) <= U(w) /\ U(w) \in Nat /\ U(0) = 0 /\ weights[1] \in Nat \ {0}
    BY <1>1, <1>4, <2>1
  <2> QED BY <2>2
<1> HIDE DEF all
<1>6. \A i \in 0 .. w : U(i) * n \in Nat
  BY <1>1
<1>7. \A i, j \in 0 .. w : i <= j => T(i) <= T(j)
  <2> SUFFICES ASSUME NEW i \in 0 .. w, NEW j \in 0 .. w, i <= j PROVE T(i) <= T(j)
    OBVIOUS
  <2>1. U(i) <= U(j) /\ U(i) \in Nat /\ U(j) \in Nat
    BY <1>1, <1>4
  <2>2. U(i) * n <= U(j) * n
    <3>1. \A x, y, z \in Nat : x <= y => x * z <= y * z
      OBVIOUS
    <3> QED BY <2>1, <3>1
  <2>3. Round(U(i) * n, all) <= Round(U(j) * n, all)
    BY <1>5, <1>6, <2>2, RoundRises
  <2> QED BY <1>2, <2>3
<1>8. T(0) = 0
  <2>1. 0 \in 0 .. w /\ U(0) * n = 0
    BY <1>1
  <2>2. 0 % all = 0 /\ 0 \div all = 0
    BY <1>5
  <2>3. Round(0, all) = 0
    BY <1>5, <2>2, RoundIs
  <2> QED BY <1>2, <2>1, <2>3
<1>9. T(w) = n
  <2>1. w \in 0 .. w /\ U(w) = all
    BY DEF all
  <2>2. (all * n) % all = 0 /\ (all * n) \div all = n /\ all * n \in Nat
    <3>1. (n * all) \div all = n /\ n * all = all * n /\ all * n \in Nat
      BY <1>5, ExactQuotient
    <3>2. all * n = all * ((all * n) \div all) + ((all * n) % all) /\ (all * n) % all \in 0 .. all - 1
      BY <1>5, <3>1, Quotient
    <3> DEFINE x == all * n
               y == x % all
    <3>3. x = x + y /\ y \in Nat /\ x \in Nat
      BY <3>1, <3>2
    <3> HIDE DEF x, y
    <3>4. y = 0
      BY <3>3
    <3> QED BY <3>1, <3>4 DEF x, y
  <2>3. Round(all * n, all) = n
    BY <1>5, <2>2, RoundIs
  <2> QED BY <1>2, <2>1, <2>3
<1>10. ASSUME NEW i \in 0 .. w PROVE T(i) \in 0 .. n
  <2>1. T(0) <= T(i) /\ T(i) <= T(w)
    BY <1>7
  <2>2. T(i) \in Int
    <3>1. Round(U(i) * n, all) \in (U(i) * n) \div all .. (U(i) * n) \div all + 1
      BY <1>5, <1>6, RoundIs
    <3> QED BY <1>2, <3>1
  <2> QED BY <1>8, <1>9, <2>1, <2>2
<1> QED BY <1>7, <1>8, <1>9, <1>10 DEF T

(* Each part is the clusters after the previous part's end, up to its own. *)
LEMMA PartIs ==
  ASSUME NEW w \in Nat \ {0}, NEW weights \in [1 .. w -> Nat \ {0}], NEW n \in Nat, NEW i \in 1 .. w
  PROVE  {c \in 1 .. n : AssignClusterSplits(weights, n)[c] = i} = Target(weights, i - 1, n) + 1 .. Target(weights, i, n)
<1> DEFINE T(j) == Target(weights, j, n)
           In(c, j) == c <= T(j) /\ (j > 1 => c > T(j - 1))
           split == AssignClusterSplits(weights, n)
<1>1. /\ \A j \in 0 .. w : T(j) \in 0 .. n
      /\ T(0) = 0 /\ T(w) = n
      /\ \A j, k \in 0 .. w : j <= k => T(j) <= T(k)
  BY TargetsRise
<1>2. DOMAIN weights = 1 .. w
  OBVIOUS
<1>3. \A c \in 1 .. n : split[c] = CHOOSE j \in 1 .. w : In(c, j)
  BY <1>2 DEF AssignClusterSplits
<1> HIDE DEF T, split
<1>4. \A c \in 1 .. n : \E j \in 1 .. w : In(c, j)
  <2> SUFFICES ASSUME NEW c \in 1 .. n PROVE \E j \in 1 .. w : In(c, j)
    OBVIOUS
  <2> DEFINE S == {j \in 1 .. w : c <= T(j)}
             k == Min(S)
  <2>1. S \subseteq Int /\ S # {} /\ IsFiniteSet(S)
    <3>1. w \in S
      BY <1>1
    <3>2. IsFiniteSet(S)
      BY UpToCount, SetSize
    <3> QED BY <3>1, <3>2
  <2>2. k \in S /\ \A j \in S : k <= j
    <3> HIDE DEF S
    <3> QED BY <2>1, FiniteExtremes
  <2> HIDE DEF k
  <2>3. ASSUME k > 1 PROVE c > T(k - 1)
    <3>1. k - 1 \in 1 .. w /\ k - 1 \in 0 .. w /\ ~(k <= k - 1)
      BY <2>2, <2>3
    <3>2. ~(c <= T(k - 1))
      BY <2>2, <3>1
    <3>3. T(k - 1) \in Nat
      BY <1>1, <3>1
    <3> QED BY <3>2, <3>3
  <2> QED BY <2>2, <2>3
<1>5. ASSUME NEW c \in 1 .. n, NEW j \in 1 .. w, NEW k \in 1 .. w, In(c, j), In(c, k), j < k PROVE FALSE
  <2>1. j <= k - 1 /\ k - 1 \in 0 .. w /\ j \in 0 .. w /\ k > 1
    BY <1>5
  <2>2. T(j) <= T(k - 1) /\ T(j) \in Nat /\ T(k - 1) \in Nat
    BY <1>1, <2>1
  <2>3. c <= T(j) /\ c > T(k - 1)
    BY <1>5, <2>1
  <2> QED BY <2>2, <2>3
<1>6. \A c \in 1 .. n : split[c] \in 1 .. w /\ In(c, split[c])
  <2> HIDE DEF In
  <2> QED BY <1>3, <1>4
<1>7. \A c \in 1 .. n : split[c] = i <=> In(c, i)
  <2> SUFFICES ASSUME NEW c \in 1 .. n, In(c, i) PROVE split[c] = i
    BY <1>6
  <2>1. ~(split[c] < i) /\ ~(i < split[c])
    <3> HIDE DEF In
    <3> QED BY <1>5, <1>6
  <2> DEFINE j == split[c]
  <2>2. j \in Nat /\ i \in Nat /\ ~(j < i) /\ ~(i < j)
    BY <1>6, <2>1
  <2> HIDE DEF j
  <2>3. j = i
    BY <2>2
  <2> QED BY <2>3 DEF j
<1>8. \A c \in 1 .. n : In(c, i) <=> c \in T(i - 1) + 1 .. T(i)
  <2>1. T(i - 1) \in 0 .. n /\ T(i) \in 0 .. n /\ (i = 1 => T(i - 1) = 0)
    <3>1. i - 1 \in 0 .. w /\ i \in 0 .. w /\ (i = 1 => i - 1 = 0)
      OBVIOUS
    <3> QED BY <1>1, <3>1
  <2> QED BY <2>1
<1>9. T(i - 1) + 1 .. T(i) \subseteq 1 .. n
  <2>1. T(i - 1) \in 0 .. n /\ T(i) \in 0 .. n
    BY <1>1
  <2> QED BY <2>1
<1> HIDE DEF In
<1>10. {c \in 1 .. n : split[c] = i} = T(i - 1) + 1 .. T(i)
  BY <1>7, <1>8, <1>9
<1> QED BY <1>10 DEF T, split

(* so its size is within one of its share of the clusters *)
LEMMA PartsAreShares ==
  ASSUME NEW w \in Nat \ {0}, NEW weights \in [1 .. w -> Nat \ {0}], NEW n \in Nat, NEW i \in 1 .. w
  PROVE  AtMost(Distance(<<Cardinality({c \in 1 .. n : AssignClusterSplits(weights, n)[c] = i}), 1>>,
                         <<weights[i] * n, UpTo(weights, w)>>), <<1, 1>>)
<1> DEFINE a == Target(weights, i - 1, n)
           b == Target(weights, i, n)
           u == UpTo(weights, i - 1)
           v == UpTo(weights, i)
           all == UpTo(weights, w)
           c == Cardinality({k \in 1 .. n : AssignClusterSplits(weights, n)[k] = i})
           g == weights[i]
<1>1. i - 1 \in 0 .. w /\ i \in 0 .. w /\ w \in 0 .. w /\ i - 1 <= i
  OBVIOUS
<1>2. a \in Nat /\ b \in Nat /\ a <= b
  <2>1. \A j \in 0 .. w : Target(weights, j, n) \in 0 .. n
    BY TargetsRise
  <2>2. \A j, k \in 0 .. w : j <= k => Target(weights, j, n) <= Target(weights, k, n)
    BY TargetsRise
  <2>3. a \in 0 .. n /\ b \in 0 .. n
    BY <1>1, <2>1
  <2>4. a <= b
    BY <1>1, <2>2
  <2> HIDE DEF a, b
  <2> QED BY <2>3, <2>4
<1>3. u \in Nat /\ v \in Nat /\ g \in Nat \ {0} /\ v = u + g /\ Len(weights) = w
  <2>1. \A k \in 1 .. w : weights[k] \in Nat \ {0}
    OBVIOUS
  <2> QED BY <1>1, <2>1, UpToSteps
<1>4. all \in Nat \ {0}
  <2> DEFINE t == UpTo(weights, w - 1)
  <2>1. w \in 1 .. w /\ w - 1 \in 0 .. w /\ weights[w] \in Nat \ {0}
    OBVIOUS
  <2>2. all = t + weights[w] /\ t \in Nat
    BY <2>1, UpToSteps
  <2> HIDE DEF all, t
  <2> QED BY <2>1, <2>2
<1>5. a = Round(u * n, all) /\ b = Round(v * n, all)
  BY <1>3 DEF Target
<1>6. c = b - a
  <2>1. {k \in 1 .. n : AssignClusterSplits(weights, n)[k] = i} = Target(weights, i - 1, n) + 1 .. Target(weights, i, n)
    BY PartIs
  <2>2. c = Cardinality(a + 1 .. b)
    BY <2>1
  <2> HIDE DEF a, b, c
  <2>3. a + 1 \in Int /\ b \in Int
    BY <1>2
  <2>4. Cardinality(a + 1 .. b) = IF a + 1 > b THEN 0 ELSE b - (a + 1) + 1
    BY <2>3, FS_Interval
  <2> QED BY <1>2, <2>2, <2>4
<1> HIDE DEF a, b, u, v, all, c, g
<1>7. u * n \in Nat /\ v * n \in Nat /\ v * n = u * n + g * n /\ g * n \in Nat
  BY <1>3
<1>8. /\ 2 * (a * all) <= 2 * (u * n) + all /\ 2 * (u * n) <= 2 * (a * all) + all
      /\ 2 * (b * all) <= 2 * (v * n) + all /\ 2 * (v * n) <= 2 * (b * all) + all
  BY <1>4, <1>5, <1>7, RoundIs
<1>9. c * all = b * all - a * all /\ a * all \in Nat /\ b * all \in Nat /\ c * all \in Int
  BY <1>2, <1>4, <1>6
<1>10. c * all - g * n <= all /\ g * n - c * all <= all
  <2> DEFINE A == a * all
             B == b * all
             C == c * all
             U == u * n
             V == v * n
             G == g * n
  <2>1. /\ 2 * A <= 2 * U + all /\ 2 * U <= 2 * A + all /\ 2 * B <= 2 * V + all /\ 2 * V <= 2 * B + all
        /\ C = B - A /\ V = U + G /\ A \in Nat /\ B \in Nat /\ U \in Nat /\ V \in Nat /\ G \in Nat
    BY <1>7, <1>8, <1>9
  <2> HIDE DEF A, B, C, U, V, G
  <2>2. C - G <= all /\ G - C <= all
    BY <1>4, <2>1
  <2> QED BY <2>2 DEF C, G
<1>11. Minus(<<c, 1>>, <<g * n, all>>) = <<c * all - (g * n) * 1, 1 * all>>
  BY DEF Minus
<1>12. Minus(<<c, 1>>, <<g * n, all>>) = <<c * all - g * n, all>>
  BY <1>4, <1>7, <1>11
<1> DEFINE x == c * all - g * n
<1>13. x \in Int /\ x <= all /\ -x <= all
  <2> DEFINE C == c * all
             G == g * n
  <2>1. C \in Int /\ G \in Int /\ C - G <= all /\ G - C <= all /\ all \in Int
    BY <1>4, <1>7, <1>9, <1>10
  <2> HIDE DEF C, G
  <2>2. C - G \in Int /\ C - G <= all /\ -(C - G) <= all
    BY <2>1
  <2> QED BY <2>2 DEF C, G
<1>14. Minus(<<c, 1>>, <<g * n, all>>) = <<x, all>>
  BY <1>12
<1> HIDE DEF x
<1>15. Distance(<<c, 1>>, <<g * n, all>>) = <<IF x < 0 THEN -x ELSE x, all>>
  BY <1>14 DEF Distance
<1>16. AtMost(Distance(<<c, 1>>, <<g * n, all>>), <<1, 1>>)
  BY <1>4, <1>13, <1>15 DEF AtMost
<1> QED BY <1>16 DEF c, g, all

(* two cases of each cluster, in the split of their cluster *)
CaseOf(split, i) == [id |-> i, cluster |-> (i + 1) \div 2, split |-> split[(i + 1) \div 2], hash |-> i % 3]
CasesOf(split, n) == [i \in 1 .. 2 * n |-> CaseOf(split, i)]

LEMMA ClustersStayWhole ==
  ASSUME NEW n \in Nat, NEW split, NEW cases, cases = CasesOf(split, n)
  PROVE  /\ SplitManifest(cases).leaking = {} /\ Cardinality(SplitManifest(cases).clusters) = n
         /\ \A g, h \in FindDuplicates(cases) : g # h => g \cap h = {}
<1> DEFINE R == Range(cases)
           Splits(cluster) == {c.split : c \in {d \in R : d.cluster = cluster}}
           Ids(hash) == {c.id : c \in {d \in R : d.hash = hash}}
<1>1. \A c \in R : \E i \in 1 .. 2 * n : c = CaseOf(split, i)
  BY DEF Range, CasesOf
<1>2. \A i \in 1 .. 2 * n : CaseOf(split, i) \in R
  BY DEF Range, CasesOf
<1> HIDE DEF R
<1>3. \A c \in R : c.split = split[c.cluster] /\ c.id \in 1 .. 2 * n /\ c = CaseOf(split, c.id) /\ c.cluster \in 1 .. n
  <2> SUFFICES ASSUME NEW i \in 1 .. 2 * n PROVE (i + 1) \div 2 \in 1 .. n
    BY <1>1 DEF CaseOf
  <2> QED OBVIOUS
<1>4. \A cluster : IsFiniteSet(Splits(cluster)) /\ Cardinality(Splits(cluster)) <= 1
  <2> SUFFICES ASSUME NEW cluster PROVE IsFiniteSet(Splits(cluster)) /\ Cardinality(Splits(cluster)) <= 1
    OBVIOUS
  <2>1. Splits(cluster) \subseteq {split[cluster]}
    BY <1>3
  <2>2. IsFiniteSet({split[cluster]}) /\ Cardinality({split[cluster]}) = 1
    BY FS_Singleton
  <2> HIDE DEF Splits
  <2> QED BY <2>1, <2>2, SetSize
<1>5. SplitManifest(cases).leaking = {}
  <2>1. SplitManifest(cases).leaking = {cluster \in {c.cluster : c \in R} : Cardinality(Splits(cluster)) > 1}
    BY DEF SplitManifest, R
  <2>2. \A cluster : ~(Cardinality(Splits(cluster)) > 1)
    <3> SUFFICES ASSUME NEW cluster PROVE ~(Cardinality(Splits(cluster)) > 1)
      OBVIOUS
    <3>1. Cardinality(Splits(cluster)) \in Nat /\ Cardinality(Splits(cluster)) <= 1
      BY <1>4, FS_CardinalityType
    <3> HIDE DEF Splits
    <3> QED BY <3>1
  <2> HIDE DEF Splits
  <2> QED BY <2>1, <2>2
<1>6. SplitManifest(cases).clusters = 1 .. n
  <2>1. SplitManifest(cases).clusters = {c.cluster : c \in R}
    BY DEF SplitManifest, R
  <2>2. ASSUME NEW k \in 1 .. n PROVE \E c \in R : c.cluster = k
    <3>1. 2 * k \in 1 .. 2 * n /\ (2 * k + 1) \div 2 = k
      OBVIOUS
    <3>2. CaseOf(split, 2 * k).cluster = k
      BY <3>1 DEF CaseOf
    <3> QED BY <1>2, <3>1, <3>2
  <2> QED BY <1>3, <2>1, <2>2
<1>7. \A g \in FindDuplicates(cases) : \E hash : g = Ids(hash)
  BY DEF FindDuplicates, R
<1>8. \A k, l : k # l => Ids(k) \cap Ids(l) = {}
  <2> SUFFICES ASSUME NEW k, NEW l, NEW x, x \in Ids(k), x \in Ids(l) PROVE k = l
    OBVIOUS
  <2>1. PICK c \in R : c.hash = k /\ c.id = x
    OBVIOUS
  <2>2. PICK d \in R : d.hash = l /\ d.id = x
    OBVIOUS
  <2> QED BY <1>3, <2>1, <2>2
<1> HIDE DEF Ids
<1>9. \A g, h \in FindDuplicates(cases) : g # h => g \cap h = {}
  BY <1>7, <1>8
<1>10. Cardinality(1 .. n) = n
  BY UpToCount
<1> QED BY <1>5, <1>6, <1>9, <1>10

LEMMA SplitsKeep == ASSUME sample \in Seq(Observation) PROVE SplitsKeepClusters
<1> DEFINE weights == [i \in DOMAIN sample |-> sample[i].p + 1]
           w == Len(sample)
           all == UpTo(weights, Len(weights))
<1> SUFFICES ASSUME NEW n \in 0 .. 4, sample # <<>>
             PROVE  LET split == AssignClusterSplits(weights, n)
                        cases == [i \in 1 .. 2 * n |-> [id |-> i, cluster |-> (i + 1) \div 2, split |-> split[(i + 1) \div 2], hash |-> i % 3]]
                    IN  /\ \A i \in DOMAIN weights :
                              AtMost(Distance(<<Cardinality({c \in 1 .. n : split[c] = i}), 1>>, <<weights[i] * n, all>>), <<1, 1>>)
                        /\ SplitManifest(cases).leaking = {} /\ Cardinality(SplitManifest(cases).clusters) = n
                        /\ \A g, h \in FindDuplicates(cases) : g # h => g \cap h = {}
  BY DEF SplitsKeepClusters, Mapped
<1>1. w \in Nat \ {0} /\ weights \in [1 .. w -> Nat \ {0}] /\ DOMAIN weights = 1 .. w /\ n \in Nat
  <2>1. w \in Nat /\ DOMAIN sample = 1 .. w /\ \A i \in DOMAIN sample : sample[i].p \in Nat
    BY Observed
  <2>2. w # 0
    OBVIOUS
  <2> QED BY <2>1, <2>2
<1>2. Len(weights) = w
  BY <1>1
<1> HIDE DEF weights, w
<1> DEFINE split == AssignClusterSplits(weights, n)
           cases == [i \in 1 .. 2 * n |-> [id |-> i, cluster |-> (i + 1) \div 2, split |-> split[(i + 1) \div 2], hash |-> i % 3]]
<1>3. \A i \in DOMAIN weights :
        AtMost(Distance(<<Cardinality({c \in 1 .. n : split[c] = i}), 1>>, <<weights[i] * n, all>>), <<1, 1>>)
  BY <1>1, <1>2, PartsAreShares
<1> HIDE DEF split
<1>4. cases = CasesOf(split, n)
  BY DEF CasesOf, CaseOf
<1>5. SplitManifest(cases).leaking = {} /\ Cardinality(SplitManifest(cases).clusters) = n
      /\ \A g, h \in FindDuplicates(cases) : g # h => g \cap h = {}
  <2> HIDE DEF cases
  <2> QED BY <1>1, <1>4, ClustersStayWhole
<1> QED BY <1>3, <1>5 DEF split

(* A sample grows by observations. *)
LEMMA Observes == ASSUME sample \in Seq(Observation), [Observe]_sample PROVE sample' \in Seq(Observation)
<1>1. CASE Observe
  <2>1. PICK truth \in Labels, said \in Labels \cup {Foreign}, p \in 0 .. Grain :
          sample' = Append(sample, [truth |-> truth, said |-> said, p |-> p])
    BY <1>1 DEF Observe
  <2>2. [truth |-> truth, said |-> said, p |-> p] \in Observation
    BY DEF Observation
  <2> QED BY <2>1, <2>2
<1>2. CASE UNCHANGED sample
  BY <1>2
<1> QED BY <1>1, <1>2

(* For any labels and any grain of the probabilities, every measure of every
   sample is what its definition says: the counts of labels add up, pass@k and
   repeatability are shares of draws, each probability is in its bin, risk
   falls on ever fewer observations, quantiles are ordered, matching is one to
   one, and a split keeps clusters whole and their parts within one of their
   shares (statistics/classification.py, statistics/core.py, domain/splits.py). *)
THEOREM MeasuresAreRight == MeasureInit /\ [][Observe]_sample => []MeasuresAgreeWithDefinitions
<1>1. MeasureInit => sample \in Seq(Observation)
  BY NoElements DEF MeasureInit
<1>2. sample \in Seq(Observation) /\ [Observe]_sample => (sample \in Seq(Observation))'
  BY Observes
<1>3. sample \in Seq(Observation) => MeasuresAgreeWithDefinitions
  BY LabelsAdd, RepeatsDrawn, ProbabilitiesBinned, RisksCovered, QuantilesOrdered, MatchesOneToOne, SplitsKeep
  DEF MeasuresAgreeWithDefinitions
<1> QED BY <1>1, <1>2, <1>3, PTL
=============================================================================
