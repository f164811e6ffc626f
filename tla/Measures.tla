------------------------------- MODULE Measures ------------------------------
(******************************************************************************)
(* The measures of statistics/ that count, and the cluster split of           *)
(* domain/splits.py, as operators, checked against their definitions on every *)
(* small sample.  A probability is an integer over Grain, a rate is           *)
(* <<numerator, denominator>>, NotAvailable if there is none.                 *)
(******************************************************************************)
EXTENDS Checks, Combinatorics

CONSTANTS Labels, Foreign,  \* the allowed labels, and an answer that is none of them
          Grain,
          MaxSample         \* bound: observations of a sample

ASSUME MeasureAssumption == /\ IsFiniteSet(Labels) /\ Foreign \notin Labels
                            /\ Grain \in Nat \ {0} /\ MaxSample \in Nat

VARIABLE sample  \* observations [truth, said, p]: a label, an answer, and the probability given to it

Ratio(n, d) == IF d = 0 THEN NotAvailable ELSE <<n, d>>
Same(a, b) == (a = NotAvailable <=> b = NotAvailable) /\ a[1] * b[2] = b[1] * a[2]
Minus(a, b) == <<a[1] * b[2] - b[1] * a[2], a[2] * b[2]>>
Distance(a, b) == LET d == Minus(a, b) IN <<IF d[1] < 0 THEN -d[1] ELSE d[1], d[2]>>
AtMost(a, b) == a[1] * b[2] <= b[1] * a[2]
NumberOf(s, Test(_)) == Cardinality({i \in DOMAIN s : Test(s[i])})

Right(o) == o.said = o.truth
Successes(s) == NumberOf(s, Right)

-----------------------------------------------------------------------------
(* statistics/classification.py *)

Prf(tp, fp, fn) ==
    [tp |-> tp, fp |-> fp, fn |-> fn, precision |-> Ratio(tp, tp + fp), recall |-> Ratio(tp, tp + fn),
     f1 |-> Ratio(2 * tp, 2 * tp + fp + fn)]

Confusion(s, label, said) == NumberOf(s, LAMBDA o : o.truth = label /\ o.said = said)
LabelMetrics(s, label) ==
    Prf(Confusion(s, label, label),
        SumFunction([other \in Labels \ {label} |-> Confusion(s, other, label)]),
        SumFunction([said \in (Labels \ {label}) \cup {Foreign} |-> Confusion(s, label, said)]))

ClassMetrics(s) ==
    LET of == [label \in Labels |-> LabelMetrics(s, label)]
        tp == SumFunction([label \in Labels |-> of[label].tp])
    IN  [of |-> of,
         micro |-> Prf(tp, SumFunction([label \in Labels |-> of[label].fp]), SumFunction([label \in Labels |-> of[label].fn])),
         eligible |-> {label \in Labels : of[label].tp + of[label].fn > 0},
         accuracy |-> Ratio(tp, Len(s)),
         foreign |-> NumberOf(s, LAMBDA o : o.said = Foreign)]

-----------------------------------------------------------------------------
(* statistics/core.py *)

Ways(n, k) == IF k > n THEN 0 ELSE choose(n, k)
PassAtK(c, n, k) == IF n - c >= k THEN Minus(<<1, 1>>, Ratio(Ways(n - c, k), Ways(n, k))) ELSE <<1, 1>>
PassAllK(c, n, k) == IF c >= k THEN Ratio(Ways(c, k), Ways(n, k)) ELSE <<0, 1>>

Repeatability(outcomes) ==
    LET Count(v) == NumberOf(outcomes, LAMBDA w : w = v)
        kinds == Range(outcomes)
        n == Len(outcomes)
    IN  [distinct |-> Cardinality(kinds), modal |-> Ratio(Max({Count(v) : v \in kinds}), n),
         pairwise |-> Ratio(SumFunction([v \in kinds |-> Count(v) * (Count(v) - 1)]), n * (n - 1))]

Unclamped(p, bins) == (p * bins) \div Grain  \* slip: a probability of one has no bin
BinOf(p, bins) == Min({bins - 1, (p * bins) \div Grain})

CalibrationBins(s, bins) ==
    LET Members(b) == {i \in DOMAIN s : BinOf(s[i].p, bins) = b}
        Prediction(b) == Ratio(SumFunction([i \in Members(b) |-> s[i].p]), Grain * Cardinality(Members(b)))
        Outcome(b) == Ratio(Cardinality({i \in Members(b) : Right(s[i])}), Cardinality(Members(b)))
    IN  [b \in 0 .. bins - 1 |-> [members |-> Members(b), prediction |-> Prediction(b), outcome |-> Outcome(b),
                                  gap |-> IF Members(b) = {} THEN NotAvailable ELSE Distance(Prediction(b), Outcome(b))]]

SelectiveRisk(s, threshold) ==
    LET accepted == {i \in DOMAIN s : s[i].p >= threshold}
    IN  [accepted |-> accepted, coverage |-> Ratio(Cardinality(accepted), Len(s)),
         risk |-> Ratio(Cardinality({i \in accepted : ~Right(s[i])}), Cardinality(accepted))]
RiskCoverageCurve(s) == [t \in {0, Grain} \cup {s[i].p : i \in DOMAIN s} |-> SelectiveRisk(s, t)]

(* The i-th of the values in their order: the least that i of them do not exceed. *)
Sorted(values) == [i \in DOMAIN values |-> Min({v \in Range(values) : NumberOf(values, LAMBDA w : w <= v) >= i})]

(* Type 7, for the quantile num/den: between the order statistics around it. *)
LinearQuantile(values, num, den) ==
    LET data == Sorted(values)
        lower == (num * (Len(data) - 1)) \div den
        upper == Min({lower + 1, Len(data) - 1})
        rest == (num * (Len(data) - 1)) % den
    IN  IF data = <<>> THEN NotAvailable
        ELSE <<data[lower + 1] * den + rest * (data[upper + 1] - data[lower + 1]), den>>

(* The mean of zeros and ones weighted by the probabilities; refused without weight. *)
WeightedMean(s) == Ratio(SumFunction([i \in DOMAIN s |-> IF Right(s[i]) THEN s[i].p ELSE 0]),
                         SumFunction([i \in DOMAIN s |-> s[i].p]))

-----------------------------------------------------------------------------
(* domain/splits.py: clusters 1 .. n in the order of their hashes, weights the fractions. *)

(* round() takes the even one of two neighbours. *)
Round(n, d) ==
    LET q == n \div d
        r == 2 * (n % d)
    IN  CASE r < d -> q [] r > d -> q + 1 [] OTHER -> IF q % 2 = 0 THEN q ELSE q + 1

UpTo(weights, i) == SumFunction([j \in 1 .. i |-> weights[j]])
Target(weights, i, n) == Round(UpTo(weights, i) * n, UpTo(weights, Len(weights)))
AssignClusterSplits(weights, n) ==
    [cluster \in 1 .. n |-> CHOOSE i \in DOMAIN weights : /\ cluster <= Target(weights, i, n)
                                                          /\ i > 1 => cluster > Target(weights, i - 1, n)]

(* cases: sequence of [id, cluster, split, hash]. *)
SplitManifest(cases) ==
    LET Splits(cluster) == {c.split : c \in {d \in Range(cases) : d.cluster = cluster}}
    IN  [count |-> Len(cases), clusters |-> {c.cluster : c \in Range(cases)},
         leaking |-> {cluster \in {c.cluster : c \in Range(cases)} : Cardinality(Splits(cluster)) > 1}]
FindDuplicates(cases) ==
    {ids \in {{c.id : c \in {d \in Range(cases) : d.hash = h}} : h \in {c.hash : c \in Range(cases)}} : Cardinality(ids) > 1}

-----------------------------------------------------------------------------
MeasureInit == sample = <<>>

Observe ==
    /\ Len(sample) < MaxSample
    /\ \E truth \in Labels, said \in Labels \cup {Foreign}, p \in 0 .. Grain :
         sample' = Append(sample, [truth |-> truth, said |-> said, p |-> p])

-----------------------------------------------------------------------------
(* What a measure is, by its definition. *)

Groups(k) == {g \in SUBSET DOMAIN sample : Cardinality(g) = k}
Mapped(F(_)) == [i \in DOMAIN sample |-> F(sample[i])]

LabelsAddUp ==
    LET m == ClassMetrics(sample) IN
    /\ m.micro.tp + m.micro.fn = Len(sample) /\ m.micro.fn = m.micro.fp + m.foreign
    /\ Same(m.accuracy, Ratio(Successes(sample), Len(sample)))
    /\ \A label \in m.eligible : m.of[label].precision # NotAvailable =>
           LET a == m.of[label].precision
               b == m.of[label].recall
           IN  Same(m.of[label].f1, Ratio(2 * a[1] * b[1], a[1] * b[2] + b[1] * a[2])) \/ m.of[label].tp = 0

RepeatsAreDrawn ==
    /\ \A k \in 1 .. Len(sample) :
        LET Share(Test(_)) == Ratio(Cardinality({g \in Groups(k) : Test(g)}), Cardinality(Groups(k)))
            pass == PassAtK(Successes(sample), Len(sample), k)
        IN  /\ Same(pass, Share(LAMBDA g : \E i \in g : Right(sample[i])))
            /\ Same(PassAllK(Successes(sample), Len(sample), k), Share(LAMBDA g : \A i \in g : Right(sample[i])))
    /\ Len(sample) > 1 =>
        Same(Repeatability(Mapped(LAMBDA o : o.said)).pairwise,
             Ratio(Cardinality({g \in Groups(2) : \A i, j \in g : sample[i].said = sample[j].said}),
                   Cardinality(Groups(2))))

ProbabilitiesAreBinned ==
    \A bins \in 1 .. 3 :
        LET b == CalibrationBins(sample, bins) IN
        /\ \A i \in DOMAIN sample : \E n \in DOMAIN b : /\ i \in b[n].members
                                                        /\ \A m \in DOMAIN b : i \in b[m].members => m = n
                                                        /\ n * Grain <= sample[i].p * bins
        /\ \A n \in DOMAIN b : b[n].members # {} =>
               /\ AtMost(<<n, bins>>, b[n].prediction) /\ AtMost(b[n].prediction, <<n + 1, bins>>)
               /\ AtMost(b[n].gap, <<1, 1>>)

RisksAreCovered ==
    LET curve == RiskCoverageCurve(sample) IN
    /\ curve[0].accepted = DOMAIN sample
    /\ \A t, u \in DOMAIN curve : t <= u => curve[u].accepted \subseteq curve[t].accepted
    /\ \A t \in DOMAIN curve : curve[t].accepted # {} => AtMost(curve[t].risk, <<1, 1>>)
    /\ WeightedMean(sample) # NotAvailable => AtMost(<<0, 1>>, WeightedMean(sample)) /\ AtMost(WeightedMean(sample), <<1, 1>>)

QuantilesAreOrdered ==
    LET values == Mapped(LAMBDA o : o.p)
        At(num) == LinearQuantile(values, num, 4)
    IN  sample # <<>> =>
          /\ At(0)[1] = 4 * Min(Range(values)) /\ At(4)[1] = 4 * Max(Range(values))
          /\ \A num \in 0 .. 3 : AtMost(At(num), At(num + 1))
          /\ 4 * NumberOf(values, LAMBDA v : AtMost(<<v, 1>>, At(2))) >= 2 * Len(values)

MatchesAreOneToOne ==
    LET m == MatchExact(Mapped(LAMBDA o : o.said), Mapped(LAMBDA o : o.truth))
        Both(l) == Min({NumberOf(sample, LAMBDA o : o.said = l), NumberOf(sample, LAMBDA o : o.truth = l)})
        found == RetrievalMetrics({sample[i].truth : i \in DOMAIN sample}, Mapped(LAMBDA o : o.said), Len(sample), <<>>)
    IN  /\ m.tp = SumFunction([l \in Labels |-> Both(l)]) /\ m.tp + m.fp = Len(sample) /\ m.tp + m.fn = Len(sample)
        /\ found.precision[1] <= found.precision[2] /\ found.recall[1] <= found.recall[2]
        /\ found.recall[1] = 0 <=> found.rank[1] = 0

SplitsKeepClusters ==
    LET weights == Mapped(LAMBDA o : o.p + 1)
        all == UpTo(weights, Len(weights))
    IN  \A n \in 0 .. 4 : sample # <<>> =>
          LET split == AssignClusterSplits(weights, n)
              cases == [i \in 1 .. 2 * n |-> [id |-> i, cluster |-> (i + 1) \div 2, split |-> split[(i + 1) \div 2], hash |-> i % 3]]
          IN  /\ \A i \in DOMAIN weights :
                    AtMost(Distance(<<Cardinality({c \in 1 .. n : split[c] = i}), 1>>, <<weights[i] * n, all>>), <<1, 1>>)
              /\ SplitManifest(cases).leaking = {} /\ Cardinality(SplitManifest(cases).clusters) = n
              /\ \A g, h \in FindDuplicates(cases) : g # h => g \cap h = {}

(* The measures are what they are named for, at their edges too: pass@k is the share of     *)
(* draws with a success, agreement the share of agreeing pairs, every probability (one      *)
(* included) is in the bin it lies in, a higher threshold accepts no more, a quantile is in *)
(* order, matching earns each reference once, and a split keeps clusters whole, each part   *)
(* within one cluster of its share.  (statistics/, domain/splits.py)                        *)
MeasuresAgreeWithDefinitions ==
    /\ LabelsAddUp /\ RepeatsAreDrawn /\ ProbabilitiesAreBinned /\ RisksAreCovered
    /\ QuantilesAreOrdered /\ MatchesAreOneToOne /\ SplitsKeepClusters
=============================================================================
