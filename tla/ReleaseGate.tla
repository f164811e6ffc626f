----------------------------- MODULE ReleaseGate -----------------------------
(****************************************************************************)
(* From the outcomes of a grading run to the numbers of a run, the triage   *)
(* queue and the release decision (analysis/summaries.py, comparison.py,    *)
(* statistics/bootstrap.py).  Trials are graded while people look: every    *)
(* summary, queue and comparison reads the newest grading run, whatever its *)
(* status, and a comparison is stored once and never changes.               *)
(*                                                                          *)
(* A rate is an integer: Scale is a common multiple of the counts it is     *)
(* divided by.  The resampling of clusters enters by what it may return.    *)
(****************************************************************************)
EXTENDS Integers, Sequences, FiniteSets, FiniteSetsExt, Functions

CONSTANTS Slots,     \* the trials: records [run, key, case, repeat]
          KeysOf,    \* run -> sequence of candidate keys, the baseline first
          CaseInfo,  \* case -> [critical, cluster]
          HashOf,    \* <<run, case>> -> the hash of the case in the run's dataset version
          Designs,   \* bound: functions run -> [rule, repeats, scenario], what the runs may be made of
          Outages,   \* bound: the slots that may end without output, with a grading error or unresolved
          Leaky,     \* bound: the slots in which a check may report a violated invariant
          Policies,  \* records [metrics, critical, coverage (percent), clusters]
          GraderSets, Regraders, \* what runs are graded with at first, and what a regrade may take
          Doubtable, \* bound: the cases of which a review says "ambiguous" or "grader_incorrect"
          Compared,  \* bound: the pairs of sides somebody compares
          Regraded,  \* bound: the runs somebody regrades, once
          Scale

VARIABLES ran,      \* slot -> does the trial have an output
          found,    \* slot -> what the newest grading run holds of it
          status,   \* run -> its status
          graders,  \* run -> the graders of its newest grading run
          design,   \* run -> its pass rule, its repeats and their mode, and its scenario
          doubted,  \* the cases whose latest review doubts the grader or the label
          regraded, decision  \* the runs regraded so far; the stored comparison

gateVars == <<ran, found, status, graders, design, doubted, regraded, decision>>

RunIds == DOMAIN KeysOf
CaseIds == DOMAIN CaseInfo
KeySet(r) == {KeysOf[r][i] : i \in DOMAIN KeysOf[r]}

ASSUME GateAssumption ==
    /\ Scale \in Nat \ {0} /\ IsFiniteSet(Slots)
    /\ \A s \in Slots : /\ s.run \in RunIds /\ s.key \in KeySet(s.run) /\ s.case \in CaseIds /\ s.repeat \in Int
                       /\ <<s.run, s.case>> \in DOMAIN HashOf
    /\ \A policy \in Policies : /\ policy.coverage \in Int /\ policy.clusters \in Int
                               /\ \A m \in policy.metrics : m.margin \in Nat /\ m.lower \in BOOLEAN /\ m.required \in BOOLEAN
    /\ \A pair \in Compared : pair[1][1] \in RunIds /\ pair[2][1] \in RunIds

Finding(outcome, invariants, gradeError) == [outcome |-> outcome, invariants |-> invariants, error |-> gradeError]
NotYet == Finding("waiting", {}, FALSE)
NoRow == Finding("none", {}, FALSE)  \* the grade job failed for good: no outcome, no grades
(* A trial without an output is unresolved and no grader read it.  Of one with an output any *)
(* outcome may come with the error of a grader the pass rule does not need, or with a        *)
(* violated invariant.                                                                       *)
Findings(s) ==
    IF ~ran[s] THEN {Finding("unresolved", {}, FALSE), NoRow}
    ELSE {Finding(outcome, invariants, gradeError) :
             outcome \in {"pass", "fail"} \cup (IF s \in Outages THEN {"unresolved"} ELSE {}),
             invariants \in {{}} \cup (IF s \in Leaky THEN {{"leak"}} ELSE {}),
             gradeError \in {FALSE} \cup (IF s \in Outages THEN {TRUE} ELSE {})}
         \cup (IF s \in Outages THEN {NoRow} ELSE {})

Waits == [verdict |-> "none", unresolved |-> {}, interval |-> <<>>, policy |-> <<>>, baseline |-> <<>>, candidate |-> <<>>]

-----------------------------------------------------------------------------
(* One case and one candidate (case_candidate_summary). *)

RowsOf(side, case) == {s \in Slots : s.run = side[1] /\ s.key = side[2] /\ s.case = case}
SideRows(side) == UNION {RowsOf(side, c) : c \in CaseIds}
Having(rows, outcome) == {s \in rows : found[s].outcome = outcome}

CaseSummary(rows) ==
    LET passes == Cardinality(Having(rows, "pass"))
        fails == Cardinality(Having(rows, "fail"))
        gradeErrors == Cardinality({s \in rows : found[s].error})
    IN  [trials |-> Cardinality(rows), passes |-> passes, fails |-> fails,
         unresolved |-> Cardinality(rows) - passes - fails,
         gradingErrors |-> gradeErrors,
         errors |-> Cardinality({s \in rows : ~ran[s]}) + gradeErrors,
         flaky |-> passes > 0 /\ fails > 0,
         invariants |-> UNION {found[s].invariants : s \in rows}]

Graded(sum) == sum.passes + sum.fails
NoRate == -1
Rate(sum) == IF Graded(sum) = 0 THEN NoRate ELSE (Scale * sum.passes) \div Graded(sum)

(* The rates of a whole side (slot_rates of run_summary), as <<numerator, denominator>>. *)
SlotRates(side) ==
    LET rows == SideRows(side)
        sum == CaseSummary(rows)
        generated == Cardinality({s \in rows : ran[s]})
    IN  [completion |-> <<generated, sum.trials>>, coverage |-> <<Graded(sum), generated>>,
         conditional |-> <<sum.passes, Graded(sum)>>, yield |-> <<sum.passes, sum.trials>>]

-----------------------------------------------------------------------------
(* The triage queue. *)

OnlyFails(sum) == sum.fails > 0  \* slip: a case without a verdict is not a problem
Failing(sum) == sum.fails > 0 \/ sum.errors > 0 \/ sum.unresolved > 0

Regressed(side, base, case) ==
    LET rate == Rate(CaseSummary(RowsOf(side, case)))
        before == Rate(CaseSummary(RowsOf(base, case)))
    IN  side # base /\ rate # NoRate /\ before # NoRate /\ rate < before

Priority(side, base, case) ==
    LET sum == CaseSummary(RowsOf(side, case)) IN
    IF (CaseInfo[case].critical /\ sum.fails > 0) \/ sum.invariants # {} THEN 0
    ELSE IF Regressed(side, base, case) THEN 1
    ELSE IF sum.gradingErrors > 0 \/ case \in doubted \/ (sum.unresolved > 0 /\ sum.fails = 0) THEN 2
    ELSE IF sum.flaky THEN 3 ELSE 4

FirstOf(rows) == CHOOSE s \in rows : \A t \in rows : s.repeat <= t.repeat
Representative(rows) ==
    LET failed == Having(rows, "fail")
        notPassed == rows \ Having(rows, "pass")
    IN  FirstOf(IF failed # {} THEN failed ELSE IF notPassed # {} THEN notPassed ELSE rows)

TriageQueue(r) ==
    LET base == <<r, KeysOf[r][1]>> IN
    {[case |-> x[1], side |-> <<r, x[2]>>, priority |-> Priority(<<r, x[2]>>, base, x[1]),
      representative |-> Representative(RowsOf(<<r, x[2]>>, x[1]))] :
        x \in {y \in CaseIds \X KeySet(r) : Failing(CaseSummary(RowsOf(<<r, y[2]>>, y[1])))}}

-----------------------------------------------------------------------------
(* The paired comparison. *)

CasesOf(side) == {s.case : s \in SideRows(side)}
Paired(b, c) == {e \in CasesOf(b) \cap CasesOf(c) : HashOf[<<b[1], e>>] = HashOf[<<c[1], e>>]}
AllCases(b, c) == CasesOf(b) \cup CasesOf(c)
CaseRate(side, e) == Rate(CaseSummary(RowsOf(side, e)))
Unresolved(b, c) == {e \in Paired(b, c) : NoRate \in {CaseRate(b, e), CaseRate(c, e)}}
ComparedCases(b, c) == Paired(b, c) \ Unresolved(b, c)
Delta(b, c, e) == CaseRate(c, e) - CaseRate(b, e)

Clusters(b, c) == {CaseInfo[e].cluster : e \in ComparedCases(b, c)}
ClusterMean(b, c, cluster) ==
    LET inside == {e \in ComparedCases(b, c) : CaseInfo[e].cluster = cluster}
    IN  SumFunction([e \in inside |-> Delta(b, c, e)]) \div Cardinality(inside)
Means(b, c) == {ClusterMean(b, c, cluster) : cluster \in Clusters(b, c)}

(* paired_cluster_bootstrap: quantiles of means of resampled clusters lie between the means. *)
Intervals(b, c) ==
    IF Cardinality(Clusters(b, c)) < 2 THEN {<<>>}
    ELSE LET low == Min(Means(b, c))
             high == Max(Means(b, c))
         IN  {interval \in (low .. high) \X (low .. high) : interval[1] <= interval[2]}

Compatible(b, c) == graders[b[1]] = graders[c[1]] /\ design[b[1]] = design[c[1]]
RunProblem(r) == status[r] \in {"cancelled", "cancelling", "failed", "queued", "running"}

-----------------------------------------------------------------------------
(* The gate. *)

(* A metric of a policy: its name, whether lower is better, its margin, whether it is required. *)
Adjusted(metric, interval) == IF metric.lower THEN <<-interval[2], -interval[1]>> ELSE interval

UpperClears(metric, policy, interval, clusters) ==  \* slip: the wrong end of the interval
    IF interval = <<>> \/ clusters < policy.clusters THEN "inconclusive"
    ELSE IF Adjusted(metric, interval)[2] >= -metric.margin THEN "clear" ELSE "blocked"

MetricStatus(metric, policy, interval, clusters) ==
    LET adjusted == Adjusted(metric, interval)
    IN  CASE interval = <<>> -> "inconclusive"
          [] interval # <<>> /\ clusters < policy.clusters -> "inconclusive"
          [] interval # <<>> /\ clusters >= policy.clusters /\ adjusted[1] >= -metric.margin -> "clear"
          [] interval # <<>> /\ clusters >= policy.clusters /\ adjusted[2] < -metric.margin -> "blocked"
          [] OTHER -> "inconclusive"

Reported(metric, state) == IF metric.required \/ state = "clear" THEN state ELSE "advisory"

(* The program computes one metric, and shows it only for compatible experiments. *)
IntervalOf(metric, b, c, interval) ==
    IF metric.name = "case_pass_rate" /\ Compatible(b, c) THEN interval ELSE <<>>

Violated(policy, c) == policy.critical \cap UNION {found[s].invariants : s \in SideRows(c)} # {}

(* evaluate_gate: one check for the invariants, the runs, the coverage and each metric. *)
Statuses(policy, b, c, interval) ==
    (IF Violated(policy, c) THEN {"blocked"} ELSE {"clear"})
    \cup (IF RunProblem(b[1]) \/ RunProblem(c[1]) \/ ~Compatible(b, c) THEN {"inconclusive"} ELSE {})
    \cup (IF 100 * Cardinality(Paired(b, c)) < policy.coverage * Cardinality(AllCases(b, c))
          THEN {"inconclusive"} ELSE {})
    \cup {Reported(m, MetricStatus(m, policy, IntervalOf(m, b, c, interval), Cardinality(Clusters(b, c)))) :
              m \in policy.metrics}

GateVerdict(statuses, metrics) ==
    IF "blocked" \in statuses THEN "blocked"
    ELSE IF "inconclusive" \in statuses \/ metrics = {} THEN "inconclusive" ELSE "ready"

-----------------------------------------------------------------------------
GateInit ==
    /\ ran \in {f \in [Slots -> BOOLEAN] : \A s \in Slots \ Outages : f[s]}
    /\ found = [s \in Slots |-> NotYet]
    /\ status = [r \in RunIds |-> "running"]
    /\ \E g \in GraderSets : graders = [r \in RunIds |-> g]
    /\ design \in Designs
    /\ doubted = {} /\ regraded = {} /\ decision = Waits

(* A stored comparison is not touched by what follows: the behaviour stops at it. *)
Undecided == decision = Waits

GradeTrial(s) ==
    /\ Undecided /\ found[s] = NotYet /\ status[s.run] # "cancelled"
    /\ \E f \in Findings(s) : found' = [found EXCEPT ![s] = f]
    /\ UNCHANGED <<ran, status, graders, design, doubted, regraded, decision>>

(* The run ends by the rules of RunLifecycle, or a user has cancelled it. *)
EndRun(r) ==
    LET rows == {s \in Slots : s.run = r} IN
    /\ Undecided /\ status[r] = "running"
    /\ \/ /\ \A s \in rows : found[s] # NotYet
          /\ status' = [status EXCEPT ![r] =
                 IF \E s \in rows : ~ran[s] \/ found[s].error THEN "completed_with_errors" ELSE "completed"]
       \/ status' = [status EXCEPT ![r] = "cancelled"]
    /\ UNCHANGED <<ran, found, graders, design, doubted, regraded, decision>>

(* create_grading_run: a newer grading run, empty until its jobs have run. *)
Regrade(r) ==
    /\ Undecided /\ status[r] \in {"completed", "completed_with_errors"} /\ r \in Regraded \ regraded
    /\ \E g \in Regraders : graders' = [graders EXCEPT ![r] = g]
    /\ found' = [s \in Slots |-> IF s.run = r THEN NotYet ELSE found[s]]
    /\ regraded' = regraded \cup {r}
    /\ UNCHANGED <<ran, status, design, doubted, decision>>

(* create_review, as far as the queue reads it (bound: when the runs have ended). *)
Doubt(case) ==
    /\ Undecided /\ case \in Doubtable \ doubted /\ \A r \in RunIds : status[r] # "running"
    /\ doubted' = doubted \cup {case}
    /\ UNCHANGED <<ran, found, status, graders, design, regraded, decision>>

Compare(b, c) ==
    /\ Undecided
    /\ \E policy \in Policies, interval \in Intervals(b, c) :
         decision' = [verdict |-> GateVerdict(Statuses(policy, b, c, interval), policy.metrics), unresolved |-> Unresolved(b, c),
                      interval |-> interval, policy |-> policy, baseline |-> b, candidate |-> c]
    /\ UNCHANGED <<ran, found, status, graders, design, doubted, regraded>>

GateNext ==
    \/ \E s \in Slots : GradeTrial(s)
    \/ \E r \in RunIds : EndRun(r) \/ Regrade(r)
    \/ \E e \in CaseIds : Doubt(e)
    \/ \E pair \in Compared : Compare(pair[1], pair[2])

GateSpec == GateInit /\ [][GateNext]_gateVars

-----------------------------------------------------------------------------
(* A decision of ready rests on ended, uncancelled runs of one scenario, pass rule and      *)
(* repeat design graded alike, on a candidate without a critical failure and on every case *)
(* of both sides being the same when the policy asks for all; each required metric is the  *)
(* pass rate, over enough independent clusters, with no resampling beyond its margin on    *)
(* the bad side (an optional one asks for nothing, so a policy of optional metrics is      *)
(* ready without an interval, but never a policy without metrics).  A block is an          *)
(* observed violation or clusters that really lost more than a required metric allows.     *)
(* (comparison.evaluate, evaluate_gate)                                                    *)
ReadyNeedsEvidence ==
    LET b == decision.baseline
        c == decision.candidate
        policy == decision.policy
        Signed(m, mean) == IF m.lower THEN -mean ELSE mean
        Lost(m) == {mean \in Means(b, c) : Signed(m, mean) < -m.margin}
        Required == {m \in policy.metrics : m.required}
    IN  /\ decision.verdict = "ready" =>
              /\ \A r \in {b[1], c[1]} : status[r] \in {"completed", "completed_with_errors"}
              /\ graders[b[1]] = graders[c[1]] /\ design[b[1]] = design[c[1]]
              /\ \A s \in SideRows(c) : found[s].invariants \cap policy.critical = {}
              /\ policy.coverage = 100 => \A e \in AllCases(b, c) : /\ {b[1], c[1]} \X {e} \subseteq DOMAIN HashOf
                                                                   /\ HashOf[<<b[1], e>>] = HashOf[<<c[1], e>>]
              /\ policy.metrics # {}
              /\ \A m \in Required :
                    /\ m.name = "case_pass_rate" /\ Lost(m) # Means(b, c)
                    /\ Cardinality({CaseInfo[e].cluster : e \in AllCases(b, c) \ decision.unresolved}) >= policy.clusters
                    /\ \A i \in 1 .. 2 : Signed(m, decision.interval[i]) >= -m.margin
        /\ decision.verdict = "blocked" =>
              \/ \E s \in SideRows(c) : found[s].invariants \cap policy.critical # {}
              \/ \E m \in Required : m.name = "case_pass_rate" /\ Lost(m) # {}

(* Nothing that did not pass is missing from the queue: every case and candidate with a   *)
(* failed or unresolved trial, or one that a grader failed on whatever its outcome, is    *)
(* listed once, a critical failure before everything else.  It is shown by a failed trial *)
(* if there is one, by one that did not pass if there is one, and by a passed trial only  *)
(* if all passed and the error of a grader brought it there.  The rates a run reports     *)
(* count each trial once, so that an outage lowers the coverage and never the conditional *)
(* rate.  (run_summary, triage_queue)                                                     *)
QueueShowsEveryProblem ==
    Undecided => \A r \in {s.run : s \in {x \in Slots : found[x] # NotYet}} :
        LET items == TriageQueue(r) IN
        /\ \A s \in Slots : s.run = r /\ (found[s].outcome # "pass" \/ found[s].error) =>
               \E i \in items : /\ i.case = s.case /\ i.side = <<r, s.key>>
                                /\ CaseInfo[s.case].critical /\ found[s].outcome = "fail" => i.priority = 0
        /\ \A i, j \in items : i.case = j.case /\ i.side = j.side => i = j
        /\ \A i \in items :
               LET rows == RowsOf(i.side, i.case)
                   shown == found[i.representative].outcome
               IN  /\ i.representative \in rows
                   /\ Having(rows, "fail") # {} => shown = "fail"
                   /\ shown = "pass" => Having(rows, "pass") = rows /\ \E s \in rows : found[s].error
        /\ \A k \in KeySet(r) :
               LET rates == SlotRates(<<r, k>>)
                   each == [e \in CasesOf(<<r, k>>) |-> CaseSummary(RowsOf(<<r, k>>, e))]
               IN  /\ rates.yield = <<SumFunction([e \in DOMAIN each |-> each[e].passes]),
                                      SumFunction([e \in DOMAIN each |-> each[e].trials])>>
                   /\ rates.conditional[2] = SumFunction([e \in DOMAIN each |-> Graded(each[e])])
                   /\ rates.coverage[1] <= rates.coverage[2] /\ rates.completion[1] <= rates.completion[2]

(* What docs/SPECIFICATION.md:206 says: grader outages reduce grading coverage and block   *)
(* decisions, so no run is ready of which an output has no verdict because a grader failed. *)
(* (comparison.py:93 counts the pairs, whether or not they were graded.)                   *)
OutagesBlock ==
    decision.verdict = "ready" =>
        \A s \in SideRows(decision.baseline) \cup SideRows(decision.candidate) :
            ran[s] /\ (found[s].error \/ found[s] = NoRow) => found[s].outcome \in {"pass", "fail"}
=============================================================================
