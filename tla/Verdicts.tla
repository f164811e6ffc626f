------------------------------ MODULE Verdicts -------------------------------
(****************************************************************************)
(* What a grade job does between loading a trial and storing its grades:    *)
(* the deterministic graders over the checks of Checks.tla, the judge calls *)
(* of model and pairwise graders with their formatting retry, the limit on  *)
(* judge calls the trials of a run share, and the outcome under the pass    *)
(* rule.  (execution/grading.py, graders/runner.py, graders/judge.py)       *)
(* The jobs of several trials run at once, and a crash starts one again.    *)
(****************************************************************************)
EXTENDS Checks, Selection

CONSTANTS Trials,
          GraderIds,     \* a sequence: the graders of the grading run, in its order
          Graders,       \* grader -> [name, kind, checks, judge, reversed]
          MandatoryNames, \* the pass rule: the names of the graders a trial has to pass
          Defective,     \* bound: <<case, grader>>: the graders of which a check raises on the case
          Cases,         \* case -> what the graders may read: context, lost stores, output, peer, position
          MaxJudgeCalls, \* limits.max_judge_calls
          MaxCrashes     \* bound: crashes of a job

(* What _load reads of a case and its trial, and the stores whose snapshot was lost. *)
ContextFields == {"pack", "expected", "output", "steps", "scenario", "alternatives", "related"}
IsCase(x) ==
    /\ x.context = [f \in ContextFields |-> x.context[f]]
    /\ Outputs(x.context, "text") => Outputs(x.context, "form")
    /\ {x.output, x.peer, x.candFirst} \subseteq BOOLEAN

ASSUME VerdictAssumption ==
    /\ MaxJudgeCalls \in Nat /\ MaxCrashes \in Nat /\ IsFiniteSet(Trials) /\ IsFiniteSet(DOMAIN Graders)
    /\ GraderIds \in Seq(DOMAIN Graders) /\ Defective \subseteq (DOMAIN Cases) \X (DOMAIN Graders)
    /\ \A k \in DOMAIN Cases :
          IsCase(Cases[k]) /\ \A g \in DOMAIN Graders : Graders[g].checks \subseteq DOMAIN CheckFunctions(Cases[k].context)

VARIABLES subject, \* trial -> its case
          opinion, \* what decides the judge: "candidate", "baseline", "first", "second", "tie" or "abstain"
          job,     \* trial -> the grade job's own data
          grades,  \* trial -> the Grade rows: a function on the graders graded so far
          outcome, \* trial -> the TrialOutcome row
          crashes

verdictVars == <<subject, opinion, job, grades, outcome, crashes>>

Kind(g) == Graders[g].kind
IsJudge(g) == Kind(g) \in {"model", "pairwise"}
Judges == {g \in DOMAIN Graders : IsJudge(g)}
NameOf(g) == Graders[g].name

NoOutcome == [outcome |-> "none", invariants |-> {}]
Waiting == [at |-> "queued", left |-> <<>>, used |-> 0, results |-> <<>>, tries |-> <<>>, said |-> <<>>]
Result(verdict, reason, tries, said) == [verdict |-> verdict, reason |-> reason, tries |-> tries, said |-> said]
Plainly(verdict, reason) == Result(verdict, reason, <<>>, <<>>)

(* The context without the stores whose snapshot was lost. *)
Without(c, lost) ==
    IF Outputs(c, "stores")
    THEN [c EXCEPT !.output.stores = [s \in DOMAIN c.output.stores \ lost |-> c.output.stores[s]]]
    ELSE c
CaseOf(t) == Cases[subject[t]]
Context(t) == Without(CaseOf(t).context, CaseOf(t).lost)

-----------------------------------------------------------------------------
(* Verdicts and outcomes as functions of what was found. *)

Aggregate(statuses) ==
    LET applicable == statuses \ {"not_applicable"}
        binary == applicable \ {"measured"}
        Says(verdict, reason) == [verdict |-> verdict, reason |-> reason]
    IN  CASE applicable = {} -> Says("unavailable", "not_applicable")
          [] applicable # {} /\ binary = {} -> Says("unavailable", "not_a_binary_verdict")
          [] "fail" \in binary -> Says("fail", "none")
          [] binary # {} /\ "fail" \notin binary /\ "unavailable" \in binary -> Says("unavailable", "missing evidence")
          [] OTHER -> Says("pass", "none")

Deterministic(c, checks) == LET status == CheckFunctions(c) IN Aggregate({status[k] : k \in checks})

(* The pass rule names graders.  Of the grades of several graders of one name (two versions *)
(* in a regrade) it sees one, whichever the database returns last.                          *)
ByName(rows) ==
    LET named == {g \in DOMAIN rows : NameOf(g) \in MandatoryNames}
    IN  {by \in [{NameOf(g) : g \in named} -> named] : \A name \in DOMAIN by : NameOf(by[name]) = name}

(* seen: name of the rule -> [verdict, reason], for those that have a grade. *)
TrialOutcome(seen) ==
    LET graded == MandatoryNames \cap DOMAIN seen
        applied == {n \in graded : ~(seen[n].verdict = "unavailable" /\ seen[n].reason = "not_applicable")}
    IN  CASE \E n \in applied : seen[n].verdict = "fail" -> "fail"
          [] applied # {} /\ graded = MandatoryNames /\ (\A n \in applied : seen[n].verdict = "pass") -> "pass"
          [] OTHER -> "unresolved"

-----------------------------------------------------------------------------
(* The judge: a reply is a transport error, an exception, malformed, or an answer. *)

SwappedPosition(preference, candFirst) ==  \* slip: the position is not undone
    IF preference \in {"tie", "abstain"} THEN preference ELSE IF preference = "A" THEN "win" ELSE "loss"

ToCandidate(preference, candFirst) ==
    IF preference \in {"tie", "abstain"} THEN preference ELSE IF (preference = "A") = candFirst THEN "win" ELSE "loss"

Preference(candFirst) ==
    CASE opinion \in {"tie", "abstain"} -> opinion
      [] opinion = "first" \/ (opinion = "candidate" /\ candFirst) \/ (opinion = "baseline" /\ ~candFirst) -> "A"
      [] OTHER -> "B"

Positions(t, g) == IF Graders[g].reversed THEN <<CaseOf(t).candFirst, ~CaseOf(t).candFirst>> ELSE <<CaseOf(t).candFirst>>

(* The attempts of one order; a malformed first reply is the only one asked again. *)
Try == [order : 1 .. 2, reply : {"error", "malformed", "answer"}]
TriesOf(tries, n) == Select(tries, {x \in Try : x.order = n})
OrderOf(t) == Len(job[t].said) + 1

MayAskAgain(t) == TriesOf(job[t].tries, OrderOf(t)) = <<>>

-----------------------------------------------------------------------------
(* The job. *)

(* possible: trial -> the cases it may be of. *)
VerdictInit(possible, opinions) ==
    /\ subject \in [Trials -> DOMAIN Cases] /\ \A t \in Trials : subject[t] \in possible[t]
    /\ opinion \in opinions
    /\ job = [t \in Trials |-> Waiting]
    /\ grades = [t \in Trials |-> <<>>]
    /\ outcome = [t \in Trials |-> NoOutcome]
    /\ crashes = 0

AttemptsIn(rows) == SumFunction([g \in DOMAIN rows |-> Len(rows[g].tries)])
Recorded == SumFunction([t \in Trials |-> AttemptsIn(grades[t])])

(* _load: the graders without a grade, judges last; the attempts stored so far by the run. *)
Load(t) ==
    LET rest == Select(GraderIds, DOMAIN Graders \ DOMAIN grades[t])
    IN  /\ job[t].at = "queued"
        /\ job' = [job EXCEPT ![t] =
                      [at |-> "grading", left |-> Select(rest, DOMAIN Graders \ Judges) \o Select(rest, Judges),
                       used |-> Recorded, results |-> <<>>, tries |-> <<>>, said |-> <<>>]]
        /\ UNCHANGED <<subject, opinion, grades, outcome, crashes>>

Grading(t) == job[t].at = "grading" /\ job[t].left # <<>>

(* One grader ends: its result is kept for _persist and its attempts are counted. *)
Give(t, result) ==
    LET j == job[t]
        g == Head(j.left)
    IN  job' = [job EXCEPT ![t] =
                   [at |-> j.at, left |-> Tail(j.left), used |-> j.used + Len(result.tries),
                    results |-> [h \in DOMAIN j.results \cup {g} |-> IF h = g THEN result ELSE j.results[h]],
                    tries |-> <<>>, said |-> <<>>]]
(* The judge is asked once more by the same grader. *)
Continue(t, tries, said) ==
    job' = [job EXCEPT ![t] = [at |-> job[t].at, left |-> job[t].left, used |-> job[t].used, results |-> job[t].results,
                               tries |-> tries, said |-> said]]

LimitReached(t) == Graders[Head(job[t].left)].judge /\ job[t].used >= MaxJudgeCalls
Asks(t) == /\ IsJudge(Head(job[t].left)) /\ Graders[Head(job[t].left)].judge
           /\ CaseOf(t).output /\ (Kind(Head(job[t].left)) = "pairwise" => CaseOf(t).peer)

(* A grader that calls nobody: no output, no judge, no peer, no calls left, or only checks; *)
(* a check that raises leaves an error, without the results of the other checks.            *)
Grade(t) ==
    /\ Grading(t) /\ job[t].tries = <<>> /\ job[t].said = <<>>
    /\ LET g == Head(job[t].left)
           checked == Deterministic(Context(t), Graders[g].checks)
           raises == <<subject[t], g>> \in Defective
       IN  \/ IsJudge(g) /\ LimitReached(t) /\ Give(t, Plainly("unavailable", "judge call limit reached"))
           \/ ~IsJudge(g) /\ CaseOf(t).output /\ ~raises /\ Give(t, Plainly(checked.verdict, checked.reason))
           \/ ~IsJudge(g) /\ CaseOf(t).output /\ raises /\ Give(t, Plainly("error", "grader_exception"))
           \/ ~(IsJudge(g) /\ LimitReached(t)) /\ ~CaseOf(t).output /\ Give(t, Plainly("unavailable", "no_output"))
           \/ /\ IsJudge(g) /\ ~LimitReached(t) /\ CaseOf(t).output /\ ~Asks(t)
              /\ Give(t, Plainly("unavailable", "no peer or no judge"))
    /\ UNCHANGED <<subject, opinion, grades, outcome, crashes>>

(* One call of the judge and what its reply leads to. *)
AskJudge(t) ==
    /\ Grading(t) /\ Asks(t) /\ (job[t].tries = <<>> => ~LimitReached(t))
    /\ \E reply \in {"error", "raises", "malformed", "answer"}, verdict \in {"pass", "fail", "abstain"} :
         LET g == Head(job[t].left)
             tries == Append(job[t].tries, [order |-> OrderOf(t), reply |-> reply])
             candFirst == Positions(t, g)[OrderOf(t)]
             said == Append(job[t].said, ToCandidate(Preference(candFirst), candFirst))
         IN  /\ (Kind(g) = "pairwise" \/ reply # "answer") => verdict = "pass"  \* the verdict is not read
             /\ CASE reply = "error" -> Give(t, Result("error", "judge_transport_error", tries, <<>>))
                  [] reply = "raises" -> Give(t, Plainly("error", "grader_exception"))
                  [] reply = "malformed" /\ ~MayAskAgain(t) -> Give(t, Result("error", "invalid_judge_output", tries, <<>>))
                  [] reply = "malformed" /\ MayAskAgain(t) -> Continue(t, tries, job[t].said)
                  [] reply = "answer" /\ Kind(g) = "model" -> Give(t, Result(verdict, "none", tries, <<>>))
                  [] reply = "answer" /\ Kind(g) = "pairwise" /\ Len(said) = Len(Positions(t, g)) ->
                         Give(t, Result("unavailable", "not_a_binary_verdict", tries, said))
                  [] OTHER -> Continue(t, tries, said)
    /\ UNCHANGED <<subject, opinion, grades, outcome, crashes>>

(* _persist: the grades this trial lacks, and the outcome of all its grades if it has none. *)
Persist(t) ==
    LET stored == DOMAIN grades[t]
        all == [g \in stored \cup DOMAIN job[t].results |-> IF g \in stored THEN grades[t][g] ELSE job[t].results[g]]
        failing == UNION {InvariantFailures(Context(t), Graders[g].checks) :
                             g \in {h \in DOMAIN all : ~IsJudge(h) /\ CaseOf(t).output /\ all[h].verdict # "error"}}
    IN  /\ job[t].at = "grading" /\ job[t].left = <<>>
        /\ job' = [job EXCEPT ![t] = [Waiting EXCEPT !.at = "done"]]
        /\ grades' = [grades EXCEPT ![t] = all]
        /\ \E by \in ByName(all) :
             outcome' = IF outcome[t] # NoOutcome THEN outcome
                        ELSE [outcome EXCEPT ![t] = [outcome |-> TrialOutcome([n \in DOMAIN by |-> all[by[n]]]),
                                                     invariants |-> failing]]
        /\ UNCHANGED <<subject, opinion, crashes>>

(* The worker dies: the calls were made, their attempts are gone, the job starts again. *)
CrashGrading(t) ==
    /\ job[t].at = "grading" /\ crashes < MaxCrashes
    /\ crashes' = crashes + 1
    /\ job' = [job EXCEPT ![t] = Waiting]
    /\ UNCHANGED <<subject, opinion, grades, outcome>>

VerdictNext == \E t \in Trials : Load(t) \/ Grade(t) \/ AskJudge(t) \/ Persist(t) \/ CrashGrading(t)

Opinions == {"candidate", "baseline", "first", "second", "tie", "abstain"}
VerdictSpec == VerdictInit([t \in Trials |-> DOMAIN Cases], Opinions) /\ [][VerdictNext]_verdictVars

-----------------------------------------------------------------------------
(* Evidence that was not captured can keep a trial from a verdict and never changes one:   *)
(* whatever snapshots were lost, a stored deterministic verdict is the one the whole       *)
(* evidence gives or unavailable, or an error because a check raised, which reports no     *)
(* violation.  A trial passes only with a passing grader and with a grade that passes or   *)
(* does not apply under every name of the pass rule, none of them an error unless another  *)
(* version of the same name was graded too.                                                *)
(* (graders/base.py aggregate, graders/runner.py grade, trial_outcome, the memory checks)  *)
VerdictsNeedEvidence ==
    \A t \in Trials :
        LET rows == grades[t]
            Errs(g) == rows[g].verdict = "error"
            Under(name) == {g \in DOMAIN rows : NameOf(g) = name}
            mandatory == {g \in DOMAIN rows : NameOf(g) \in MandatoryNames}
        IN  /\ \A g \in DOMAIN rows : ~IsJudge(g) /\ CaseOf(t).output =>
                   IF <<subject[t], g>> \in Defective THEN Errs(g) /\ rows[g].reason = "grader_exception"
                   ELSE rows[g].verdict \in {"unavailable", Deterministic(CaseOf(t).context, Graders[g].checks).verdict}
            /\ outcome[t].outcome = "pass" =>
                   /\ CaseOf(t).output /\ \E g \in mandatory : rows[g].verdict = "pass"
                   /\ \A name \in MandatoryNames : \E g \in Under(name) :
                          rows[g].verdict = "pass" \/ rows[g].reason = "not_applicable"
                   /\ \A g \in mandatory : Errs(g) => Under(NameOf(g)) # {g}
            /\ outcome[t].outcome = "fail" => \E g \in mandatory : rows[g].verdict = "fail"
            /\ \A i \in outcome[t].invariants : \E g \in DOMAIN rows :
                   ~Errs(g) /\ i \in InvariantFailures(CaseOf(t).context, Graders[g].checks)

(* The judge is asked again only for a malformed reply, once; a judge that decides      *)
(* by the content gets the same outcome in both positions and one that decides by the   *)
(* position is told apart by a reversed repeat; jobs that run together may exceed the   *)
(* limit, each by the calls of its last grader and no more.  (judge.py _ask_with_retry, *)
(* grade_pairwise, grading.py _grade_all)                                               *)
JudgeIsAccountedFor ==
    /\ \A t \in Trials : \A g \in DOMAIN grades[t] :
         LET row == grades[t][g]
         IN  /\ \A n \in 1 .. 2 : /\ Len(TriesOf(row.tries, n)) <= 2
                                  /\ Len(TriesOf(row.tries, n)) = 2 => TriesOf(row.tries, n)[1].reply = "malformed"
             /\ row.verdict \in {"pass", "fail", "abstain"} /\ IsJudge(g) => Last(row.tries).reply = "answer"
             /\ row.said # <<>> =>
                  /\ opinion \in {"candidate", "baseline"} =>
                         Range(row.said) = {IF opinion = "candidate" THEN "win" ELSE "loss"}
                  /\ opinion \in {"first", "second"} /\ Graders[g].reversed => row.said[1] # row.said[2]
    /\ Recorded <= Cardinality(Trials) * (MaxJudgeCalls + 3)
=============================================================================
