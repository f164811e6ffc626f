---------------------------- MODULE OutcomeProofs ----------------------------
(***************************************************************************)
(* Theorems about Verdicts, Reviews and ReleaseGate: for any graders and   *)
(* cases and any snapshots lost of them, any trials, clusters and          *)
(* policies, and any number of reviews, versions and regradings.           *)
(***************************************************************************)
EXTENDS Verdicts, Reviews, ReleaseGate, Induction, TLAPS

(***************************************************************************)
(* Evidence.  Two contexts that agree but for stores of which one has      *)
(* fewer: a check whose store is missing is unavailable, every other one   *)
(* answers alike.                                                          *)
(***************************************************************************)
Shaped(c) == c = [f \in ContextFields |-> c[f]] /\ (Outputs(c, "text") => Outputs(c, "form"))

Fewer(d, c) ==
  /\ d.pack = c.pack /\ d.expected = c.expected /\ d.steps = c.steps /\ d.scenario = c.scenario
  /\ d.alternatives = c.alternatives /\ d.related = c.related
  /\ DOMAIN d.output = DOMAIN c.output /\ \A k \in DOMAIN c.output : k # "stores" => d.output[k] = c.output[k]
  /\ "text" \in DOMAIN c.output => "form" \in DOMAIN c.output
  /\ "stores" \in DOMAIN c.output => /\ DOMAIN d.output.stores \subseteq DOMAIN c.output.stores
                                     /\ \A s \in DOMAIN d.output.stores : d.output.stores[s] = c.output.stores[s]

(* x, given on less evidence, is y unless evidence is missing. *)
Weaker(x, y) == x = "unavailable" \/ x = y

LEMMA WithoutIsFewer ==
  ASSUME NEW c, Shaped(c), NEW lost PROVE Fewer(Without(c, lost), c) /\ Shaped(Without(c, lost))
<1> DEFINE kept == [s \in DOMAIN c.output.stores \ lost |-> c.output.stores[s]]
           d == Without(c, lost)
<1> SUFFICES Fewer(d, c) /\ Shaped(d)
  OBVIOUS
<1>1. c = [f \in ContextFields |-> c[f]] /\ ("text" \in DOMAIN c.output => "form" \in DOMAIN c.output)
  BY DEF Shaped, Outputs
<1>2. CASE ~Outputs(c, "stores")
  <2>1. d = c
    BY <1>2 DEF Without
  <2> HIDE DEF d
  <2> QED BY <1>1, <1>2, <2>1 DEF Fewer, Outputs, Shaped
<1>3. CASE Outputs(c, "stores")
  <2> DEFINE out == [c.output EXCEPT !.stores = kept]
  <2>1. d = [c EXCEPT !.output = out]
    BY <1>3 DEF Without
  <2>2. /\ DOMAIN out = DOMAIN c.output /\ out.stores = kept
        /\ \A k \in DOMAIN c.output : k # "stores" => out[k] = c.output[k]
    BY <1>3 DEF Outputs
  <2>3. DOMAIN kept \subseteq DOMAIN c.output.stores /\ \A s \in DOMAIN kept : kept[s] = c.output.stores[s]
    OBVIOUS
  <2> HIDE DEF out, kept, d
  <2>4. /\ d.output = out /\ d.pack = c.pack /\ d.expected = c.expected /\ d.steps = c.steps /\ d.scenario = c.scenario
        /\ d.alternatives = c.alternatives /\ d.related = c.related
        /\ d = [f \in ContextFields |-> d[f]]
    BY <1>1, <2>1 DEF ContextFields
  <2> QED BY <1>1, <1>3, <2>2, <2>3, <2>4 DEF Fewer, Shaped, Outputs
<1> QED BY <1>2, <1>3

LEMMA SameFields ==
  ASSUME NEW c, NEW d, Fewer(d, c)
  PROVE  /\ d.pack = c.pack /\ d.expected = c.expected /\ d.steps = c.steps /\ d.scenario = c.scenario
         /\ d.alternatives = c.alternatives /\ d.related = c.related
         /\ \A k : Outputs(d, k) <=> Outputs(c, k)
         /\ \A k : Expects(d, k) <=> Expects(c, k)
         /\ \A k : Expected(d, k) = Expected(c, k)
         /\ \A k : Outputs(c, k) /\ k # "stores" => d.output[k] = c.output[k]
         /\ Outputs(c, "text") => Outputs(c, "form")
  BY DEF Fewer, Outputs, Expects, Expected

LEMMA SameAnswers ==
  ASSUME NEW c, NEW d, Fewer(d, c)
  PROVE  Answer(d) = Answer(c) /\ Calls(d) = Calls(c) /\ CalledTools(d) = CalledTools(c) /\ Effects(d) = Effects(c)
<1>1. Answer(d) = Answer(c) /\ Calls(d) = Calls(c)
  BY SameFields DEF Answer, Calls
<1>2. CalledTools(d) = CalledTools(c)
  BY <1>1 DEF CalledTools
<1>3. Effects(d) = Effects(c)
  BY <1>1, SameFields DEF Effects
<1> QED BY <1>1, <1>2, <1>3

(* The checks that read no store. *)
LEMMA TextChecks ==
  ASSUME NEW c, NEW d, Fewer(d, c)
  PROVE  /\ ExactMatch(d) = ExactMatch(c) /\ NormalizedMatch(d) = NormalizedMatch(c)
         /\ PredictedLabel(d) = PredictedLabel(c) /\ LabelMatch(d) = LabelMatch(c)
         /\ JsonSchema(d) = JsonSchema(c) /\ FieldAssertions(d) = FieldAssertions(c) /\ FactMatch(d) = FactMatch(c)
<1>1. ExactMatch(d) = ExactMatch(c)
  BY SameFields DEF ExactMatch, HasReference
<1>2. NormalizedMatch(d) = NormalizedMatch(c)
  BY SameFields DEF NormalizedMatch, HasReference
<1>3. PredictedLabel(d) = PredictedLabel(c)
  BY SameFields DEF PredictedLabel
<1>4. LabelMatch(d) = LabelMatch(c)
  BY <1>3, SameFields DEF LabelMatch
<1>5. JsonSchema(d) = JsonSchema(c)
  BY SameFields DEF JsonSchema
<1>6. FieldAssertions(d) = FieldAssertions(c)
  <2>1. CASE Outputs(c, "parsed")
    <3>1. d.output.parsed = c.output.parsed /\ (Outputs(d, "parsed") <=> Outputs(c, "parsed")) /\ d.expected = c.expected
      BY <2>1, SameFields
    <3>2. \A k : Expects(d, k) <=> Expects(c, k)
      BY SameFields
    <3> QED BY <3>1, <3>2 DEF FieldAssertions, Unless, Binary
  <2>2. CASE ~Outputs(c, "parsed")
    BY <2>2, SameFields DEF FieldAssertions, Binary, Unless
  <2> QED BY <2>1, <2>2
<1>7. FactMatch(d) = FactMatch(c)
  <2>1. CASE Outputs(c, "parsed")
    <3>1. d.output.parsed = c.output.parsed /\ (Outputs(d, "parsed") <=> Outputs(c, "parsed")) /\ d.expected = c.expected
      BY <2>1, SameFields
    <3>2. \A k : Expects(d, k) <=> Expects(c, k)
      BY SameFields
    <3> QED BY <3>1, <3>2 DEF FactMatch, Unless, Binary
  <2>2. CASE ~Outputs(c, "parsed")
    BY <2>2, SameFields DEF FactMatch, Binary, Unless
  <2> QED BY <2>1, <2>2
<1> QED BY <1>1, <1>2, <1>3, <1>4, <1>5, <1>6, <1>7

LEMMA SameState ==
  ASSUME NEW c, NEW d, Fewer(d, c)
  PROVE  /\ \A s : StoreForStep(d, s) = StoreForStep(c, s)
         /\ \A s : StepOk(d, s) = StepOk(c, s)
         /\ \A s : HasState(d, s) => HasState(c, s) /\ ActiveFacts(d, s) = ActiveFacts(c, s)
<1>1. \A s : StoreForStep(d, s) = StoreForStep(c, s) /\ StepOk(d, s) = StepOk(c, s)
  BY SameFields DEF StoreForStep, StepOk
<1>2. ASSUME NEW s, HasState(d, s) PROVE HasState(c, s) /\ ActiveFacts(d, s) = ActiveFacts(c, s)
  <2>1. HasState(c, s) /\ d.output.stores[s] = c.output.stores[s]
    BY <1>2 DEF HasState, Fewer, Outputs
  <2> QED BY <2>1 DEF ActiveFacts
<1> QED BY <1>1, <1>2

(* The checks that read a store. *)
LEMMA RequiredWeaker == ASSUME NEW c, NEW d, Fewer(d, c) PROVE Weaker(RequiredFacts(d), RequiredFacts(c))
<1>1. d.expected = c.expected /\ (Expects(d, "required_facts") <=> Expects(c, "required_facts"))
  BY SameFields
<1>2. CASE StateMissing(d, "required_facts")
  BY <1>1, <1>2 DEF RequiredFacts, Weaker, Unless
<1>3. CASE ~StateMissing(d, "required_facts")
  <2>1. \A spec \in c.expected.required_facts : HasState(d, StoreForStep(d, spec.source_step))
    BY <1>1, <1>3 DEF StateMissing
  <2>2. \A spec \in c.expected.required_facts : ActiveFor(d, spec) = ActiveFor(c, spec)
    BY <2>1, SameState DEF ActiveFor
  <2>3. ~StateMissing(c, "required_facts")
    BY <2>1, SameState DEF StateMissing
  <2>4. RequiredFacts(d) = RequiredFacts(c)
    BY <1>1, <1>3, <2>2, <2>3 DEF RequiredFacts
  <2> QED BY <2>4 DEF Weaker
<1> QED BY <1>2, <1>3

LEMMA ForbiddenWeaker == ASSUME NEW c, NEW d, Fewer(d, c) PROVE Weaker(ForbiddenCurrentFacts(d), ForbiddenCurrentFacts(c))
<1>1. d.expected = c.expected /\ (Expects(d, "forbidden_current_facts") <=> Expects(c, "forbidden_current_facts"))
  BY SameFields
<1>2. CASE StateMissing(d, "forbidden_current_facts")
  BY <1>1, <1>2 DEF ForbiddenCurrentFacts, Weaker, Unless
<1>3. CASE ~StateMissing(d, "forbidden_current_facts")
  <2>1. \A spec \in c.expected.forbidden_current_facts : HasState(d, StoreForStep(d, spec.source_step))
    BY <1>1, <1>3 DEF StateMissing
  <2>2. \A spec \in c.expected.forbidden_current_facts : ActiveFor(d, spec) = ActiveFor(c, spec)
    BY <2>1, SameState DEF ActiveFor
  <2>3. ~StateMissing(c, "forbidden_current_facts")
    BY <2>1, SameState DEF StateMissing
  <2>4. ForbiddenCurrentFacts(d) = ForbiddenCurrentFacts(c)
    BY <1>1, <1>3, <2>2, <2>3 DEF ForbiddenCurrentFacts
  <2> QED BY <2>4 DEF Weaker
<1> QED BY <1>2, <1>3

LEMMA DurableWeaker == ASSUME NEW c, NEW d, Fewer(d, c) PROVE Weaker(NoDurableFact(d), NoDurableFact(c))
  BY SameFields, SameState DEF NoDurableFact, Weaker, Unless

LEMMA CorrectionWeaker == ASSUME NEW c, NEW d, Fewer(d, c) PROVE Weaker(Correction(d), Correction(c))
<1>1. /\ d.expected = c.expected /\ d.steps = c.steps /\ (Expects(d, "correction") <=> Expects(c, "correction"))
      /\ StoreForStep(d, c.expected.correction.step) = StoreForStep(c, c.expected.correction.step)
  BY SameFields, SameState
<1>2. CASE ~HasState(d, StoreForStep(d, c.expected.correction.step))
  BY <1>1, <1>2 DEF Correction, Weaker, Unless
<1>3. CASE HasState(d, StoreForStep(d, c.expected.correction.step))
  <2>1. /\ HasState(c, StoreForStep(c, c.expected.correction.step))
        /\ ActiveFacts(d, StoreForStep(c, c.expected.correction.step)) = ActiveFacts(c, StoreForStep(c, c.expected.correction.step))
    BY <1>1, <1>3, SameState
  <2>2. Correction(d) = Correction(c)
    BY <1>1, <1>3, <2>1 DEF Correction
  <2> QED BY <2>2 DEF Weaker
<1> QED BY <1>2, <1>3

(* The checks of the steps. *)
LEMMA StepChecks ==
  ASSUME NEW c, NEW d, Fewer(d, c)
  PROVE  /\ RecallExcludes(d) = RecallExcludes(c) /\ RecallBudget(d) = RecallBudget(c)
         /\ ClassificationOutcome(d) = ClassificationOutcome(c) /\ StateChecks(d) = StateChecks(c)
<1> USE SameFields, SameState
<1>1. RecallExcludes(d) = RecallExcludes(c)
  BY DEF RecallExcludes, Unless, Binary
<1>2. RecallBudget(d) = RecallBudget(c)
  BY DEF RecallBudget
<1>3. ClassificationOutcome(d) = ClassificationOutcome(c)
  BY DEF ClassificationOutcome
<1>4. StateChecks(d) = StateChecks(c)
  <2>1. d.steps = c.steps /\ \A s : StepOk(d, s) = StepOk(c, s)
    OBVIOUS
  <2> QED BY ONLY <2>1 DEF StateChecks, Unless, Binary
<1> QED BY <1>1, <1>2, <1>3, <1>4

(* The checks of the answer and of the calls. *)
LEMMA AnswerChecks ==
  ASSUME NEW c, NEW d, Fewer(d, c)
  PROVE  /\ AnswerContains(d) = AnswerContains(c) /\ AnswerMustNotContain(d) = AnswerMustNotContain(c)
         /\ Abstention(d) = Abstention(c) /\ Retrieval(d) = Retrieval(c) /\ TrajectoryExact(d) = TrajectoryExact(c)
         /\ LeakCheck(d) = LeakCheck(c) /\ InjectionBoundary(d) = InjectionBoundary(c)
         /\ UnauthorizedEffects(d) = UnauthorizedEffects(c) /\ ToolConstraints(d) = ToolConstraints(c)
<1> USE SameFields, SameAnswers
<1>1. AnswerContains(d) = AnswerContains(c)
  <2>1. /\ \A k : Expected(d, k) = Expected(c, k)
        /\ d.pack = c.pack /\ (Outputs(d, "text") <=> Outputs(c, "text")) /\ Answer(d) = Answer(c)
    OBVIOUS
  <2> QED BY ONLY <2>1 DEF AnswerContains, Unless, Binary
<1>2. AnswerMustNotContain(d) = AnswerMustNotContain(c)
  BY DEF AnswerMustNotContain
<1>3. Abstention(d) = Abstention(c)
  BY DEF Abstention
<1>4. Retrieval(d) = Retrieval(c)
  BY DEF Retrieval
<1>5. TrajectoryExact(d) = TrajectoryExact(c)
  BY DEF TrajectoryExact
<1>6. LeakCheck(d) = LeakCheck(c)
  BY DEF LeakCheck, Unless, Binary
<1>7. InjectionBoundary(d) = InjectionBoundary(c)
  BY DEF InjectionBoundary
<1>8. UnauthorizedEffects(d) = UnauthorizedEffects(c)
  BY DEF UnauthorizedEffects
<1>9. ToolConstraints(d) = ToolConstraints(c)
  <2>1. \A pair : OutOfOrder(d, pair) = OutOfOrder(c, pair)
    BY DEF OutOfOrder, FirstCall
  <2>2. ToolProblems(d) = ToolProblems(c)
    BY <1>8, <2>1 DEF ToolProblems
  <2> QED BY <2>2 DEF ToolConstraints
<1> QED BY <1>1, <1>2, <1>3, <1>4, <1>5, <1>6, <1>7, <1>8, <1>9

LEMMA SameInvariance == ASSUME NEW c, NEW d, Fewer(d, c), Shaped(d), Shaped(c) PROVE Invariance(d) = Invariance(c)
<1>1. Reading(d) = Reading(c)
  BY TextChecks, SameAnswers DEF Reading
<1>2. ASSUME NEW o PROVE [d EXCEPT !.output = o] = [c EXCEPT !.output = o]
  BY SameFields DEF Shaped, ContextFields
<1> QED BY <1>1, <1>2, SameFields DEF Invariance

(* Verdicts over several statuses: less evidence never changes one. *)
Weakened(S, T) ==
  /\ \A x \in S : \E y \in T : Weaker(x, y)
  /\ \A y \in T : \E x \in S : Weaker(x, y)

LEMMA WeakenedSet == ASSUME NEW S, NEW T, Weakened(S, T) PROVE ("fail" \in S => "fail" \in T) /\ ("unavailable" \notin S => S = T)
  BY DEF Weakened, Weaker

LEMMA DecidedWeaker == ASSUME NEW S, NEW T, Weakened(S, T) PROVE Weaker(Decided(S), Decided(T))
<1>1. CASE "unavailable" \notin S
  BY <1>1, WeakenedSet DEF Weaker
<1>2. CASE "unavailable" \in S
  BY <1>2, WeakenedSet DEF Decided, Weaker
<1> QED BY <1>1, <1>2

LEMMA AggregateWeaker == ASSUME NEW S, NEW T, Weakened(S, T) PROVE Weaker(Aggregate(S).verdict, Aggregate(T).verdict)
<1>1. CASE "unavailable" \notin S
  BY <1>1, WeakenedSet DEF Weaker
<1>2. CASE "unavailable" \in S
  <2> DEFINE binary == (S \ {"not_applicable"}) \ {"measured"}
  <2>1. "unavailable" \in binary
    BY <1>2
  <2>2. CASE "fail" \in S
    <3>1. "fail" \in (T \ {"not_applicable"}) \ {"measured"}
      BY <2>2, WeakenedSet
    <3>2. Aggregate(T).verdict = "fail"
      BY <3>1 DEF Aggregate
    <3>3. Aggregate(S).verdict = "fail"
      BY <2>2 DEF Aggregate
    <3> QED BY <3>2, <3>3 DEF Weaker
  <2>3. CASE "fail" \notin S
    <3>1. Aggregate(S).verdict = "unavailable"
      BY <2>1, <2>3 DEF Aggregate
    <3> QED BY <3>1 DEF Weaker
  <2> QED BY <2>2, <2>3
<1> QED BY <1>1, <1>2

Named == {"recall_excludes", "answer_must_not_contain", "forbidden_current_facts", "abstention", "tool_constraints",
          "leak_check", "injection_boundary"}

LEMMA ComponentWeaker ==
  ASSUME NEW c, NEW d, Fewer(d, c), NEW k \in Named PROVE Weaker(Component(d, k), Component(c, k))
<1> USE DEF Weaker
<1>1. CASE k = "recall_excludes"
  BY <1>1, StepChecks DEF Component
<1>2. CASE k = "answer_must_not_contain"
  BY <1>2, AnswerChecks DEF Component
<1>3. CASE k = "forbidden_current_facts"
  BY <1>3, ForbiddenWeaker DEF Component
<1>4. CASE k = "abstention"
  BY <1>4, AnswerChecks DEF Component
<1>5. CASE k = "tool_constraints"
  BY <1>5, AnswerChecks DEF Component
<1>6. CASE k = "leak_check"
  BY <1>6, AnswerChecks DEF Component
<1>7. CASE k = "injection_boundary"
  BY <1>7, AnswerChecks DEF Component
<1> QED BY <1>1, <1>2, <1>3, <1>4, <1>5, <1>6, <1>7 DEF Named

LEMMA StatusWeaker ==
  ASSUME NEW c, NEW d, Fewer(d, c), NEW name PROVE Weaker(InvariantStatus(d, name), InvariantStatus(c, name))
<1>1. Components(name) \subseteq Named
  BY DEF Components, Named
<1>2. \A k \in Components(name) : Weaker(Component(d, k), Component(c, k))
  BY <1>1, ComponentWeaker
<1>3. Weakened({Component(d, k) : k \in Components(name)}, {Component(c, k) : k \in Components(name)})
  BY <1>2 DEF Weakened
<1> QED BY <1>3, DecidedWeaker DEF InvariantStatus

LEMMA InvariantsWeaker == ASSUME NEW c, NEW d, Fewer(d, c) PROVE Weaker(InvariantsHold(d), InvariantsHold(c))
<1>1. (Expects(d, "invariants") <=> Expects(c, "invariants")) /\ Expected(d, "invariants") = Expected(c, "invariants")
  BY SameFields
<1>2. \A name \in Expected(c, "invariants") : Weaker(InvariantStatus(d, name), InvariantStatus(c, name))
  BY StatusWeaker
<1>3. Weakened({InvariantStatus(d, name) : name \in Expected(d, "invariants")},
               {InvariantStatus(c, name) : name \in Expected(c, "invariants")})
  BY <1>1, <1>2 DEF Weakened
<1>4. Weaker(Decided({InvariantStatus(d, name) : name \in Expected(d, "invariants")}),
             Decided({InvariantStatus(c, name) : name \in Expected(c, "invariants")}))
  BY <1>3, DecidedWeaker
<1> QED BY <1>1, <1>4 DEF InvariantsHold, Unless, Weaker

LEMMA ChecksWeaker ==
  ASSUME NEW c, NEW d, Fewer(d, c), Shaped(d), Shaped(c)
  PROVE  /\ DOMAIN CheckFunctions(d) = DOMAIN CheckFunctions(c)
         /\ \A k \in DOMAIN CheckFunctions(c) : Weaker(CheckFunctions(d)[k], CheckFunctions(c)[k])
<1>1. /\ ExactMatch(d) = ExactMatch(c) /\ NormalizedMatch(d) = NormalizedMatch(c) /\ LabelMatch(d) = LabelMatch(c)
      /\ JsonSchema(d) = JsonSchema(c) /\ FieldAssertions(d) = FieldAssertions(c) /\ FactMatch(d) = FactMatch(c)
  BY TextChecks
<1>2. /\ Weaker(RequiredFacts(d), RequiredFacts(c)) /\ Weaker(ForbiddenCurrentFacts(d), ForbiddenCurrentFacts(c))
      /\ Weaker(NoDurableFact(d), NoDurableFact(c)) /\ Weaker(Correction(d), Correction(c))
      /\ Weaker(InvariantsHold(d), InvariantsHold(c))
  BY RequiredWeaker, ForbiddenWeaker, DurableWeaker, CorrectionWeaker, InvariantsWeaker
<1>3. /\ RecallExcludes(d) = RecallExcludes(c) /\ RecallBudget(d) = RecallBudget(c)
      /\ ClassificationOutcome(d) = ClassificationOutcome(c) /\ StateChecks(d) = StateChecks(c)
  BY StepChecks
<1>4. /\ AnswerContains(d) = AnswerContains(c) /\ AnswerMustNotContain(d) = AnswerMustNotContain(c)
      /\ Abstention(d) = Abstention(c) /\ Retrieval(d) = Retrieval(c) /\ TrajectoryExact(d) = TrajectoryExact(c)
      /\ LeakCheck(d) = LeakCheck(c) /\ InjectionBoundary(d) = InjectionBoundary(c)
      /\ ToolConstraints(d) = ToolConstraints(c)
  BY AnswerChecks
<1>5. Invariance(d) = Invariance(c) /\ ProbabilityRecord(d) = ProbabilityRecord(c)
  BY SameInvariance DEF ProbabilityRecord
<1>6. DOMAIN CheckFunctions(d) = DOMAIN CheckFunctions(c)
  BY DEF CheckFunctions
<1>7. ASSUME NEW k \in DOMAIN CheckFunctions(c) PROVE Weaker(CheckFunctions(d)[k], CheckFunctions(c)[k])
  BY <1>1, <1>2, <1>3, <1>4, <1>5 DEF CheckFunctions, Weaker
<1> QED BY <1>6, <1>7

LEMMA EvidenceWeakens ==
  ASSUME NEW c, NEW d, Fewer(d, c), Shaped(d), Shaped(c), NEW checks \in SUBSET DOMAIN CheckFunctions(c)
  PROVE  /\ Weaker(Deterministic(d, checks).verdict, Deterministic(c, checks).verdict)
         /\ InvariantFailures(d, checks) \subseteq InvariantFailures(c, checks)
<1>1. \A k \in checks : Weaker(CheckFunctions(d)[k], CheckFunctions(c)[k])
  BY ChecksWeaker
<1>2. Weakened({CheckFunctions(d)[k] : k \in checks}, {CheckFunctions(c)[k] : k \in checks})
  BY <1>1 DEF Weakened
<1>3. Weaker(Deterministic(d, checks).verdict, Deterministic(c, checks).verdict)
  BY <1>2, AggregateWeaker DEF Deterministic
<1>4. \A name : InvariantStatus(d, name) = "fail" => InvariantStatus(c, name) = "fail"
  BY StatusWeaker DEF Weaker
<1>5. /\ LeakCheck(d) = LeakCheck(c) /\ InjectionBoundary(d) = InjectionBoundary(c)
      /\ UnauthorizedEffects(d) = UnauthorizedEffects(c) /\ Expected(d, "invariants") = Expected(c, "invariants")
      /\ d.scenario = c.scenario
  BY AnswerChecks, SameFields
<1>6. InvariantFailures(d, checks) \subseteq InvariantFailures(c, checks)
  BY <1>4, <1>5 DEF InvariantFailures
<1> QED BY <1>3, <1>6

(***************************************************************************)
(* The attempts of a job, counted.                                         *)
(***************************************************************************)
Countable(rows) == IsFiniteSet(DOMAIN rows) /\ \A g \in DOMAIN rows : rows[g].tries \in Seq(Try)
TriesBy(rows) == [g \in DOMAIN rows |-> Len(rows[g].tries)]

LEMMA AttemptsAre ==
  ASSUME NEW rows, Countable(rows)
  PROVE  /\ \A g \in DOMAIN rows : TriesBy(rows)[g] = Len(rows[g].tries) /\ TriesBy(rows)[g] \in Nat
         /\ AttemptsIn(rows) = Sigma(TriesBy(rows), DOMAIN rows) /\ AttemptsIn(rows) \in Nat
<1>1. \A g \in DOMAIN rows : TriesBy(rows)[g] = Len(rows[g].tries) /\ TriesBy(rows)[g] \in Nat
  BY DEF TriesBy, Countable
<1>2. DOMAIN TriesBy(rows) = DOMAIN rows /\ AttemptsIn(rows) = SumFunction(TriesBy(rows))
  BY DEF TriesBy, AttemptsIn
<1>3. AttemptsIn(rows) = Sigma(TriesBy(rows), DOMAIN rows)
  BY <1>2, SumIs
<1>4. AttemptsIn(rows) \in Nat
  BY <1>1, <1>3, SigmaNatural DEF Countable
<1> QED BY <1>1, <1>3, <1>4

LEMMA NoAttempts == AttemptsIn(<<>>) = 0 /\ Countable(<<>>)
<1>1. DOMAIN <<>> = {}
  OBVIOUS
<1>2. Countable(<<>>)
  BY <1>1, FS_EmptySet DEF Countable
<1>3. Sigma(TriesBy(<<>>), {}) = 0
  BY <1>1, <1>2, SigmaStep, FS_EmptySet
<1> QED BY <1>1, <1>2, <1>3, AttemptsAre

(* One result more. *)
With(rows, g, row) == [h \in DOMAIN rows \cup {g} |-> IF h = g THEN row ELSE rows[h]]

LEMMA AttemptsGrow ==
  ASSUME NEW rows, Countable(rows), NEW g, NEW row, row.tries \in Seq(Try)
  PROVE  Countable(With(rows, g, row)) /\ AttemptsIn(With(rows, g, row)) <= AttemptsIn(rows) + Len(row.tries)
<1> DEFINE more == With(rows, g, row)
           D == DOMAIN rows
<1>1. DOMAIN more = D \cup {g} /\ more[g] = row /\ \A h \in D \ {g} : more[h] = rows[h]
  BY DEF With
<1> HIDE DEF more
<1>2. Countable(more)
  BY <1>1, FS_AddElement DEF Countable
<1>3. /\ \A h \in D : TriesBy(rows)[h] \in Nat
      /\ \A h \in D \cup {g} : TriesBy(more)[h] = Len(more[h].tries) /\ TriesBy(more)[h] \in Nat
      /\ \A h \in D \ {g} : TriesBy(more)[h] = TriesBy(rows)[h]
      /\ TriesBy(more)[g] = Len(row.tries)
      /\ AttemptsIn(rows) = Sigma(TriesBy(rows), D) /\ AttemptsIn(rows) \in Nat
      /\ AttemptsIn(more) = Sigma(TriesBy(more), D \cup {g})
  BY <1>1, <1>2, AttemptsAre
<1>4. IsFiniteSet(D) /\ IsFiniteSet(D \cup {g})
  BY <1>1, <1>2 DEF Countable
<1> DEFINE R == D \ {g}
<1>5. IsFiniteSet(R)
  BY <1>4, FS_Subset
<1>6. Sigma(TriesBy(more), R) <= Sigma(TriesBy(rows), R)
  BY <1>3, <1>5, SigmaMonotone
<1>7. AttemptsIn(more) = Len(row.tries) + Sigma(TriesBy(more), R) /\ Sigma(TriesBy(more), R) \in Int
  <2>1. \A h \in D \cup {g} : TriesBy(more)[h] \in Int
    BY <1>3
  <2>2. Sigma(TriesBy(more), R \cup {g}) = TriesBy(more)[g] + Sigma(TriesBy(more), R) /\ Sigma(TriesBy(more), R) \in Int
    <3>1. /\ \A T \in SUBSET (D \cup {g}) : Sigma(TriesBy(more), T) \in Int
          /\ \A T \in SUBSET (D \cup {g}) : \A x \in (D \cup {g}) \ T :
                Sigma(TriesBy(more), T \cup {x}) = TriesBy(more)[x] + Sigma(TriesBy(more), T)
      BY <1>4, <2>1, SigmaStep
    <3>2. R \in SUBSET (D \cup {g}) /\ g \in (D \cup {g}) \ R
      OBVIOUS
    <3> HIDE DEF R
    <3> QED BY <3>1, <3>2
  <2>3. R \cup {g} = D \cup {g}
    OBVIOUS
  <2> QED BY <1>3, <2>2, <2>3
<1>8. Sigma(TriesBy(rows), R) <= AttemptsIn(rows) /\ Sigma(TriesBy(rows), R) \in Int
  <2>0. \A h \in D : TriesBy(rows)[h] \in Int
    BY <1>3
  <2>1. CASE g \in D
    <3>1. Sigma(TriesBy(rows), R \cup {g}) = TriesBy(rows)[g] + Sigma(TriesBy(rows), R) /\ Sigma(TriesBy(rows), R) \in Int
      <4>1. /\ \A T \in SUBSET D : Sigma(TriesBy(rows), T) \in Int
            /\ \A T \in SUBSET D : \A x \in D \ T : Sigma(TriesBy(rows), T \cup {x}) = TriesBy(rows)[x] + Sigma(TriesBy(rows), T)
        BY <1>4, <2>0, SigmaStep
      <4>2. R \in SUBSET D /\ g \in D \ R
        BY <2>1
      <4> HIDE DEF R
      <4> QED BY <4>1, <4>2
    <3>2. R \cup {g} = D
      BY <2>1
    <3> QED BY <1>3, <2>1, <3>1, <3>2
  <2>2. CASE g \notin D
    <3>1. R = D
      BY <2>2
    <3> QED BY <1>3, <3>1
  <2> QED BY <2>1, <2>2
<1>9. AttemptsIn(more) <= AttemptsIn(rows) + Len(row.tries)
  <2>1. Len(row.tries) \in Nat
    OBVIOUS
  <2> QED BY <1>3, <1>6, <1>7, <1>8, <2>1
<1> QED BY <1>2, <1>9 DEF more

(***************************************************************************)
(* The invariant of a job: what each of its results rests on, what has     *)
(* been asked of the judge for the grader it is at, and what that used.    *)
(***************************************************************************)

(* Of a malformed reply at most one repeat. *)
Paced(tries) == \A n \in 1 .. 2 : /\ Len(TriesOf(tries, n)) <= 2
                                  /\ Len(TriesOf(tries, n)) = 2 => TriesOf(tries, n)[1].reply = "malformed"

Sound(t, g, row) ==
  /\ ~IsJudge(g) /\ CaseOf(t).output =>
        IF <<subject[t], g>> \in Defective THEN row.verdict = "error" /\ row.reason = "grader_exception"
        ELSE row.verdict = Deterministic(Context(t), Graders[g].checks).verdict
  /\ ~CaseOf(t).output => row.verdict = "unavailable"

Accounted(g, row) ==
  /\ row.tries \in Seq(Try) /\ Paced(row.tries)
  /\ row.verdict \in {"pass", "fail", "abstain"} /\ IsJudge(g) => Last(row.tries).reply = "answer"
  /\ row.said # <<>> =>
        /\ opinion \in {"candidate", "baseline"} => Range(row.said) = {IF opinion = "candidate" THEN "win" ELSE "loss"}
        /\ opinion \in {"first", "second"} /\ Graders[g].reversed => row.said[1] # row.said[2]

RowOk(t, g, row) == g \in DOMAIN Graders /\ Sound(t, g, row) /\ Accounted(g, row)

(* What the judge has answered for grader g, order by order. *)
Replies(t, g, said) ==
  \A i \in 1 .. Len(said) : said[i] = ToCandidate(Preference(Positions(t, g)[i]), Positions(t, g)[i])
Heard(t, g, said) == Len(said) < Len(Positions(t, g)) /\ Replies(t, g, said)

(* The attempts in order n: at most one so far, a malformed one; two at most in the order before. *)
InTurn(tries, n) ==
  /\ Paced(tries)
  /\ Len(TriesOf(tries, n)) <= 1
  /\ Len(TriesOf(tries, n)) = 1 => TriesOf(tries, n)[1].reply = "malformed"
  /\ n = 1 => TriesOf(tries, 2) = <<>>
  /\ Len(tries) <= 2 * (n - 1) + Len(TriesOf(tries, n))

Asking(t) ==
  LET j == job[t] IN
  /\ j.tries \in Seq(Try) /\ j.said \in Seq({"win", "loss", "tie", "abstain"})
  /\ OrderOf(t) \in 1 .. 2 /\ InTurn(j.tries, OrderOf(t))
  /\ j.said # <<>> => j.tries # <<>>
  /\ j.tries # <<>> => /\ j.left # <<>> /\ IsJudge(Head(j.left)) /\ j.used < MaxJudgeCalls
                      /\ Heard(t, Head(j.left), j.said)

Budgeted(t) ==
  /\ job[t].used \in Nat /\ Countable(job[t].results) /\ AttemptsIn(job[t].results) <= job[t].used
  /\ AttemptsIn(job[t].results) <= MaxJudgeCalls + 3
  /\ Countable(grades[t]) /\ AttemptsIn(grades[t]) <= MaxJudgeCalls + 3

(* What the grades of a trial that passed, or that failed, hold. *)
NamedBy(rows, name) == {g \in DOMAIN rows : NameOf(g) = name}
Ruling(rows) == {g \in DOMAIN rows : NameOf(g) \in MandatoryNames}
Passing(rows) ==
  /\ \E g \in Ruling(rows) : rows[g].verdict = "pass"
  /\ \A name \in MandatoryNames : \E g \in NamedBy(rows, name) : rows[g].verdict = "pass" \/ rows[g].reason = "not_applicable"
  /\ \A g \in Ruling(rows) : rows[g].verdict = "error" => NamedBy(rows, NameOf(g)) # {g}
Failed(rows) == \E g \in Ruling(rows) : rows[g].verdict = "fail"
Reporting(rows) == {g \in DOMAIN rows : rows[g].verdict # "error"}

Settled(t) ==
  /\ outcome[t].outcome = "pass" => CaseOf(t).output /\ Passing(grades[t])
  /\ outcome[t].outcome = "fail" => Failed(grades[t])
  /\ outcome[t].invariants \subseteq
        UNION {InvariantFailures(Context(t), Graders[g].checks) : g \in Reporting(grades[t])}

JobInv(t) ==
  /\ job[t].at \in {"queued", "grading", "done"} /\ job[t].left \in Seq(DOMAIN Graders)
  /\ job[t].at # "done" => grades[t] = <<>> /\ outcome[t] = NoOutcome
  /\ \A g \in DOMAIN job[t].results : RowOk(t, g, job[t].results[g])
  /\ \A g \in DOMAIN grades[t] : RowOk(t, g, grades[t][g])
  /\ Asking(t) /\ Budgeted(t) /\ Settled(t)

VerdictInv ==
  /\ subject \in [Trials -> DOMAIN Cases] /\ opinion \in Opinions
  /\ job = [t \in Trials |-> job[t]] /\ grades = [t \in Trials |-> grades[t]] /\ outcome = [t \in Trials |-> outcome[t]]
  /\ \A t \in Trials : JobInv(t)

(* It means what the two properties say. *)
LEMMA CaseFacts ==
  ASSUME VerdictInv, NEW t \in Trials
  PROVE  /\ CaseOf(t).output \in BOOLEAN /\ CaseOf(t).peer \in BOOLEAN /\ CaseOf(t).candFirst \in BOOLEAN
         /\ \A g \in DOMAIN Graders :
               /\ Weaker(Deterministic(Context(t), Graders[g].checks).verdict,
                         Deterministic(CaseOf(t).context, Graders[g].checks).verdict)
               /\ InvariantFailures(Context(t), Graders[g].checks) \subseteq
                     InvariantFailures(CaseOf(t).context, Graders[g].checks)
<1> DEFINE c == CaseOf(t).context
           d == Context(t)
<1>1. subject[t] \in DOMAIN Cases /\ CaseOf(t) = Cases[subject[t]]
  BY DEF VerdictInv, CaseOf
<1>2. IsCase(CaseOf(t)) /\ \A g \in DOMAIN Graders : Graders[g].checks \subseteq DOMAIN CheckFunctions(c)
  BY <1>1, VerdictAssumption
<1>3. Shaped(c)
  BY <1>2 DEF IsCase, Shaped
<1>4. Fewer(d, c) /\ Shaped(d)
  BY <1>3, WithoutIsFewer DEF Context
<1>5. ASSUME NEW g \in DOMAIN Graders
      PROVE  /\ Weaker(Deterministic(d, Graders[g].checks).verdict, Deterministic(c, Graders[g].checks).verdict)
             /\ InvariantFailures(d, Graders[g].checks) \subseteq InvariantFailures(c, Graders[g].checks)
  <2> HIDE DEF c, d
  <2> QED BY <1>2, <1>3, <1>4, EvidenceWeakens
<1>6. CaseOf(t).output \in BOOLEAN /\ CaseOf(t).peer \in BOOLEAN /\ CaseOf(t).candFirst \in BOOLEAN
  BY <1>2 DEF IsCase
<1> QED BY <1>5, <1>6

LEMMA EvidenceFollows == VerdictInv => VerdictsNeedEvidence
<1> SUFFICES ASSUME VerdictInv PROVE VerdictsNeedEvidence
  OBVIOUS
<1> SUFFICES ASSUME NEW t \in Trials
             PROVE  /\ \A g \in DOMAIN grades[t] : ~IsJudge(g) /\ CaseOf(t).output =>
                          IF <<subject[t], g>> \in Defective
                          THEN grades[t][g].verdict = "error" /\ grades[t][g].reason = "grader_exception"
                          ELSE grades[t][g].verdict \in {"unavailable", Deterministic(CaseOf(t).context, Graders[g].checks).verdict}
                    /\ outcome[t].outcome = "pass" => CaseOf(t).output /\ Passing(grades[t])
                    /\ outcome[t].outcome = "fail" => Failed(grades[t])
                    /\ \A i \in outcome[t].invariants : \E g \in DOMAIN grades[t] :
                          grades[t][g].verdict # "error" /\ i \in InvariantFailures(CaseOf(t).context, Graders[g].checks)
  BY DEF VerdictsNeedEvidence, Passing, Failed, Ruling, NamedBy
<1>1. JobInv(t)
  BY DEF VerdictInv
<1>2. \A g \in DOMAIN grades[t] : g \in DOMAIN Graders /\ Sound(t, g, grades[t][g])
  BY <1>1 DEF JobInv, RowOk
<1>3. Settled(t)
  BY <1>1 DEF JobInv
<1>4. ASSUME NEW g \in DOMAIN grades[t], ~IsJudge(g), CaseOf(t).output
      PROVE  IF <<subject[t], g>> \in Defective
             THEN grades[t][g].verdict = "error" /\ grades[t][g].reason = "grader_exception"
             ELSE grades[t][g].verdict \in {"unavailable", Deterministic(CaseOf(t).context, Graders[g].checks).verdict}
  BY <1>2, <1>4, CaseFacts DEF Sound, Weaker
<1>5. \A i \in outcome[t].invariants : \E g \in DOMAIN grades[t] :
         grades[t][g].verdict # "error" /\ i \in InvariantFailures(CaseOf(t).context, Graders[g].checks)
  <2>1. outcome[t].invariants \subseteq
           UNION {InvariantFailures(Context(t), Graders[g].checks) : g \in Reporting(grades[t])}
    BY <1>3 DEF Settled
  <2>2. \A g \in Reporting(grades[t]) :
           InvariantFailures(Context(t), Graders[g].checks) \subseteq InvariantFailures(CaseOf(t).context, Graders[g].checks)
    BY <1>2, CaseFacts DEF Reporting
  <2> QED BY <2>1, <2>2 DEF Reporting
<1> QED BY <1>3, <1>4, <1>5 DEF Settled

LEMMA AccountsFollow == VerdictInv => JudgeIsAccountedFor
<1> SUFFICES ASSUME VerdictInv PROVE JudgeIsAccountedFor
  OBVIOUS
<1>0. IsFiniteSet(Trials) /\ MaxJudgeCalls + 3 \in Nat
  BY VerdictAssumption
<1>1. ASSUME NEW t \in Trials, NEW g \in DOMAIN grades[t] PROVE Accounted(g, grades[t][g])
  BY DEF VerdictInv, JobInv, RowOk
<1>2. Recorded <= Cardinality(Trials) * (MaxJudgeCalls + 3)
  <2> DEFINE f == [t \in Trials |-> AttemptsIn(grades[t])]
  <2>1. \A t \in Trials : f[t] \in Nat /\ f[t] <= MaxJudgeCalls + 3
    BY AttemptsAre DEF VerdictInv, JobInv, Budgeted
  <2>2. Recorded = Sigma(f, Trials)
    BY SumIs DEF Recorded
  <2> HIDE DEF f
  <2>3. Sigma(f, Trials) <= Cardinality(Trials) * (MaxJudgeCalls + 3)
    BY <1>0, <2>1, SigmaAtMost
  <2> QED BY <2>2, <2>3
<1> QED BY <1>1, <1>2 DEF JudgeIsAccountedFor, Accounted, Paced

LEMMA VerdictInvInit ==
  ASSUME VerdictInit([t \in Trials |-> DOMAIN Cases], Opinions) PROVE VerdictInv
<1>1. /\ subject \in [Trials -> DOMAIN Cases] /\ opinion \in Opinions
      /\ job = [t \in Trials |-> Waiting] /\ grades = [t \in Trials |-> <<>>] /\ outcome = [t \in Trials |-> NoOutcome]
  BY DEF VerdictInit
<1>2. ASSUME NEW t \in Trials PROVE JobInv(t)
  <2>1. job[t] = Waiting /\ grades[t] = <<>> /\ outcome[t] = NoOutcome
    BY <1>1
  <2>2. /\ Waiting.at = "queued" /\ Waiting.left = <<>> /\ Waiting.used = 0 /\ Waiting.results = <<>>
        /\ Waiting.tries = <<>> /\ Waiting.said = <<>> /\ NoOutcome.outcome = "none" /\ NoOutcome.invariants = {}
    BY DEF Waiting, NoOutcome
  <2>3. DOMAIN <<>> = {} /\ Len(<<>>) = 0 /\ <<>> \in Seq(DOMAIN Graders) /\ <<>> \in Seq(Try)
        /\ <<>> \in Seq({"win", "loss", "tie", "abstain"})
    OBVIOUS
  <2>4. Asking(t)
    <3>1. OrderOf(t) = 1
      BY <2>1, <2>2, <2>3 DEF OrderOf
    <3>2. InTurn(<<>>, 1)
      BY <2>3, SelectEmpty DEF InTurn, Paced, TriesOf
    <3> QED BY <2>1, <2>2, <2>3, <3>1, <3>2 DEF Asking
  <2>5. Budgeted(t)
    BY <2>1, <2>2, NoAttempts, VerdictAssumption DEF Budgeted
  <2>6. Settled(t)
    BY <2>1, <2>2 DEF Settled
  <2> QED BY <2>1, <2>2, <2>3, <2>4, <2>5, <2>6 DEF JobInv
<1> QED BY <1>1, <1>2 DEF VerdictInv

(* What a step leaves alone. *)
LEMMA SameMeaning ==
  ASSUME UNCHANGED <<subject, opinion>>
  PROVE  /\ \A t, g, row : RowOk(t, g, row)' <=> RowOk(t, g, row)
         /\ \A t, g, said : Heard(t, g, said)' <=> Heard(t, g, said)
         /\ \A t : CaseOf(t)' = CaseOf(t) /\ Context(t)' = Context(t)
         /\ \A t, g : Positions(t, g)' = Positions(t, g)
         /\ \A b : Preference(b)' = Preference(b)
<1>1. \A t : CaseOf(t)' = CaseOf(t)
  BY DEF CaseOf
<1>2. \A t : Context(t)' = Context(t)
  BY <1>1 DEF Context
<1>3. \A t, g : Positions(t, g)' = Positions(t, g)
  BY <1>1 DEF Positions
<1>4. \A b : Preference(b)' = Preference(b)
  BY DEF Preference
<1>5. \A t, g, row : RowOk(t, g, row)' <=> RowOk(t, g, row)
  BY <1>1, <1>2 DEF RowOk, Sound, Accounted
<1>6. \A t, g, said : Heard(t, g, said)' <=> Heard(t, g, said)
  BY <1>3, <1>4 DEF Heard, Replies
<1> QED BY <1>1, <1>2, <1>3, <1>4, <1>5, <1>6

LEMMA OthersStay ==
  ASSUME VerdictInv, UNCHANGED <<subject, opinion>>, NEW u \in Trials,
         job'[u] = job[u], grades'[u] = grades[u], outcome'[u] = outcome[u]
  PROVE  JobInv(u)'
<1>1. JobInv(u)
  BY DEF VerdictInv
<1>2. /\ \A g, row : RowOk(u, g, row)' <=> RowOk(u, g, row)
      /\ \A g, said : Heard(u, g, said)' <=> Heard(u, g, said)
      /\ CaseOf(u)' = CaseOf(u) /\ Context(u)' = Context(u)
  BY SameMeaning
<1>3. Asking(u)'
  <2>1. Asking(u)
    BY <1>1 DEF JobInv
  <2>2. OrderOf(u)' = OrderOf(u)
    BY DEF OrderOf
  <2> QED BY <1>2, <2>1, <2>2 DEF Asking
<1>4. Budgeted(u)'
  BY <1>1 DEF JobInv, Budgeted
<1>5. Settled(u)'
  BY <1>1, <1>2 DEF JobInv, Settled
<1> QED BY <1>1, <1>2, <1>3, <1>4, <1>5 DEF JobInv

(***************************************************************************)
(* The steps.                                                              *)
(***************************************************************************)
LEMMA OneJob ==
  ASSUME VerdictInv, NEW t \in Trials, UNCHANGED <<subject, opinion>>,
         job' = [u \in Trials |-> job'[u]], grades' = [u \in Trials |-> grades'[u]], outcome' = [u \in Trials |-> outcome'[u]],
         \A u \in Trials \ {t} : job'[u] = job[u] /\ grades'[u] = grades[u] /\ outcome'[u] = outcome[u],
         JobInv(t)'
  PROVE  VerdictInv'
<1>1. ASSUME NEW u \in Trials PROVE JobInv(u)'
  BY OthersStay
<1> QED BY <1>1 DEF VerdictInv

(* A step that changes nothing but the data of the job itself. *)
LEMMA JobOnly ==
  ASSUME VerdictInv, NEW t \in Trials, NEW j, job' = [job EXCEPT ![t] = j], UNCHANGED <<subject, opinion, grades, outcome>>,
         JobInv(t)'
  PROVE  VerdictInv'
<1>1. job = [u \in Trials |-> job[u]] /\ grades = [u \in Trials |-> grades[u]] /\ outcome = [u \in Trials |-> outcome[u]]
  BY DEF VerdictInv
<1>2. job' = [u \in Trials |-> job'[u]] /\ \A u \in Trials \ {t} : job'[u] = job[u]
  BY <1>1
<1> QED BY <1>1, <1>2, OneJob

LEMMA AskingNothing ==
  ASSUME NEW t, job'[t].tries = <<>>, job'[t].said = <<>>
  PROVE  Asking(t)'
<1>1. OrderOf(t)' = 1
  BY DEF OrderOf
<1>2. <<>> \in Seq(Try) /\ <<>> \in Seq({"win", "loss", "tie", "abstain"})
  OBVIOUS
<1>3. InTurn(<<>>, 1)
  BY SelectEmpty DEF InTurn, Paced, TriesOf
<1> QED BY <1>1, <1>2, <1>3 DEF Asking

LEMMA LoadKeeps == ASSUME VerdictInv, NEW t \in Trials, Load(t) PROVE VerdictInv'
<1> DEFINE rest == Select(GraderIds, DOMAIN Graders \ DOMAIN grades[t])
           left == Select(rest, DOMAIN Graders \ Judges) \o Select(rest, Judges)
           j == [at |-> "grading", left |-> left, used |-> Recorded, results |-> <<>>, tries |-> <<>>, said |-> <<>>]
<1>1. JobInv(t) /\ job[t].at = "queued" /\ job' = [job EXCEPT ![t] = j] /\ UNCHANGED <<subject, opinion, grades, outcome>>
  BY DEF Load, VerdictInv
<1>2. left \in Seq(DOMAIN Graders)
  <2>1. rest \in Seq(DOMAIN Graders)
    BY VerdictAssumption, SelectSeqOf
  <2> HIDE DEF rest
  <2>2. Select(rest, DOMAIN Graders \ Judges) \in Seq(DOMAIN Graders) /\ Select(rest, Judges) \in Seq(DOMAIN Graders)
    BY <2>1, SelectSeqOf
  <2> QED BY <2>2
<1>3. Recorded \in Nat
  <2> DEFINE f == [u \in Trials |-> AttemptsIn(grades[u])]
  <2>1. \A u \in Trials : f[u] \in Nat
    BY AttemptsAre DEF VerdictInv, JobInv, Budgeted
  <2>2. Recorded = Sigma(f, Trials)
    BY SumIs DEF Recorded
  <2> HIDE DEF f
  <2> QED BY <2>1, <2>2, SigmaNatural, VerdictAssumption
<1> HIDE DEF left
<1>4. job'[t] = j
  BY <1>1 DEF VerdictInv
<1>5. /\ job'[t].at = "grading" /\ job'[t].left = left /\ job'[t].used = Recorded /\ job'[t].results = <<>>
      /\ job'[t].tries = <<>> /\ job'[t].said = <<>>
  BY <1>4
<1>6. Budgeted(t)'
  BY <1>1, <1>3, <1>5, NoAttempts, VerdictAssumption DEF JobInv, Budgeted
<1>7. Settled(t)'
  BY <1>1, SameMeaning DEF JobInv, Settled
<1>8. JobInv(t)'
  <2>1. DOMAIN <<>> = {}
    OBVIOUS
  <2>2. Asking(t)'
    BY <1>5, AskingNothing
  <2>3. (\A g \in DOMAIN grades[t] : RowOk(t, g, grades[t][g]))'
    BY <1>1, SameMeaning DEF JobInv
  <2> QED BY <1>1, <1>2, <1>5, <1>6, <1>7, <2>1, <2>2, <2>3 DEF JobInv
<1> QED BY <1>1, <1>8, JobOnly

LEMMA CrashKeeps == ASSUME VerdictInv, NEW t \in Trials, CrashGrading(t) PROVE VerdictInv'
<1>1. JobInv(t) /\ job[t].at = "grading" /\ job' = [job EXCEPT ![t] = Waiting] /\ UNCHANGED <<subject, opinion, grades, outcome>>
  BY DEF CrashGrading, VerdictInv
<1>2. job'[t] = Waiting
  BY <1>1 DEF VerdictInv
<1>3. /\ job'[t].at = "queued" /\ job'[t].left = <<>> /\ job'[t].used = 0 /\ job'[t].results = <<>>
      /\ job'[t].tries = <<>> /\ job'[t].said = <<>>
  BY <1>2 DEF Waiting
<1>4. Budgeted(t)'
  BY <1>1, <1>3, NoAttempts, VerdictAssumption DEF JobInv, Budgeted
<1>5. Settled(t)'
  BY <1>1, SameMeaning DEF JobInv, Settled
<1>6. JobInv(t)'
  <2>1. DOMAIN <<>> = {} /\ <<>> \in Seq(DOMAIN Graders)
    OBVIOUS
  <2>2. Asking(t)'
    BY <1>3, AskingNothing
  <2>3. (\A g \in DOMAIN grades[t] : RowOk(t, g, grades[t][g]))'
    BY <1>1, SameMeaning DEF JobInv
  <2> QED BY <1>1, <1>3, <1>4, <1>5, <2>1, <2>2, <2>3 DEF JobInv
<1> QED BY <1>1, <1>6, JobOnly

LEMMA HeadIn == ASSUME NEW E, NEW s \in Seq(E), s # <<>> PROVE Head(s) \in E /\ Tail(s) \in Seq(E)
  OBVIOUS

LEMMA WithinBudget ==
  \A used, was, now, len, most \in Nat :
     was <= used /\ was <= most + 3 /\ now <= was + len /\ len <= 4 /\ (len > 0 => used < most) =>
        now <= used + len /\ now <= most + 3
  OBVIOUS

(* A grader ends with a result that says what it should and cost what the budget allows. *)
LEMMA GiveKeeps ==
  ASSUME VerdictInv, NEW t \in Trials, Grading(t), NEW result, Give(t, result), UNCHANGED <<subject, opinion, grades, outcome>>,
         RowOk(t, Head(job[t].left), result), Len(result.tries) <= 4,
         Len(result.tries) > 0 => job[t].used < MaxJudgeCalls
  PROVE  VerdictInv'
<1> DEFINE g == Head(job[t].left)
           old == job[t].results
           j == [at |-> job[t].at, left |-> Tail(job[t].left), used |-> job[t].used + Len(result.tries),
                 results |-> [h \in DOMAIN old \cup {g} |-> IF h = g THEN result ELSE old[h]], tries |-> <<>>, said |-> <<>>]
<1>1. JobInv(t) /\ job[t].at = "grading" /\ job[t].left # <<>> /\ job' = [job EXCEPT ![t] = j]
  BY DEF Grading, Give, VerdictInv
<1>2. job'[t] = j
  BY <1>1 DEF VerdictInv
<1>3. /\ job'[t].at = "grading" /\ job'[t].left = Tail(job[t].left) /\ job'[t].used = job[t].used + Len(result.tries)
      /\ job'[t].results = With(old, g, result) /\ job'[t].tries = <<>> /\ job'[t].said = <<>>
  BY <1>1, <1>2 DEF With
<1>4. result.tries \in Seq(Try) /\ Len(result.tries) \in Nat
  BY DEF RowOk, Accounted
<1>5. Tail(job[t].left) \in Seq(DOMAIN Graders)
  <2>1. job[t].left \in Seq(DOMAIN Graders) /\ job[t].left # <<>>
    BY <1>1 DEF JobInv
  <2> QED BY <2>1, HeadIn
<1>6. Budgeted(t)'
  <2>1. /\ job[t].used \in Nat /\ Countable(old) /\ AttemptsIn(old) <= job[t].used /\ AttemptsIn(old) <= MaxJudgeCalls + 3
        /\ Countable(grades[t]) /\ AttemptsIn(grades[t]) <= MaxJudgeCalls + 3
    BY <1>1 DEF JobInv, Budgeted
  <2> HIDE DEF old, g
  <2>2. Countable(With(old, g, result)) /\ AttemptsIn(With(old, g, result)) <= AttemptsIn(old) + Len(result.tries)
    BY <1>4, <2>1, AttemptsGrow
  <2>3. AttemptsIn(old) \in Nat /\ AttemptsIn(With(old, g, result)) \in Nat
    BY <2>1, <2>2, AttemptsAre
  <2>4. MaxJudgeCalls \in Nat
    BY VerdictAssumption
  <2>5. /\ job'[t].used \in Nat /\ AttemptsIn(With(old, g, result)) <= job'[t].used
        /\ AttemptsIn(With(old, g, result)) <= MaxJudgeCalls + 3
    <3>1. Len(result.tries) > 0 => job[t].used < MaxJudgeCalls
      OBVIOUS
    <3>2. AttemptsIn(With(old, g, result)) <= job[t].used + Len(result.tries) /\ AttemptsIn(With(old, g, result)) <= MaxJudgeCalls + 3
      BY <1>4, <2>1, <2>2, <2>3, <2>4, <3>1, WithinBudget
    <3> QED BY <1>3, <1>4, <2>1, <3>2
  <2> QED BY <1>3, <2>1, <2>2, <2>5 DEF Budgeted
<1>7. (\A h \in DOMAIN job[t].results : RowOk(t, h, job[t].results[h]))'
  <2>1. \A h \in DOMAIN old : RowOk(t, h, old[h])
    BY <1>1 DEF JobInv
  <2>2. RowOk(t, g, result)
    OBVIOUS
  <2> HIDE DEF old, g
  <2>3. \A h \in DOMAIN With(old, g, result) : RowOk(t, h, With(old, g, result)[h])
    BY <2>1, <2>2 DEF With
  <2>4. \A h, row : RowOk(t, h, row)' <=> RowOk(t, h, row)
    BY SameMeaning
  <2> HIDE DEF j
  <2> QED BY <1>3, <2>3, <2>4
<1>8. JobInv(t)'
  <2>1. Asking(t)'
    BY <1>3, AskingNothing
  <2>2. Settled(t)'
    BY <1>1, SameMeaning DEF JobInv, Settled
  <2>3. (\A h \in DOMAIN grades[t] : RowOk(t, h, grades[t][h]))'
    BY <1>1, SameMeaning DEF JobInv
  <2> HIDE DEF old, g, j
  <2> QED BY <1>1, <1>3, <1>5, <1>6, <1>7, <2>1, <2>2, <2>3 DEF JobInv
<1> QED BY <1>1, <1>8, JobOnly

(* The judge is to be asked again. *)
LEMMA ContinueKeeps ==
  ASSUME VerdictInv, NEW t \in Trials, Grading(t), NEW tries, NEW said, Continue(t, tries, said),
         UNCHANGED <<subject, opinion, grades, outcome>>,
         tries \in Seq(Try), said \in Seq({"win", "loss", "tie", "abstain"}), Len(said) <= 1, InTurn(tries, Len(said) + 1),
         tries # <<>>, IsJudge(Head(job[t].left)), job[t].used < MaxJudgeCalls, Heard(t, Head(job[t].left), said)
  PROVE  VerdictInv'
<1> DEFINE j == [at |-> job[t].at, left |-> job[t].left, used |-> job[t].used, results |-> job[t].results,
                 tries |-> tries, said |-> said]
<1>1. JobInv(t) /\ job[t].at = "grading" /\ job[t].left # <<>> /\ job' = [job EXCEPT ![t] = j]
  BY DEF Grading, Continue, VerdictInv
<1>2. job'[t] = j
  BY <1>1 DEF VerdictInv
<1>3. /\ job'[t].at = "grading" /\ job'[t].left = job[t].left /\ job'[t].used = job[t].used
      /\ job'[t].results = job[t].results /\ job'[t].tries = tries /\ job'[t].said = said
  BY <1>1, <1>2
<1>4. OrderOf(t)' = Len(said) + 1 /\ Len(said) + 1 \in 1 .. 2
  <2>1. Len(said) \in Nat
    OBVIOUS
  <2> QED BY <1>3, <2>1 DEF OrderOf
<1>5. Asking(t)'
  BY <1>1, <1>3, <1>4, SameMeaning DEF Asking
<1>6. Budgeted(t)'
  BY <1>1, <1>3 DEF JobInv, Budgeted
<1>7. Settled(t)'
  BY <1>1, SameMeaning DEF JobInv, Settled
<1>8. (\A h \in DOMAIN job[t].results : RowOk(t, h, job[t].results[h]))'
  BY <1>1, <1>3, SameMeaning DEF JobInv
<1>9. (\A h \in DOMAIN grades[t] : RowOk(t, h, grades[t][h]))'
  BY <1>1, SameMeaning DEF JobInv
<1>10. JobInv(t)'
  <2> HIDE DEF j
  <2> QED BY <1>1, <1>3, <1>5, <1>6, <1>7, <1>8, <1>9 DEF JobInv
<1> QED BY <1>1, <1>10, JobOnly

(* A result of which nobody was asked. *)
LEMMA PlainRow ==
  ASSUME VerdictInv, NEW t \in Trials, NEW g \in DOMAIN Graders, NEW verdict, NEW reason,
         IsJudge(g) => verdict \notin {"pass", "fail", "abstain"},
         ~IsJudge(g) /\ CaseOf(t).output =>
            IF <<subject[t], g>> \in Defective THEN verdict = "error" /\ reason = "grader_exception"
            ELSE verdict = Deterministic(Context(t), Graders[g].checks).verdict,
         ~CaseOf(t).output => verdict = "unavailable"
  PROVE  RowOk(t, g, Plainly(verdict, reason)) /\ Len(Plainly(verdict, reason).tries) = 0
<1> DEFINE row == Plainly(verdict, reason)
<1>1. row.verdict = verdict /\ row.reason = reason /\ row.tries = <<>> /\ row.said = <<>>
  BY DEF Plainly, Result
<1>2. <<>> \in Seq(Try) /\ Len(<<>>) = 0
  OBVIOUS
<1>3. Paced(<<>>)
  BY <1>2, SelectEmpty DEF Paced, TriesOf
<1> HIDE DEF row
<1>4. Sound(t, g, row)
  BY <1>1 DEF Sound
<1>5. Accounted(g, row)
  BY <1>1, <1>2, <1>3 DEF Accounted
<1>6. RowOk(t, g, row) /\ Len(row.tries) = 0
  BY <1>1, <1>2, <1>4, <1>5 DEF RowOk
<1> QED BY <1>6 DEF row

LEMMA GradeKeeps == ASSUME VerdictInv, NEW t \in Trials, Grade(t) PROVE VerdictInv'
<1> DEFINE g == Head(job[t].left)
           checked == Deterministic(Context(t), Graders[g].checks)
           raises == <<subject[t], g>> \in Defective
<1>0. Grading(t) /\ UNCHANGED <<subject, opinion, grades, outcome>>
  BY DEF Grade
<1>1. g \in DOMAIN Graders
  <2>1. job[t].left \in Seq(DOMAIN Graders) /\ job[t].left # <<>>
    BY <1>0 DEF VerdictInv, JobInv, Grading
  <2> QED BY <2>1, HeadIn
<1>2. ASSUME NEW verdict, NEW reason, Give(t, Plainly(verdict, reason)), RowOk(t, g, Plainly(verdict, reason)),
             Len(Plainly(verdict, reason).tries) = 0
      PROVE  VerdictInv'
  BY <1>0, <1>2, GiveKeeps
<1>3. CASE IsJudge(g) /\ LimitReached(t) /\ Give(t, Plainly("unavailable", "judge call limit reached"))
  BY <1>1, <1>2, <1>3, PlainRow
<1>4. CASE ~IsJudge(g) /\ CaseOf(t).output /\ ~raises /\ Give(t, Plainly(checked.verdict, checked.reason))
  <2> HIDE DEF g
  <2> QED BY <1>1, <1>2, <1>4, PlainRow
<1>7. CASE ~IsJudge(g) /\ CaseOf(t).output /\ raises /\ Give(t, Plainly("error", "grader_exception"))
  <2> HIDE DEF g
  <2> QED BY <1>1, <1>2, <1>7, PlainRow
<1>5. CASE ~(IsJudge(g) /\ LimitReached(t)) /\ ~CaseOf(t).output /\ Give(t, Plainly("unavailable", "no_output"))
  BY <1>1, <1>2, <1>5, PlainRow
<1>6. CASE /\ IsJudge(g) /\ ~LimitReached(t) /\ CaseOf(t).output /\ ~Asks(t)
           /\ Give(t, Plainly("unavailable", "no peer or no judge"))
  BY <1>1, <1>2, <1>6, PlainRow
<1> QED BY <1>3, <1>4, <1>5, <1>6, <1>7 DEF Grade

(* What the pass rule says of the grades by name holds of the grades themselves. *)
LEMMA OutcomeRests ==
  ASSUME NEW rows, NEW by \in ByName(rows)
  PROVE  LET seen == [n \in DOMAIN by |-> rows[by[n]]]
         IN  /\ TrialOutcome(seen) = "pass" => Passing(rows)
             /\ TrialOutcome(seen) = "fail" => Failed(rows)
<1> DEFINE seen == [n \in DOMAIN by |-> rows[by[n]]]
           graded == MandatoryNames \cap DOMAIN seen
           applied == {n \in graded : ~(seen[n].verdict = "unavailable" /\ seen[n].reason = "not_applicable")}
<1>1. /\ DOMAIN by = {NameOf(g) : g \in Ruling(rows)}
      /\ \A name \in DOMAIN by : by[name] \in NamedBy(rows, name)
  BY DEF ByName, NamedBy, Ruling
<1>2. \A name \in graded : seen[name] = rows[by[name]] /\ by[name] \in Ruling(rows) /\ by[name] \in NamedBy(rows, name)
  BY <1>1 DEF Ruling, NamedBy
<1>3. ASSUME TrialOutcome(seen) = "pass"
      PROVE  applied # {} /\ graded = MandatoryNames /\ \A n \in applied : seen[n].verdict = "pass"
  BY <1>3 DEF TrialOutcome
<1>4. ASSUME TrialOutcome(seen) = "fail" PROVE \E n \in applied : seen[n].verdict = "fail"
  BY <1>4 DEF TrialOutcome
<1>5. ASSUME TrialOutcome(seen) = "pass" PROVE Passing(rows)
  <2>1. PICK n \in applied : seen[n].verdict = "pass"
    BY <1>3, <1>5
  <2>2. \E g \in Ruling(rows) : rows[g].verdict = "pass"
    BY <1>2, <2>1
  <2>3. ASSUME NEW name \in MandatoryNames
        PROVE  \E g \in NamedBy(rows, name) : rows[g].verdict = "pass" \/ rows[g].reason = "not_applicable"
    BY <1>2, <1>3, <1>5
  <2>4. ASSUME NEW g \in Ruling(rows), rows[g].verdict = "error", NamedBy(rows, NameOf(g)) = {g} PROVE FALSE
    <3>1. NameOf(g) \in graded
      BY <1>1, <1>3, <1>5 DEF Ruling
    <3>2. by[NameOf(g)] = g /\ seen[NameOf(g)].verdict = "error"
      BY <1>2, <2>4, <3>1
    <3> QED BY <1>3, <1>5, <3>1, <3>2
  <2> QED BY <2>2, <2>3, <2>4 DEF Passing
<1>6. ASSUME TrialOutcome(seen) = "fail" PROVE Failed(rows)
  BY <1>2, <1>4, <1>6 DEF Failed
<1> QED BY <1>5, <1>6

LEMMA PersistKeeps == ASSUME VerdictInv, NEW t \in Trials, Persist(t) PROVE VerdictInv'
<1> DEFINE given == job[t].results
           stored == DOMAIN grades[t]
           all == [g \in stored \cup DOMAIN given |-> IF g \in stored THEN grades[t][g] ELSE given[g]]
           failing == UNION {InvariantFailures(Context(t), Graders[g].checks) :
                                g \in {h \in DOMAIN all : ~IsJudge(h) /\ CaseOf(t).output /\ all[h].verdict # "error"}}
           Seen(by) == [n \in DOMAIN by |-> all[by[n]]]
<1>0. PICK by \in ByName(all) :
         outcome' = IF outcome[t] # NoOutcome THEN outcome
                    ELSE [outcome EXCEPT ![t] = [outcome |-> TrialOutcome(Seen(by)), invariants |-> failing]]
  BY DEF Persist
<1> DEFINE out == [outcome |-> TrialOutcome(Seen(by)), invariants |-> failing]
<1>1. /\ JobInv(t) /\ grades[t] = <<>> /\ outcome[t] = NoOutcome /\ UNCHANGED <<subject, opinion>>
      /\ job' = [job EXCEPT ![t] = [Waiting EXCEPT !.at = "done"]]
      /\ grades' = [grades EXCEPT ![t] = all] /\ outcome' = [outcome EXCEPT ![t] = out]
  <2>1. JobInv(t) /\ job[t].at = "grading"
    BY DEF Persist, VerdictInv
  <2>2. grades[t] = <<>> /\ outcome[t] = NoOutcome
    BY <2>1 DEF JobInv
  <2> QED BY <1>0, <2>1, <2>2 DEF Persist
<1>2. DOMAIN all = DOMAIN given /\ \A g \in DOMAIN given : all[g] = given[g]
  <2>1. stored = {}
    BY <1>1
  <2> HIDE DEF stored, given
  <2> QED BY <2>1
<1>3. job'[t] = [Waiting EXCEPT !.at = "done"] /\ grades'[t] = all /\ outcome'[t] = out
  BY <1>1 DEF VerdictInv
<1>4. /\ job'[t].at = "done" /\ job'[t].left = <<>> /\ job'[t].used = 0 /\ job'[t].results = <<>>
      /\ job'[t].tries = <<>> /\ job'[t].said = <<>>
  BY <1>3 DEF Waiting
<1>5. out.outcome = TrialOutcome(Seen(by)) /\ out.invariants = failing
  OBVIOUS
<1> HIDE DEF given, stored, failing, out
<1>6. TrialOutcome(Seen(by)) = "pass" => Passing(all)
  <2> HIDE DEF all
  <2> QED BY OutcomeRests
<1>7. TrialOutcome(Seen(by)) = "fail" => Failed(all)
  <2> HIDE DEF all
  <2> QED BY OutcomeRests
<1>8. failing \subseteq UNION {InvariantFailures(Context(t), Graders[g].checks) : g \in Reporting(all)}
  <2>1. {h \in DOMAIN all : ~IsJudge(h) /\ CaseOf(t).output /\ all[h].verdict # "error"} \subseteq Reporting(all)
    <3> HIDE DEF all
    <3> QED BY DEF Reporting
  <2> QED BY <2>1 DEF failing
<1> HIDE DEF all, Seen
<1>9. \A g \in DOMAIN all : RowOk(t, g, all[g])
  BY <1>1, <1>2 DEF JobInv, given
<1>10. Countable(all) /\ AttemptsIn(all) <= MaxJudgeCalls + 3
  <2>1. Countable(given) /\ AttemptsIn(given) <= MaxJudgeCalls + 3
    BY <1>1 DEF JobInv, Budgeted, given
  <2>2. Countable(all)
    BY <1>2, <2>1 DEF Countable
  <2>3. AttemptsIn(all) = AttemptsIn(given)
    <3>1. [g \in DOMAIN all |-> Len(all[g].tries)] = [g \in DOMAIN given |-> Len(given[g].tries)]
      BY <1>2
    <3> QED BY <3>1 DEF AttemptsIn
  <2> QED BY <2>1, <2>2, <2>3
<1>11. Passing(all) => CaseOf(t).output
  <2>1. \A g \in DOMAIN all : all[g].verdict = "pass" => CaseOf(t).output
    BY <1>9, CaseFacts DEF RowOk, Sound
  <2> QED BY <2>1 DEF Passing, Ruling
<1>12. Settled(t)'
  <2>1. CaseOf(t)' = CaseOf(t) /\ Context(t)' = Context(t)
    BY <1>1, SameMeaning
  <2> QED BY <1>3, <1>5, <1>11, <1>8, <1>6, <1>7, <2>1 DEF Settled
<1>13. JobInv(t)'
  <2>1. DOMAIN <<>> = {} /\ <<>> \in Seq(DOMAIN Graders)
    OBVIOUS
  <2>2. Asking(t)'
    BY <1>4, AskingNothing
  <2>3. (\A g \in DOMAIN grades[t] : RowOk(t, g, grades[t][g]))'
    BY <1>1, <1>3, <1>9, SameMeaning
  <2>4. Budgeted(t)'
    BY <1>3, <1>4, <1>10, NoAttempts, VerdictAssumption DEF Budgeted
  <2> QED BY <1>4, <1>12, <2>1, <2>2, <2>3, <2>4 DEF JobInv
<1>14. /\ job' = [u \in Trials |-> job'[u]] /\ grades' = [u \in Trials |-> grades'[u]] /\ outcome' = [u \in Trials |-> outcome'[u]]
       /\ \A u \in Trials \ {t} : job'[u] = job[u] /\ grades'[u] = grades[u] /\ outcome'[u] = outcome[u]
  <2>1. job = [u \in Trials |-> job[u]] /\ grades = [u \in Trials |-> grades[u]] /\ outcome = [u \in Trials |-> outcome[u]]
    BY DEF VerdictInv
  <2> QED BY <1>1, <2>1
<1> QED BY <1>1, <1>13, <1>14, OneJob

LEMMA Appended ==
  ASSUME NEW E, NEW s \in Seq(E), NEW e \in E
  PROVE  /\ Append(s, e) \in Seq(E) /\ Append(s, e) # <<>> /\ Len(Append(s, e)) = Len(s) + 1 /\ Len(s) \in Nat
         /\ Append(s, e)[Len(s) + 1] = e /\ \A i \in 1 .. Len(s) : Append(s, e)[i] = s[i]
         /\ s = <<>> <=> Len(s) = 0
  OBVIOUS

Grows(more, tries, try) == more = Append(tries, try)

LEMMA ZeroOrOne == \A k \in Nat : k <= 1 => (k = 0 \/ k = 1)
  OBVIOUS
LEMMA FirstOfTwo == \A k, n \in 1 .. 2 : n <= k /\ n # k => n = 1 /\ n < k
  OBVIOUS
LEMMA AtMostTwo == \A k \in 0 .. 1 : k + 1 <= 2
  OBVIOUS

LEMMA SecondTry ==
  ASSUME NEW now, NEW try, now \in Seq(Try), try \in Try, Len(now) <= 1, Len(now) = 1 => now[1].reply = "malformed"
  PROVE  /\ Len(now) \in 0 .. 1 /\ Len(Append(now, try)) = Len(now) + 1
         /\ Len(Append(now, try)) = 2 => Append(now, try)[1].reply = "malformed"
         /\ now = <<>> => Len(now) = 0 /\ Append(now, try)[1] = try
<1>1. /\ Len(Append(now, try)) = Len(now) + 1 /\ Append(now, try)[Len(now) + 1] = try
      /\ \A i \in 1 .. Len(now) : Append(now, try)[i] = now[i]
      /\ Len(now) \in Nat /\ (now = <<>> <=> Len(now) = 0)
  BY Appended
<1>2. CASE Len(now) = 0
  <2>1. Len(Append(now, try)) = 1 /\ Append(now, try)[1] = try
    BY <1>1, <1>2
  <2> QED BY <1>1, <1>2, <2>1
<1>3. CASE Len(now) = 1
  <2>1. Len(Append(now, try)) = 2 /\ Append(now, try)[1] = now[1]
    BY <1>1, <1>3
  <2> QED BY <1>1, <1>3, <2>1
<1>4. Len(now) = 0 \/ Len(now) = 1
  <2>1. Len(now) \in Nat
    BY <1>1
  <2> QED BY <2>1, ZeroOrOne
<1> QED BY <1>2, <1>3, <1>4

(* One attempt more in the order that is being asked. *)
LEMMA OneTryMore ==
  ASSUME NEW tries, NEW n, NEW try, NEW more, tries \in Seq(Try), n \in 1 .. 2, InTurn(tries, n), try \in Try, try.order = n,
         Grows(more, tries, try)
  PROVE  /\ more \in Seq(Try) /\ more # <<>> /\ Last(more) = try /\ Paced(more) /\ Len(more) <= 4 /\ Len(more) > 0
         /\ TriesOf(tries, n) = <<>> /\ try.reply = "malformed" => InTurn(more, n)
         /\ n = 1 => InTurn(more, 2)
<1> DEFINE now == TriesOf(tries, n)
           then == TriesOf(more, n)
<1>1. more \in Seq(Try) /\ more # <<>> /\ Len(more) = Len(tries) + 1 /\ Len(tries) \in Nat /\ more[Len(tries) + 1] = try
  BY Appended DEF Grows
<1>2. Last(more) = try
  BY <1>1 DEF Last
<1>3. ASSUME NEW m \in 1 .. 2
      PROVE  /\ TriesOf(tries, m) \in Seq(Try)
             /\ TriesOf(more, m) = IF m = n THEN Append(TriesOf(tries, m), try) ELSE TriesOf(tries, m)
  <2>1. TriesOf(tries, m) \in Seq(Try)
    BY SelectSeqOf DEF TriesOf
  <2>2. try \in {x \in Try : x.order = m} <=> m = n
    OBVIOUS
  <2>3. TriesOf(more, m) = IF try \in {x \in Try : x.order = m} THEN Append(TriesOf(tries, m), try) ELSE TriesOf(tries, m)
    BY SelectAppend DEF TriesOf, Grows
  <2> QED BY <2>1, <2>2, <2>3
<1>4. /\ Len(now) <= 1 /\ (Len(now) = 1 => now[1].reply = "malformed") /\ (n = 1 => TriesOf(tries, 2) = <<>>)
      /\ Len(tries) <= 2 * (n - 1) + Len(now) /\ Paced(tries)
  BY DEF InTurn
<1>5. now \in Seq(Try) /\ then = Append(now, try)
  BY <1>3
<1> HIDE DEF now, then
<1>6. /\ Len(now) \in 0 .. 1 /\ Len(then) = Len(now) + 1
      /\ Len(then) = 2 => then[1].reply = "malformed"
      /\ now = <<>> => Len(now) = 0 /\ then[1] = try
  BY <1>4, <1>5, SecondTry
<1>7. Paced(more)
  <2> SUFFICES ASSUME NEW m \in 1 .. 2
               PROVE  Len(TriesOf(more, m)) <= 2 /\ (Len(TriesOf(more, m)) = 2 => TriesOf(more, m)[1].reply = "malformed")
    BY DEF Paced
  <2>1. CASE m = n
    <3>1. Len(then) <= 2
      BY <1>6, AtMostTwo
    <3> QED BY <1>6, <2>1, <3>1 DEF then
  <2>2. CASE m # n
    BY <1>3, <1>4, <2>2 DEF Paced
  <2> QED BY <2>1, <2>2
<1>8. Len(more) <= 4 /\ Len(more) > 0
  BY <1>1, <1>4, <1>6
<1>9. ASSUME now = <<>>, try.reply = "malformed" PROVE InTurn(more, n)
  <2>1. Len(then) <= 1 /\ then[1].reply = "malformed"
    BY <1>6, <1>9
  <2>2. n = 1 => TriesOf(more, 2) = <<>>
    BY <1>3, <1>4
  <2>3. Len(more) <= 2 * (n - 1) + Len(then)
    BY <1>1, <1>4, <1>6
  <2> QED BY <1>7, <2>1, <2>2, <2>3 DEF InTurn, then
<1>10. ASSUME n = 1 PROVE InTurn(more, 2)
  <2>1. TriesOf(more, 2) = <<>>
    BY <1>3, <1>4, <1>10
  <2>2. Len(more) <= 2 * (2 - 1) + 0
    BY <1>1, <1>4, <1>6, <1>10
  <2>3. Len(<<>>) = 0
    OBVIOUS
  <2> QED BY <1>7, <2>1, <2>2, <2>3 DEF InTurn
<1> QED BY <1>1, <1>2, <1>7, <1>8, <1>9, <1>10 DEF now

(* What the judge's opinion comes to in either position. *)
LEMMA OpinionHeard ==
  ASSUME NEW first \in BOOLEAN
  PROVE  LET said == ToCandidate(Preference(first), first)
         IN  /\ said \in {"win", "loss", "tie", "abstain"}
             /\ opinion = "candidate" => said = "win"
             /\ opinion = "baseline" => said = "loss"
             /\ opinion = "first" => said = IF first THEN "win" ELSE "loss"
             /\ opinion = "second" => said = IF first THEN "loss" ELSE "win"
<1>1. CASE first = TRUE
  BY <1>1 DEF ToCandidate, Preference
<1>2. CASE first = FALSE
  BY <1>2 DEF ToCandidate, Preference
<1> QED BY <1>1, <1>2

LEMMA PositionsAre ==
  ASSUME VerdictInv, NEW t \in Trials, NEW g
  PROVE  /\ Len(Positions(t, g)) = IF Graders[g].reversed THEN 2 ELSE 1
         /\ \A n \in 1 .. Len(Positions(t, g)) : Positions(t, g)[n] \in BOOLEAN
         /\ Graders[g].reversed => Positions(t, g)[2] = ~Positions(t, g)[1]
<1>1. CaseOf(t).candFirst \in BOOLEAN
  BY CaseFacts
<1>2. CASE Graders[g].reversed
  <2>1. Positions(t, g) = <<CaseOf(t).candFirst, ~CaseOf(t).candFirst>>
    BY <1>2 DEF Positions
  <2>2. Len(Positions(t, g)) = 2 /\ Positions(t, g)[1] = CaseOf(t).candFirst /\ Positions(t, g)[2] = ~CaseOf(t).candFirst
    BY <2>1
  <2>3. ASSUME NEW n \in 1 .. 2 PROVE Positions(t, g)[n] \in BOOLEAN
    <3>1. n = 1 \/ n = 2
      OBVIOUS
    <3> QED BY <1>1, <2>2, <3>1
  <2> QED BY <1>2, <2>2, <2>3
<1>3. CASE ~Graders[g].reversed
  <2>1. Positions(t, g) = <<CaseOf(t).candFirst>>
    BY <1>3 DEF Positions
  <2> QED BY <1>1, <1>3, <2>1
<1> QED BY <1>2, <1>3

(* Every order heard: the row is accounted for. *)
LEMMA AllHeard ==
  ASSUME VerdictInv, NEW t \in Trials, NEW g, NEW said \in Seq({"win", "loss", "tie", "abstain"}),
         Len(said) = Len(Positions(t, g)), Replies(t, g, said)
  PROVE  /\ opinion \in {"candidate", "baseline"} => Range(said) = {IF opinion = "candidate" THEN "win" ELSE "loss"}
         /\ opinion \in {"first", "second"} /\ Graders[g].reversed => said[1] # said[2]
<1> DEFINE P == Positions(t, g)
<1>1. /\ Len(P) = IF Graders[g].reversed THEN 2 ELSE 1
      /\ \A n \in 1 .. Len(P) : P[n] \in BOOLEAN
      /\ Graders[g].reversed => P[2] = ~P[1]
  BY PositionsAre
<1>2. DOMAIN said = 1 .. Len(said) /\ 1 \in DOMAIN said
  <2>1. Len(said) = 1 \/ Len(said) = 2
    BY <1>1
  <2>2. DOMAIN said = 1 .. Len(said)
    OBVIOUS
  <2> QED BY <2>1, <2>2
<1> HIDE DEF P
<1>3. \A i \in 1 .. Len(said) : P[i] \in BOOLEAN /\ said[i] = ToCandidate(Preference(P[i]), P[i])
  BY <1>1 DEF P, Replies
<1>4. ASSUME opinion \in {"candidate", "baseline"} PROVE Range(said) = {IF opinion = "candidate" THEN "win" ELSE "loss"}
  <2>1. \A i \in DOMAIN said : said[i] = IF opinion = "candidate" THEN "win" ELSE "loss"
    BY <1>2, <1>3, <1>4, OpinionHeard
  <2> QED BY <1>2, <2>1 DEF Range
<1>5. ASSUME opinion \in {"first", "second"}, Graders[g].reversed PROVE said[1] # said[2]
  <2>1. /\ P[1] \in BOOLEAN /\ P[2] \in BOOLEAN /\ P[2] = ~P[1]
        /\ said[1] = ToCandidate(Preference(P[1]), P[1]) /\ said[2] = ToCandidate(Preference(P[2]), P[2])
    BY <1>1, <1>3, <1>5 DEF P
  <2>2. said[1] = (IF (opinion = "first") = P[1] THEN "win" ELSE "loss") /\ said[2] = (IF (opinion = "first") = P[2] THEN "win" ELSE "loss")
    BY <1>5, <2>1, OpinionHeard
  <2>3. CASE P[1] = TRUE
    BY <1>5, <2>1, <2>2, <2>3
  <2>4. CASE P[1] = FALSE
    BY <1>5, <2>1, <2>2, <2>4
  <2> QED BY <2>1, <2>3, <2>4
<1> QED BY <1>4, <1>5

(* One call of the judge for grader g, in order n, by what the reply is. *)
LEMMA JudgeReplies ==
  ASSUME VerdictInv, NEW t \in Trials, AskJudge(t)
  PROVE  LET g == Head(job[t].left)
             n == OrderOf(t)
             first == Positions(t, g)[n]
             said == Append(job[t].said, ToCandidate(Preference(first), first))
         IN  /\ Grading(t) /\ Asks(t) /\ UNCHANGED <<subject, opinion, grades, outcome>>
             /\ \E reply \in {"error", "raises", "malformed", "answer"}, verdict \in {"pass", "fail", "abstain"} :
                  LET tries == Append(job[t].tries, [order |-> n, reply |-> reply])
                  IN  \/ reply = "raises" /\ Give(t, Plainly("error", "grader_exception"))
                      \/ reply = "error" /\ Give(t, Result("error", "judge_transport_error", tries, <<>>))
                      \/ reply = "malformed" /\ Give(t, Result("error", "invalid_judge_output", tries, <<>>))
                      \/ reply = "malformed" /\ MayAskAgain(t) /\ Continue(t, tries, job[t].said)
                      \/ reply = "answer" /\ Give(t, Result(verdict, "none", tries, <<>>))
                      \/ /\ reply = "answer" /\ Len(said) = Len(Positions(t, g))
                         /\ Give(t, Result("unavailable", "not_a_binary_verdict", tries, said))
                      \/ /\ reply = "answer" /\ Kind(g) = "pairwise" /\ Len(said) # Len(Positions(t, g))
                         /\ Continue(t, tries, said)
<1> DEFINE g == Head(job[t].left)
           n == OrderOf(t)
           first == Positions(t, g)[n]
           said == Append(job[t].said, ToCandidate(Preference(first), first))
<1>1. Grading(t) /\ Asks(t) /\ UNCHANGED <<subject, opinion, grades, outcome>>
  BY DEF AskJudge
<1>2. Kind(g) = "model" \/ Kind(g) = "pairwise"
  BY <1>1 DEF Asks, IsJudge
<1>3. PICK reply \in {"error", "raises", "malformed", "answer"}, verdict \in {"pass", "fail", "abstain"} :
         LET tries == Append(job[t].tries, [order |-> n, reply |-> reply])
         IN  CASE reply = "error" -> Give(t, Result("error", "judge_transport_error", tries, <<>>))
               [] reply = "raises" -> Give(t, Plainly("error", "grader_exception"))
               [] reply = "malformed" /\ ~MayAskAgain(t) -> Give(t, Result("error", "invalid_judge_output", tries, <<>>))
               [] reply = "malformed" /\ MayAskAgain(t) -> Continue(t, tries, job[t].said)
               [] reply = "answer" /\ Kind(g) = "model" -> Give(t, Result(verdict, "none", tries, <<>>))
               [] reply = "answer" /\ Kind(g) = "pairwise" /\ Len(said) = Len(Positions(t, g)) ->
                      Give(t, Result("unavailable", "not_a_binary_verdict", tries, said))
               [] OTHER -> Continue(t, tries, said)
  BY DEF AskJudge
<1> DEFINE tries == Append(job[t].tries, [order |-> n, reply |-> reply])
<1> HIDE DEF g, n, first, said, tries
<1>4. \/ reply = "raises" /\ Give(t, Plainly("error", "grader_exception"))
      \/ reply = "error" /\ Give(t, Result("error", "judge_transport_error", tries, <<>>))
      \/ reply = "malformed" /\ Give(t, Result("error", "invalid_judge_output", tries, <<>>))
      \/ reply = "malformed" /\ MayAskAgain(t) /\ Continue(t, tries, job[t].said)
      \/ reply = "answer" /\ Give(t, Result(verdict, "none", tries, <<>>))
      \/ reply = "answer" /\ Len(said) = Len(Positions(t, g)) /\ Give(t, Result("unavailable", "not_a_binary_verdict", tries, said))
      \/ reply = "answer" /\ Kind(g) = "pairwise" /\ Len(said) # Len(Positions(t, g)) /\ Continue(t, tries, said)
  BY <1>2, <1>3 DEF tries
<1> QED BY <1>1, <1>4 DEF g, n, first, said, tries

(* The result of a judge that was asked. *)
LEMMA JudgeRow ==
  ASSUME VerdictInv, NEW t \in Trials, NEW g \in DOMAIN Graders, IsJudge(g), CaseOf(t).output,
         NEW verdict, NEW reason, NEW tries \in Seq(Try), NEW said \in Seq({"win", "loss", "tie", "abstain"}),
         Paced(tries), verdict \in {"pass", "fail", "abstain"} => Last(tries).reply = "answer",
         said # <<>> => Len(said) = Len(Positions(t, g)) /\ Replies(t, g, said)
  PROVE  RowOk(t, g, Result(verdict, reason, tries, said)) /\ Result(verdict, reason, tries, said).tries = tries
<1> DEFINE row == Result(verdict, reason, tries, said)
<1>1. row.verdict = verdict /\ row.tries = tries /\ row.said = said
  BY DEF Result
<1> HIDE DEF row
<1>2. Sound(t, g, row)
  BY CaseFacts DEF Sound
<1>3. said # <<>> =>
        /\ opinion \in {"candidate", "baseline"} => Range(said) = {IF opinion = "candidate" THEN "win" ELSE "loss"}
        /\ opinion \in {"first", "second"} /\ Graders[g].reversed => said[1] # said[2]
  BY AllHeard
<1>4. Accounted(g, row)
  BY <1>1, <1>3 DEF Accounted
<1>5. RowOk(t, g, row) /\ row.tries = tries
  BY <1>1, <1>2, <1>4 DEF RowOk
<1> QED BY <1>5 DEF row

LEMMA AskKeeps == ASSUME VerdictInv, NEW t \in Trials, AskJudge(t) PROVE VerdictInv'
<1> DEFINE g == Head(job[t].left)
           n == OrderOf(t)
           first == Positions(t, g)[n]
           more == ToCandidate(Preference(first), first)
           said == Append(job[t].said, more)
<1>1. Grading(t) /\ Asks(t) /\ UNCHANGED <<subject, opinion, grades, outcome>>
  BY DEF AskJudge
<1>2. /\ JobInv(t) /\ job[t].left # <<>> /\ IsJudge(g) /\ CaseOf(t).output /\ Graders[g].judge
      /\ (job[t].tries = <<>> => ~LimitReached(t))
  BY <1>1 DEF VerdictInv, Grading, Asks, AskJudge
<1>3. g \in DOMAIN Graders
  <2>1. job[t].left \in Seq(DOMAIN Graders)
    BY <1>2 DEF JobInv
  <2> QED BY <1>2, <2>1, HeadIn
<1>4. /\ job[t].tries \in Seq(Try) /\ job[t].said \in Seq({"win", "loss", "tie", "abstain"}) /\ n \in 1 .. 2
      /\ InTurn(job[t].tries, n) /\ n = Len(job[t].said) + 1 /\ Len(job[t].said) \in Nat
  <2>1. Asking(t)
    BY <1>2 DEF JobInv
  <2>2. job[t].said \in Seq({"win", "loss", "tie", "abstain"}) /\ Len(job[t].said) \in Nat
    BY <2>1 DEF Asking
  <2> QED BY <2>1, <2>2 DEF Asking, OrderOf
<1>5. job[t].used < MaxJudgeCalls /\ Heard(t, g, job[t].said)
  <2>1. CASE job[t].tries # <<>>
    BY <1>2, <2>1 DEF JobInv, Asking
  <2>2. CASE job[t].tries = <<>>
    <3>1. job[t].said = <<>> /\ job[t].used \in Nat
      BY <1>2, <2>2 DEF JobInv, Asking, Budgeted
    <3>2. job[t].used < MaxJudgeCalls
      BY <1>2, <2>2, <3>1, VerdictAssumption DEF LimitReached
    <3>3. Heard(t, g, <<>>)
      <4>1. Len(Positions(t, g)) = IF Graders[g].reversed THEN 2 ELSE 1
        BY PositionsAre
      <4>2. Len(<<>>) = 0
        OBVIOUS
      <4>3. Len(<<>>) < Len(Positions(t, g))
        BY <4>1, <4>2
      <4> QED BY <4>2, <4>3 DEF Heard, Replies
    <3> QED BY <3>1, <3>2, <3>3
  <2> QED BY <2>1, <2>2
<1> HIDE DEF g, n, first, more, said
<1>6. Len(Positions(t, g)) \in 1 .. 2 /\ n <= Len(Positions(t, g)) /\ first \in BOOLEAN
  <2>1. Len(Positions(t, g)) \in 1 .. 2 /\ \A k \in 1 .. Len(Positions(t, g)) : Positions(t, g)[k] \in BOOLEAN
    BY PositionsAre
  <2>2. Len(job[t].said) < Len(Positions(t, g))
    BY <1>5 DEF Heard
  <2>3. n <= Len(Positions(t, g))
    BY <1>4, <2>1, <2>2
  <2> QED BY <1>4, <2>1, <2>3 DEF first
<1>7. /\ said \in Seq({"win", "loss", "tie", "abstain"}) /\ Len(said) = n /\ Replies(t, g, said)
  <2>1. more \in {"win", "loss", "tie", "abstain"}
    BY <1>6, OpinionHeard DEF more
  <2>2. /\ said \in Seq({"win", "loss", "tie", "abstain"}) /\ Len(said) = n /\ said[n] = more
        /\ \A i \in 1 .. Len(job[t].said) : said[i] = job[t].said[i]
    BY <1>4, <2>1, Appended DEF said
  <2>3. Replies(t, g, job[t].said)
    BY <1>5 DEF Heard
  <2>4. \A i \in 1 .. n : i = n \/ i \in 1 .. Len(job[t].said)
    BY <1>4
  <2>5. ASSUME NEW i \in 1 .. n PROVE said[i] = ToCandidate(Preference(Positions(t, g)[i]), Positions(t, g)[i])
    <3>1. CASE i = n
      BY <2>2, <3>1 DEF more, first
    <3>2. CASE i \in 1 .. Len(job[t].said)
      BY <2>2, <2>3, <3>2 DEF Replies
    <3> QED BY <2>4, <3>1, <3>2
  <2> QED BY <2>2, <2>5 DEF Replies
<1>8. PICK reply \in {"error", "raises", "malformed", "answer"}, verdict \in {"pass", "fail", "abstain"} :
         LET tries == Append(job[t].tries, [order |-> n, reply |-> reply])
         IN  \/ reply = "raises" /\ Give(t, Plainly("error", "grader_exception"))
             \/ reply = "error" /\ Give(t, Result("error", "judge_transport_error", tries, <<>>))
             \/ reply = "malformed" /\ Give(t, Result("error", "invalid_judge_output", tries, <<>>))
             \/ reply = "malformed" /\ MayAskAgain(t) /\ Continue(t, tries, job[t].said)
             \/ reply = "answer" /\ Give(t, Result(verdict, "none", tries, <<>>))
             \/ /\ reply = "answer" /\ Len(said) = Len(Positions(t, g))
                /\ Give(t, Result("unavailable", "not_a_binary_verdict", tries, said))
             \/ /\ reply = "answer" /\ Kind(g) = "pairwise" /\ Len(said) # Len(Positions(t, g))
                /\ Continue(t, tries, said)
  BY JudgeReplies DEF g, n, first, more, said
<1> DEFINE try == [order |-> n, reply |-> reply]
           tries == Append(job[t].tries, try)
<1>9. CASE reply = "raises"
  <2>1. Give(t, Plainly("error", "grader_exception"))
    BY <1>8, <1>9
  <2>2. RowOk(t, g, Plainly("error", "grader_exception")) /\ Len(Plainly("error", "grader_exception").tries) = 0
    BY <1>2, <1>3, PlainRow
  <2> QED BY <1>1, <2>1, <2>2, GiveKeeps DEF g
<1>10. CASE reply # "raises"
  <2>1. try \in Try /\ try.order = n /\ try.reply = reply
    BY <1>4, <1>10 DEF Try
  <2>2. Grows(tries, job[t].tries, try)
    BY DEF Grows
  <2>3. \/ reply = "error" /\ Give(t, Result("error", "judge_transport_error", tries, <<>>))
        \/ reply = "malformed" /\ Give(t, Result("error", "invalid_judge_output", tries, <<>>))
        \/ reply = "malformed" /\ MayAskAgain(t) /\ Continue(t, tries, job[t].said)
        \/ reply = "answer" /\ Give(t, Result(verdict, "none", tries, <<>>))
        \/ /\ reply = "answer" /\ Len(said) = Len(Positions(t, g))
           /\ Give(t, Result("unavailable", "not_a_binary_verdict", tries, said))
        \/ /\ reply = "answer" /\ Kind(g) = "pairwise" /\ Len(said) # Len(Positions(t, g))
           /\ Continue(t, tries, said)
    BY <1>8, <1>10
  <2> HIDE DEF try, tries
  <2>4. /\ tries \in Seq(Try) /\ tries # <<>> /\ Last(tries).reply = reply /\ Paced(tries) /\ Len(tries) <= 4
        /\ (TriesOf(job[t].tries, n) = <<>> /\ reply = "malformed" => InTurn(tries, n))
        /\ (n = 1 => InTurn(tries, 2))
    BY <1>4, <2>1, <2>2, OneTryMore
  <2>5. ASSUME NEW v, NEW reason, NEW heard \in Seq({"win", "loss", "tie", "abstain"}), Give(t, Result(v, reason, tries, heard)),
               v \in {"pass", "fail", "abstain"} => reply = "answer",
               heard # <<>> => Len(heard) = Len(Positions(t, g)) /\ Replies(t, g, heard)
        PROVE  VerdictInv'
    <3>1. RowOk(t, g, Result(v, reason, tries, heard)) /\ Result(v, reason, tries, heard).tries = tries
      BY <1>2, <1>3, <2>4, <2>5, JudgeRow
    <3> QED BY <1>1, <1>5, <2>4, <2>5, <3>1, GiveKeeps DEF g
  <2>6. <<>> \in Seq({"win", "loss", "tie", "abstain"})
    OBVIOUS
  <2>7. CASE reply = "error" /\ Give(t, Result("error", "judge_transport_error", tries, <<>>))
    BY <2>5, <2>6, <2>7
  <2>8. CASE reply = "malformed" /\ Give(t, Result("error", "invalid_judge_output", tries, <<>>))
    BY <2>5, <2>6, <2>8
  <2>9. CASE reply = "answer" /\ Give(t, Result(verdict, "none", tries, <<>>))
    BY <2>5, <2>6, <2>9
  <2>10. CASE /\ reply = "answer" /\ Len(said) = Len(Positions(t, g))
              /\ Give(t, Result("unavailable", "not_a_binary_verdict", tries, said))
    BY <1>7, <2>5, <2>10
  <2>11. CASE reply = "malformed" /\ MayAskAgain(t) /\ Continue(t, tries, job[t].said)
    <3>1. InTurn(tries, Len(job[t].said) + 1)
      BY <1>4, <2>4, <2>11 DEF MayAskAgain, n
    <3>2. Len(job[t].said) <= 1
      BY <1>4
    <3> QED BY <1>1, <1>2, <1>4, <1>5, <2>4, <2>11, <3>1, <3>2, ContinueKeeps DEF g
  <2>12. CASE /\ reply = "answer" /\ Kind(g) = "pairwise" /\ Len(said) # Len(Positions(t, g))
              /\ Continue(t, tries, said)
    <3>1. Len(said) = 1 /\ Len(said) < Len(Positions(t, g)) /\ n = 1
      <4>1. n \in 1 .. 2 /\ n <= Len(Positions(t, g)) /\ Len(Positions(t, g)) \in 1 .. 2 /\ Len(said) = n
        BY <1>4, <1>6, <1>7
      <4>2. Len(said) # Len(Positions(t, g))
        BY <2>12
      <4> QED BY <4>1, <4>2, FirstOfTwo
    <3>2. InTurn(tries, Len(said) + 1) /\ Heard(t, g, said) /\ Len(said) <= 1
      BY <1>7, <2>4, <3>1 DEF Heard
    <3> QED BY <1>1, <1>2, <1>5, <1>7, <2>4, <2>12, <3>2, ContinueKeeps DEF g
  <2> QED BY <2>3, <2>7, <2>8, <2>9, <2>10, <2>11, <2>12
<1> QED BY <1>9, <1>10

LEMMA VerdictInvStep == ASSUME VerdictInv, [VerdictNext]_verdictVars PROVE VerdictInv'
<1>1. CASE UNCHANGED verdictVars
  <2>1. ASSUME NEW u \in Trials PROVE JobInv(u)'
    BY <1>1, OthersStay DEF verdictVars
  <2> QED BY <1>1, <2>1 DEF VerdictInv, verdictVars
<1>2. ASSUME NEW t \in Trials, Load(t) \/ Grade(t) \/ AskJudge(t) \/ Persist(t) \/ CrashGrading(t) PROVE VerdictInv'
  BY <1>2, LoadKeeps, GradeKeeps, AskKeeps, PersistKeeps, CrashKeeps
<1> QED BY <1>1, <1>2 DEF VerdictNext

LEMMA VerdictInvHolds == VerdictSpec => []VerdictInv
<1>1. VerdictInit([t \in Trials |-> DOMAIN Cases], Opinions) => VerdictInv
  BY VerdictInvInit
<1>2. VerdictInv /\ [VerdictNext]_verdictVars => VerdictInv'
  BY VerdictInvStep
<1> QED BY <1>1, <1>2, PTL DEF VerdictSpec

(* Evidence that was not captured changes no verdict: whatever snapshots were lost,    *)
(* a deterministic grade is the one the whole evidence gives, unavailable, or the      *)
(* error of a check that raises, and a trial passes only with a grade that passes or   *)
(* does not apply under every name of the pass rule.  (graders/base.py aggregate,      *)
(* graders/runner.py grade and trial_outcome; the memory checks of deterministic.py)   *)
THEOREM VerdictsRestOnEvidence == VerdictSpec => []VerdictsNeedEvidence
<1>1. VerdictInv => VerdictsNeedEvidence
  BY EvidenceFollows
<1> QED BY <1>1, VerdictInvHolds, PTL

(* The judge is asked again only once and only for a malformed reply, its position is  *)
(* undone in every verdict, and the attempts of concurrent jobs are within the limit   *)
(* but for the last grader of each.  (judge.py _ask_with_retry, grade_pairwise;        *)
(* grading.py _grade_all)                                                              *)
THEOREM JudgeStaysAccountable == VerdictSpec => []JudgeIsAccountedFor
<1>1. VerdictInv => JudgeIsAccountedFor
  BY AccountsFollow
<1> QED BY <1>1, VerdictInvHolds, PTL

(***************************************************************************)
(* LatestReview is the greatest of the reviews that are not superseded.    *)
(***************************************************************************)
LEMMA LatestIs ==
  ASSUME NEW C, IsFiniteSet(C), C \subseteq Nat \ {0}
  PROVE  LET latest == FoldSet(LAMBDA i, latest : IF i > latest THEN i ELSE latest, 0, C)
         IN  (C = {} => latest = 0) /\ (C # {} => latest \in C)
<1> DEFINE Body(of, T) == IF T = {} THEN 0
                          ELSE LET x == CHOOSE x \in T : TRUE IN IF x > of[T \ {x}] THEN x ELSE of[T \ {x}]
           Is(of) == of = [T \in SUBSET C |-> Body(of, T)]
           pick == [T \in SUBSET C |-> CHOOSE x \in T : TRUE]
           F == [p \in Nat \X C |-> IF p[2] > p[1] THEN p[2] ELSE p[1]]
           it == CHOOSE of : Is(of)
<1>1. \A T \in SUBSET C : T # {} => pick[T] \in T
  OBVIOUS
<1>2. F \in [Nat \X C -> Nat]
  OBVIOUS
<1>3. \E of : Is(of)
  <2>1. PICK of \in [SUBSET C -> Nat] : Folds(of, C, pick, 0, F)
    <3> HIDE DEF F, pick
    <3>1. 0 \in Nat
      OBVIOUS
    <3> QED BY <1>1, <1>2, <3>1, FoldExists
  <2>2. ASSUME NEW T \in SUBSET C
        PROVE  (IF T = {} THEN 0 ELSE F[<<of[T \ {pick[T]}], pick[T]>>]) = Body(of, T)
    <3>1. CASE T = {}
      BY <3>1
    <3>2. CASE T # {}
      <4>1. pick[T] \in C /\ T \ {pick[T]} \in SUBSET C /\ of[T \ {pick[T]}] \in Nat
        BY <1>1, <2>1, <3>2
      <4> QED BY <3>2, <4>1
    <3> QED BY <3>1, <3>2
  <2>3. of = [T \in SUBSET C |-> Body(of, T)]
    <3> HIDE DEF Body, F, pick
    <3> QED BY <2>1, <2>2 DEF Folds
  <2> HIDE DEF Body
  <2> QED BY <2>3
<1>4. Is(it)
  <2> HIDE DEF Is
  <2> QED BY <1>3
<1>5. FoldSet(LAMBDA i, latest : IF i > latest THEN i ELSE latest, 0, C) = it[C]
  BY DEF FoldSet, MapThenFoldSet
<1> HIDE DEF it
<1>6. \A T \in SUBSET C : it[T] = Body(it, T)
  <2> HIDE DEF Body
  <2> QED BY <1>4
<1> DEFINE G == {T \in SUBSET C : (T = {} => it[T] = 0) /\ (T # {} => it[T] \in T)}
<1>7. {} \in G
  BY <1>6
<1>8. ASSUME NEW T \in SUBSET C, T # {}, \A x \in T : T \ {x} \in G PROVE T \in G
  <2> DEFINE x == CHOOSE x \in T : TRUE
             R == T \ {x}
  <2>1. x \in T /\ x \in Nat \ {0} /\ R \in SUBSET C /\ R \subseteq T
    BY <1>8
  <2>2. it[T] = IF x > it[R] THEN x ELSE it[R]
    BY <1>6, <1>8
  <2>3. (R = {} => it[R] = 0) /\ (R # {} => it[R] \in R)
    BY <1>8, <2>1
  <2> HIDE DEF x, R
  <2>4. CASE R = {}
    <3>1. it[R] = 0 /\ x > 0
      BY <2>1, <2>3, <2>4
    <3> QED BY <2>1, <2>2, <3>1
  <2>5. CASE R # {}
    <3>1. it[R] \in T
      BY <2>1, <2>3, <2>5
    <3> QED BY <2>1, <2>2, <3>1
  <2> QED BY <1>8, <2>4, <2>5
<1>9. C \in G
  <2> HIDE DEF G
  <2>1. C \in SUBSET C
    OBVIOUS
  <2> QED BY <1>7, <1>8, <2>1, FiniteDescent
<1> QED BY <1>5, <1>9

(***************************************************************************)
(* Reviews.  A review supersedes an earlier one of its trial, and no two   *)
(* supersede the same, so the newest review of a trial is never superseded.*)
(***************************************************************************)
AReview == [trial : Reviewed, decision : Decisions, supersedes : Nat]

Supersession ==
  /\ reviews \in Seq(AReview)
  /\ \A i \in ReviewIds : reviews[i].supersedes # 0 =>
        /\ reviews[i].supersedes \in ReviewIds /\ reviews[i].supersedes < i
        /\ reviews[reviews[i].supersedes].trial = reviews[i].trial
  /\ \A i, j \in ReviewIds : i # j /\ reviews[i].supersedes # 0 => reviews[i].supersedes # reviews[j].supersedes

LEMMA CreateKeepsSupersession ==
  ASSUME Supersession, NEW t \in Reviewed, CreateReview(t)
  PROVE  /\ Supersession' /\ ReviewIds \subseteq ReviewIds' /\ \A i \in ReviewIds : reviews'[i] = reviews[i]
<1>1. PICK said \in Taken, k \in 0 .. Len(reviews) :
         /\ MaySupersede(t, k)
         /\ reviews' = Append(reviews, [trial |-> t, decision |-> said, supersedes |-> k])
  BY DEF CreateReview
<1> DEFINE n == Len(reviews) + 1
           new == [trial |-> t, decision |-> said, supersedes |-> k]
<1>2. new \in AReview /\ new.trial = t /\ new.supersedes = k
  <2>1. k \in Nat /\ said \in Decisions
    BY ReviewAssumption
  <2> QED BY <2>1 DEF AReview
<1>3. reviews \in Seq(AReview)
  BY DEF Supersession
<1> HIDE DEF new
<1>4. /\ reviews' \in Seq(AReview) /\ ReviewIds' = 1 .. n /\ ReviewIds = 1 .. Len(reviews) /\ Len(reviews) \in Nat
      /\ reviews'[n] = new /\ \A i \in ReviewIds : reviews'[i] = reviews[i]
  BY <1>1, <1>2, <1>3 DEF ReviewIds, new
<1>5. \A i \in ReviewIds' : i \in ReviewIds \/ i = n
  BY <1>4
<1>6. k = 0 \/ (k \in ReviewIds /\ reviews[k].trial = t /\ \A i \in ReviewIds : reviews[i].supersedes # k)
  BY <1>1 DEF MaySupersede, SupersededReviews
<1>7. ASSUME NEW i \in ReviewIds', reviews'[i].supersedes # 0
      PROVE  /\ reviews'[i].supersedes \in ReviewIds' /\ reviews'[i].supersedes < i
             /\ reviews'[reviews'[i].supersedes].trial = reviews'[i].trial
  <2>1. CASE i \in ReviewIds
    <3>1. /\ reviews[i].supersedes \in ReviewIds /\ reviews[i].supersedes < i
          /\ reviews[reviews[i].supersedes].trial = reviews[i].trial
      BY <1>4, <1>7, <2>1 DEF Supersession
    <3>2. reviews[i].supersedes \in ReviewIds'
      BY <1>4, <3>1
    <3> QED BY <1>4, <2>1, <3>1, <3>2
  <2>2. CASE i = n
    <3>1. k \in ReviewIds /\ reviews[k].trial = t /\ reviews'[i] = new
      BY <1>2, <1>4, <1>6, <1>7, <2>2
    <3>2. k < i /\ k \in ReviewIds'
      BY <1>4, <2>2, <3>1
    <3> QED BY <1>2, <1>4, <3>1, <3>2
  <2> QED BY <1>5, <2>1, <2>2
<1>8. ASSUME NEW i \in ReviewIds', NEW j \in ReviewIds', i # j, reviews'[i].supersedes # 0
      PROVE  reviews'[i].supersedes # reviews'[j].supersedes
  <2>1. CASE i \in ReviewIds /\ j \in ReviewIds
    BY <1>4, <1>8, <2>1 DEF Supersession
  <2>2. CASE i = n /\ j \in ReviewIds
    BY <1>2, <1>4, <1>6, <1>8, <2>2
  <2>3. CASE i \in ReviewIds /\ j = n
    BY <1>2, <1>4, <1>6, <1>8, <2>3
  <2> QED BY <1>5, <1>8, <2>1, <2>2, <2>3
<1>9. ReviewIds \subseteq ReviewIds'
  BY <1>4
<1> QED BY <1>4, <1>7, <1>8, <1>9 DEF Supersession

(* Whoever reviewed a trial is heard: the latest review is one of its reviews. *)
LEMMA LatestReviewIs ==
  ASSUME Supersession, NEW t
  PROVE  LET mine == {i \in ReviewIds : reviews[i].trial = t}
         IN  /\ mine # {} => LatestReview(t) \in CurrentReviews(t)
             /\ LatestReview(t) # 0 => LatestReview(t) \in CurrentReviews(t)
             /\ 0 \notin mine
<1> DEFINE mine == {i \in ReviewIds : reviews[i].trial = t}
           C == CurrentReviews(t)
<1>1. ReviewIds = 1 .. Len(reviews) /\ Len(reviews) \in Nat
  BY DEF Supersession, ReviewIds
<1>2. IsFiniteSet(ReviewIds) /\ C \subseteq ReviewIds /\ mine \subseteq ReviewIds /\ ReviewIds \subseteq Nat \ {0}
  <2>1. 1 \in Int /\ Len(reviews) \in Int
    BY <1>1
  <2>2. IsFiniteSet(1 .. Len(reviews))
    BY <2>1, FS_Interval
  <2> QED BY <1>1, <2>2 DEF CurrentReviews
<1>3. IsFiniteSet(C) /\ IsFiniteSet(mine)
  BY <1>2, FS_Subset
<1>4. (C = {} => LatestReview(t) = 0) /\ (C # {} => LatestReview(t) \in C)
  <2>1. C \subseteq Nat \ {0}
    BY <1>2
  <2> HIDE DEF C
  <2> QED BY <1>3, <2>1, LatestIs DEF LatestReview, C
<1>5. mine # {} => C # {}
  <2> SUFFICES ASSUME mine # {} PROVE C # {}
    OBVIOUS
  <2> DEFINE last == Max(mine)
  <2>1. last \in mine /\ \A i \in mine : i <= last
    <3> HIDE DEF mine
    <3>1. mine \subseteq Int
      BY <1>2
    <3> QED BY <1>3, <3>1, FiniteExtremes
  <2> HIDE DEF last
  <2>2. ASSUME NEW i \in ReviewIds, reviews[i].supersedes = last PROVE FALSE
    <3>1. last \in ReviewIds /\ last # 0 /\ reviews[last].trial = t
      BY <1>2, <2>1
    <3>2. reviews[i].supersedes < i /\ reviews[i].trial = t
      BY <2>2, <3>1 DEF Supersession
    <3>3. i \in mine
      BY <3>2
    <3>4. i <= last /\ last < i /\ i \in Nat /\ last \in Nat
      BY <1>2, <2>1, <2>2, <3>1, <3>2, <3>3
    <3> QED BY <3>4
  <2>3. last \in C
    BY <2>1, <2>2 DEF CurrentReviews, SupersededReviews
  <2> QED BY <2>3
<1>6. 0 \notin mine /\ 0 \notin C
  BY <1>2
<1> QED BY <1>4, <1>5, <1>6

(***************************************************************************)
(* Promotion.  The cases of a version have ids of their own, and those of  *)
(* the regression split go back to a review that is still there.           *)
(***************************************************************************)
ACase == [id : Range(SourceId) \cup Renamed, cluster : {ClusterOf[t] : t \in Reviewed}, split : {"test", "regression"},
          trial : Reviewed, review : Nat]

IdsOf(cases) == {c.id : c \in Range(cases)}
OwnIds(cases) == \A j, k \in DOMAIN cases : cases[j].id = cases[k].id => j = k
Backed(cases, rs) == \A k \in DOMAIN cases : cases[k].split = "regression" =>
                        /\ cases[k].review \in DOMAIN rs /\ rs[cases[k].review].decision \in Promotable
                        /\ rs[cases[k].review].trial = cases[k].trial
GoodCases(cases, rs) == cases \in Seq(ACase) /\ OwnIds(cases) /\ Backed(cases, rs)

LEMMA PlacedKeeps ==
  ASSUME Supersession, NEW cases, GoodCases(cases, reviews), NEW item \in Items
  PROVE  GoodCases(Placed(cases, item), reviews) /\ IdsOf(cases) \subseteq IdsOf(Placed(cases, item))
<1> DEFINE case == [id |-> item.id, cluster |-> ClusterOf[item.trial], split |-> "regression",
                    trial |-> item.trial, review |-> item.review]
           swapped == [k \in DOMAIN cases |-> IF cases[k].id = item.id THEN case ELSE cases[k]]
<1>1. /\ item.trial \in Reviewed /\ item.review \in ReviewIds /\ item.id \in Range(SourceId) \cup Renamed
      /\ reviews[item.review].trial = item.trial /\ reviews[item.review].decision \in Promotable
  BY DEF Items, MayPromote
<1>2. ReviewIds \subseteq Nat
  BY DEF ReviewIds, Supersession
<1>3. /\ case \in ACase /\ case.id = item.id /\ case.review = item.review /\ case.trial = item.trial
      /\ case.split = "regression"
  BY <1>1, <1>2 DEF ACase
<1>4. cases \in Seq(ACase) /\ DOMAIN cases = 1 .. Len(cases) /\ Len(cases) \in Nat
  BY DEF GoodCases
<1>5. CASE \E k \in DOMAIN cases : cases[k].id = item.id
  <2>1. Placed(cases, item) = swapped
    BY <1>5 DEF Placed
  <2> HIDE DEF case
  <2>2. /\ swapped \in Seq(ACase) /\ DOMAIN swapped = DOMAIN cases
        /\ \A k \in DOMAIN cases : swapped[k] = IF cases[k].id = item.id THEN case ELSE cases[k]
    BY <1>3, <1>4
  <2> HIDE DEF swapped
  <2>3. \A k \in DOMAIN cases : swapped[k].id = cases[k].id
    BY <1>3, <2>2
  <2>4. OwnIds(swapped)
    BY <2>2, <2>3 DEF GoodCases, OwnIds
  <2>5. Backed(swapped, reviews)
    BY <1>1, <1>3, <2>2 DEF GoodCases, Backed, ReviewIds
  <2>6. IdsOf(cases) \subseteq IdsOf(swapped)
    BY <2>2, <2>3 DEF IdsOf, Range
  <2> QED BY <2>1, <2>2, <2>4, <2>5, <2>6 DEF GoodCases
<1>6. CASE ~\E k \in DOMAIN cases : cases[k].id = item.id
  <2> DEFINE more == Append(cases, case)
             n == Len(cases) + 1
  <2>1. Placed(cases, item) = more
    BY <1>6 DEF Placed
  <2> HIDE DEF case
  <2>2. /\ more \in Seq(ACase) /\ DOMAIN more = 1 .. n /\ more[n] = case
        /\ \A k \in DOMAIN cases : more[k] = cases[k]
    BY <1>3, <1>4
  <2> HIDE DEF more
  <2>3. DOMAIN cases \subseteq DOMAIN more /\ \A k \in DOMAIN more : k \in DOMAIN cases \/ k = n
    BY <1>4, <2>2
  <2> HIDE DEF n
  <2>4. OwnIds(more)
    <3> SUFFICES ASSUME NEW j \in DOMAIN more, NEW k \in DOMAIN more, more[j].id = more[k].id PROVE j = k
      BY DEF OwnIds
    <3> QED BY <1>3, <1>6, <2>2, <2>3 DEF GoodCases, OwnIds
  <2>5. Backed(more, reviews)
    BY <1>1, <1>3, <2>2, <2>3 DEF GoodCases, Backed, ReviewIds
  <2>6. IdsOf(cases) \subseteq IdsOf(more)
    BY <2>2, <2>3 DEF IdsOf, Range
  <2> QED BY <2>1, <2>2, <2>4, <2>5, <2>6 DEF GoodCases
<1> QED BY <1>5, <1>6

LEMMA PlacedAll ==
  ASSUME Supersession, NEW start, GoodCases(start, reviews), NEW items \in Seq(Items)
  PROVE  GoodCases(FoldLeft(Placed, start, items), reviews) /\ IdsOf(start) \subseteq IdsOf(FoldLeft(Placed, start, items))
<1> DEFINE D == DOMAIN items
           V == {cases \in Seq(ACase) : GoodCases(cases, reviews) /\ IdsOf(start) \subseteq IdsOf(cases)}
           Body(of, T) == IF T = {} THEN start ELSE LET x == Max(T) IN Placed(of[T \ {x}], items[x])
           Is(of) == of = [T \in SUBSET D |-> Body(of, T)]
           pick == [T \in SUBSET D |-> Max(T)]
           F == [p \in V \X D |-> Placed(p[1], items[p[2]])]
           it == CHOOSE of : Is(of)
<1>1. D = 1 .. Len(items) /\ Len(items) \in Nat /\ \A x \in D : items[x] \in Items
  OBVIOUS
<1>2. IsFiniteSet(D) /\ D \subseteq Int
  <2>1. 1 \in Int /\ Len(items) \in Int
    BY <1>1
  <2>2. IsFiniteSet(1 .. Len(items))
    BY <2>1, FS_Interval
  <2>3. 1 .. Len(items) \subseteq Int
    OBVIOUS
  <2> QED BY <1>1, <2>2, <2>3
<1>3. \A T \in SUBSET D : T # {} => Max(T) \in T
  <2> SUFFICES ASSUME NEW T \in SUBSET D, T # {} PROVE Max(T) \in T
    OBVIOUS
  <2>1. IsFiniteSet(T) /\ T \subseteq Int
    BY <1>2, FS_Subset
  <2> QED BY <2>1, FiniteExtremes
<1>4. start \in V
  BY DEF GoodCases
<1>5. ASSUME NEW cases \in V, NEW x \in D PROVE Placed(cases, items[x]) \in V
  <2>1. items[x] \in Items
    BY <1>1
  <2>2. GoodCases(Placed(cases, items[x]), reviews) /\ IdsOf(cases) \subseteq IdsOf(Placed(cases, items[x]))
    BY <2>1, PlacedKeeps
  <2> QED BY <2>2 DEF GoodCases
<1>6. F \in [V \X D -> V]
  <2> HIDE DEF V, D
  <2> QED BY <1>5
<1>7. \E of : Is(of)
  <2>1. \A T \in SUBSET D : T # {} => pick[T] \in T
    BY <1>3
  <2>2. PICK of \in [SUBSET D -> V] : Folds(of, D, pick, start, F)
    <3> HIDE DEF D, F, pick, V
    <3> QED BY <1>2, <1>4, <1>6, <2>1, FoldExists
  <2>3. ASSUME NEW T \in SUBSET D
        PROVE  (IF T = {} THEN start ELSE F[<<of[T \ {pick[T]}], pick[T]>>]) = Body(of, T)
    <3>1. CASE T = {}
      BY <3>1
    <3>2. CASE T # {}
      <4>1. pick[T] = Max(T)
        OBVIOUS
      <4>2. Max(T) \in D
        BY <1>3, <3>2
      <4> HIDE DEF pick, D, V
      <4>3. of[T \ {Max(T)}] \in V
        BY <2>2
      <4>4. F[<<of[T \ {Max(T)}], Max(T)>>] = Placed(of[T \ {Max(T)}], items[Max(T)])
        BY <4>2, <4>3
      <4> QED BY <3>2, <4>1, <4>4
    <3> QED BY <3>1, <3>2
  <2>4. of = [T \in SUBSET D |-> Body(of, T)]
    <3> HIDE DEF Body, F, pick, D, V
    <3> QED BY <2>2, <2>3 DEF Folds
  <2> HIDE DEF Body
  <2> QED BY <2>4
<1>8. Is(it)
  <2> HIDE DEF Is
  <2> QED BY <1>7
<1>9. FoldLeft(Placed, start, items) = it[D]
  BY DEF FoldLeft, MapThenFoldSet
<1> HIDE DEF it
<1>10. \A T \in SUBSET D : it[T] = Body(it, T)
  <2> HIDE DEF Body, D
  <2> QED BY <1>8
<1> DEFINE G == {T \in SUBSET D : it[T] \in V}
<1>11. {} \in G
  <2> HIDE DEF V
  <2> QED BY <1>4, <1>10
<1>12. ASSUME NEW T \in SUBSET D, T # {}, \A x \in T : T \ {x} \in G PROVE T \in G
  <2> HIDE DEF V
  <2>1. Max(T) \in T
    BY <1>3, <1>12
  <2>2. it[T] = Placed(it[T \ {Max(T)}], items[Max(T)]) /\ it[T \ {Max(T)}] \in V
    BY <1>10, <1>12, <2>1
  <2> HIDE DEF D
  <2>3. Max(T) \in D
    BY <2>1
  <2> QED BY <1>5, <2>2, <2>3
<1>13. D \in G
  <2>1. D \in SUBSET D
    OBVIOUS
  <2> HIDE DEF G, D
  <2> QED BY <1>2, <1>11, <1>12, <2>1, FiniteDescent
<1> QED BY <1>9, <1>13

(***************************************************************************)
(* Dataset versions, as a table, with the reviews rs.                      *)
(***************************************************************************)
ADataset == [parent : Nat, logical : Nat, version : Nat, name : {"source", "regression"}, cases : Seq(ACase)]
VersionsOf(table, logical) == {d \in DOMAIN table : table[d].logical = logical}

RowFits(table, rs, row, last) ==
  /\ GoodCases(row.cases, rs) /\ NoLeak(row.cases)
  /\ row.logical <= last /\ row.version <= Cardinality(VersionsOf(table, row.logical))
  /\ row.parent # 0 => row.parent \in DOMAIN table /\ IdsOf(table[row.parent].cases) \subseteq IdsOf(row.cases)

Differ(row, other) == row.logical = other.logical =>
                         row.name = other.name /\ row.version # other.version /\ row.cases # other.cases

VersionsFit(table, rs) ==
  /\ table \in Seq(ADataset)
  /\ \A d \in DOMAIN table : RowFits(table, rs, table[d], d)
  /\ \A d, e \in DOMAIN table : d # e => Differ(table[d], table[e])

ReviewInv == Supersession /\ VersionsFit(datasets, reviews)

(* A new review leaves what the versions say of earlier ones as it is. *)
LEMMA CreateKeepsVersions ==
  ASSUME ReviewInv, NEW t \in Reviewed, CreateReview(t)
  PROVE  ReviewInv'
<1>1. Supersession' /\ ReviewIds \subseteq ReviewIds' /\ \A i \in ReviewIds : reviews'[i] = reviews[i]
  BY CreateKeepsSupersession DEF ReviewInv
<1>2. datasets' = datasets
  BY DEF CreateReview
<1>3. \A cases : Backed(cases, reviews) => Backed(cases, reviews')
  BY <1>1 DEF Backed, ReviewIds
<1>4. VersionsFit(datasets, reviews')
  BY <1>3 DEF ReviewInv, VersionsFit, RowFits, GoodCases
<1> QED BY <1>1, <1>2, <1>4 DEF ReviewInv

LEMMA VersionsAreFinite ==
  ASSUME NEW table \in Seq(ADataset), NEW logical
  PROVE  IsFiniteSet(VersionsOf(table, logical)) /\ Cardinality(VersionsOf(table, logical)) \in Nat
<1>1. DOMAIN table = 1 .. Len(table) /\ 1 \in Int /\ Len(table) \in Int
  OBVIOUS
<1>2. IsFiniteSet(DOMAIN table)
  BY <1>1, FS_Interval
<1>3. VersionsOf(table, logical) \subseteq DOMAIN table
  BY DEF VersionsOf
<1> QED BY <1>2, <1>3, FS_Subset, FS_CardinalityType

(* A version that is new to its dataset, or the first of one. *)
LEMMA VersionAdded ==
  ASSUME NEW table, NEW rs, VersionsFit(table, rs), NEW new \in ADataset,
         GoodCases(new.cases, rs), NoLeak(new.cases), new.version = 1 + Cardinality(VersionsOf(table, new.logical)),
         \A d \in VersionsOf(table, new.logical) : table[d].name = new.name /\ table[d].cases # new.cases,
         new.logical <= Len(table) + 1,
         new.parent # 0 => new.parent \in DOMAIN table /\ IdsOf(table[new.parent].cases) \subseteq IdsOf(new.cases)
  PROVE  VersionsFit(Append(table, new), rs)
<1> DEFINE more == Append(table, new)
           n == Len(table) + 1
           mine == VersionsOf(table, new.logical)
<1>1. table \in Seq(ADataset)
  BY DEF VersionsFit
<1>2. /\ more \in Seq(ADataset) /\ DOMAIN more = 1 .. n /\ DOMAIN table = 1 .. Len(table) /\ Len(table) \in Nat
      /\ more[n] = new /\ \A d \in DOMAIN table : more[d] = table[d]
  BY <1>1
<1> HIDE DEF more
<1>3. DOMAIN table \subseteq DOMAIN more /\ n \in DOMAIN more /\ n \notin DOMAIN table
      /\ \A d \in DOMAIN more : d \in DOMAIN table \/ d = n
  BY <1>2
<1>4. new.logical <= n
  OBVIOUS
<1> HIDE DEF n
<1>5. \A k : VersionsOf(more, k) = IF k = new.logical THEN VersionsOf(table, k) \cup {n} ELSE VersionsOf(table, k)
  BY <1>2, <1>3 DEF VersionsOf
<1>6. IsFiniteSet(mine) /\ Cardinality(mine) \in Nat /\ n \notin mine
  BY <1>1, <1>3, VersionsAreFinite DEF VersionsOf
<1>7. Cardinality(mine \cup {n}) = Cardinality(mine) + 1
  <2> HIDE DEF mine
  <2> QED BY <1>6, FS_AddElement
<1>8. \A d \in DOMAIN table : table[d].version \in Nat /\ RowFits(table, rs, table[d], d)
  <2> TAKE d \in DOMAIN table
  <2>1. table[d] \in ADataset
    BY <1>1
  <2>2. table[d].version \in Nat
    BY <2>1 DEF ADataset
  <2>3. RowFits(table, rs, table[d], d)
    BY DEF VersionsFit
  <2> QED BY <2>2, <2>3
<1>9. \A d \in mine : d \in DOMAIN table /\ table[d].version <= Cardinality(mine)
  BY <1>8 DEF VersionsOf, RowFits
<1>10. ASSUME NEW d \in DOMAIN table PROVE RowFits(more, rs, table[d], d)
  <2>1. RowFits(table, rs, table[d], d)
    BY <1>8
  <2>2. table[d].version <= Cardinality(VersionsOf(more, table[d].logical))
    <3>1. CASE table[d].logical = new.logical
      <4>1. table[d].version <= Cardinality(mine) /\ table[d].version \in Nat
        BY <1>8, <2>1, <3>1 DEF RowFits
      <4>2. VersionsOf(more, table[d].logical) = mine \cup {n}
        BY <1>5, <3>1
      <4> HIDE DEF mine
      <4> QED BY <1>6, <1>7, <4>1, <4>2
    <3>2. CASE table[d].logical # new.logical
      BY <1>5, <2>1, <3>2 DEF RowFits
    <3> QED BY <3>1, <3>2
  <2>3. table[d].parent # 0 => table[d].parent \in DOMAIN more
                               /\ IdsOf(more[table[d].parent].cases) \subseteq IdsOf(table[d].cases)
    BY <1>2, <1>3, <2>1 DEF RowFits
  <2> QED BY <2>1, <2>2, <2>3 DEF RowFits
<1>11. RowFits(more, rs, new, n)
  <2>1. new.version <= Cardinality(VersionsOf(more, new.logical))
    <3>1. VersionsOf(more, new.logical) = mine \cup {n}
      BY <1>5
    <3> HIDE DEF mine
    <3>2. new.version = 1 + Cardinality(mine)
      BY DEF mine
    <3> QED BY <1>6, <1>7, <3>1, <3>2
  <2>2. new.parent # 0 => new.parent \in DOMAIN more /\ IdsOf(more[new.parent].cases) \subseteq IdsOf(new.cases)
    BY <1>2, <1>3
  <2> QED BY <1>4, <2>1, <2>2 DEF RowFits
<1>12. ASSUME NEW d \in DOMAIN table PROVE Differ(table[d], new) /\ Differ(new, table[d])
  <2> SUFFICES ASSUME table[d].logical = new.logical
               PROVE  table[d].name = new.name /\ table[d].version # new.version /\ table[d].cases # new.cases
    BY DEF Differ
  <2>1. d \in mine
    BY DEF VersionsOf
  <2>2. table[d].version <= Cardinality(mine) /\ table[d].version \in Nat
    BY <1>8, <1>9, <2>1
  <2>3. table[d].version # new.version
    <3>1. new.version = 1 + Cardinality(mine)
      OBVIOUS
    <3> HIDE DEF mine
    <3> QED BY <1>6, <2>2, <3>1
  <2> QED BY <2>1, <2>3
<1>13. ASSUME NEW d \in DOMAIN more, NEW e \in DOMAIN more, d # e PROVE Differ(more[d], more[e])
  <2>1. CASE d \in DOMAIN table /\ e \in DOMAIN table
    BY <1>2, <1>13, <2>1 DEF VersionsFit
  <2>2. CASE d \in DOMAIN table /\ e = n
    BY <1>2, <1>12, <2>2
  <2>3. CASE d = n /\ e \in DOMAIN table
    BY <1>2, <1>12, <2>3
  <2> QED BY <1>3, <1>13, <2>1, <2>2, <2>3
<1>14. \A d \in DOMAIN more : RowFits(more, rs, more[d], d)
  BY <1>2, <1>3, <1>10, <1>11
<1>15. VersionsFit(more, rs)
  BY <1>2, <1>13, <1>14 DEF VersionsFit
<1> QED BY <1>15 DEF more

(* What create_dataset_version stores keeps the versions of every dataset apart. *)
LEMMA StoredKeeps ==
  ASSUME ReviewInv, NEW logical \in Nat, NEW name \in {"source", "regression"}, NEW cases, NEW parent \in Nat,
         GoodCases(cases, reviews), NoLeak(cases), logical <= Len(datasets) + 1,
         \A d \in VersionsOf(datasets, logical) : parent # 0 /\ datasets[d].name = name,
         parent # 0 => parent \in DOMAIN datasets /\ IdsOf(datasets[parent].cases) \subseteq IdsOf(cases)
  PROVE  VersionsFit(Stored(logical, name, cases, parent), reviews)
<1> DEFINE same == {d \in DOMAIN datasets : /\ datasets[d].name = name /\ datasets[d].cases = cases
                                            /\ parent # 0 => datasets[d].logical = logical}
           version == 1 + Cardinality({d \in DOMAIN datasets : datasets[d].logical = logical})
           new == [parent |-> parent, logical |-> logical, version |-> version, name |-> name, cases |-> cases]
<1>1. VersionsFit(datasets, reviews)
  BY DEF ReviewInv
<1>2. CASE same # {}
  <2>1. Stored(logical, name, cases, parent) = datasets
    BY <1>2 DEF Stored
  <2> QED BY <1>1, <2>1
<1>3. CASE same = {}
  <2>1. Stored(logical, name, cases, parent) = Append(datasets, new)
    BY <1>3 DEF Stored
  <2>2. version = 1 + Cardinality(VersionsOf(datasets, logical))
    BY DEF VersionsOf
  <2>3. version \in Nat
    <3>1. Cardinality(VersionsOf(datasets, logical)) \in Nat
      BY <1>1, VersionsAreFinite DEF VersionsFit
    <3> HIDE DEF version
    <3> QED BY <2>2, <3>1
  <2>4. \A d \in VersionsOf(datasets, logical) : datasets[d].name = name /\ datasets[d].cases # cases
    BY <1>3 DEF VersionsOf
  <2> HIDE DEF version
  <2>5. new \in ADataset /\ new.logical = logical /\ new.name = name /\ new.cases = cases /\ new.parent = parent
        /\ new.version = version
    BY <2>3 DEF ADataset, GoodCases
  <2> HIDE DEF new
  <2>6. VersionsFit(Append(datasets, new), reviews)
    BY <1>1, <2>2, <2>4, <2>5, VersionAdded
  <2> QED BY <2>1, <2>6
<1> QED BY <1>2, <1>3

LEMMA PromoteKeeps ==
  ASSUME ReviewInv, NEW target \in 0 .. Len(datasets), NEW items \in Seq(Items), Promote(target, items)
  PROVE  ReviewInv'
<1> DEFINE start == IF target = 0 THEN <<>> ELSE datasets[target].cases
           cases == FoldLeft(Placed, start, items)
           row == datasets[target]
<1>1. /\ NoLeak(cases) /\ reviews' = reviews
      /\ datasets' = IF target = 0 THEN Stored(Len(datasets) + 1, "regression", cases, 0)
                     ELSE Stored(row.logical, row.name, cases, target)
  BY DEF Promote
<1>2. Supersession /\ datasets \in Seq(ADataset) /\ Len(datasets) \in Nat /\ DOMAIN datasets = 1 .. Len(datasets)
  BY DEF ReviewInv, VersionsFit
<1>3. \A d \in DOMAIN datasets : /\ datasets[d].logical \in Nat /\ datasets[d].logical <= d
                                 /\ datasets[d].name \in {"source", "regression"} /\ GoodCases(datasets[d].cases, reviews)
  <2> TAKE d \in DOMAIN datasets
  <2>1. datasets[d] \in ADataset /\ RowFits(datasets, reviews, datasets[d], d)
    BY <1>2 DEF ReviewInv, VersionsFit
  <2> QED BY <2>1 DEF ADataset, RowFits
<1>4. GoodCases(start, reviews)
  <2>1. CASE target = 0
    <3>1. <<>> \in Seq(ACase) /\ DOMAIN <<>> = {}
      BY NoElements
    <3> QED BY <2>1, <3>1 DEF GoodCases, OwnIds, Backed
  <2>2. CASE target # 0
    <3>1. target \in DOMAIN datasets
      BY <1>2, <2>2
    <3> QED BY <1>3, <2>2, <3>1
  <2> QED BY <2>1, <2>2
<1>5. GoodCases(cases, reviews) /\ IdsOf(start) \subseteq IdsOf(cases)
  <2> HIDE DEF start
  <2> QED BY <1>2, <1>4, PlacedAll
<1>6. CASE target = 0
  <2> HIDE DEF cases
  <2>1. \A d \in DOMAIN datasets : datasets[d].logical # Len(datasets) + 1
    <3> TAKE d \in DOMAIN datasets
    <3>1. datasets[d].logical \in Nat /\ datasets[d].logical <= d /\ d <= Len(datasets) /\ d \in Nat
      BY <1>2, <1>3
    <3> DEFINE g == datasets[d].logical
               l == Len(datasets)
    <3>2. g \in Nat /\ g <= d /\ d <= l /\ d \in Nat /\ l \in Nat
      BY <1>2, <3>1
    <3> HIDE DEF g, l
    <3>3. g # l + 1
      BY <3>2
    <3> QED BY <3>3 DEF g, l
  <2>2. VersionsOf(datasets, Len(datasets) + 1) = {}
    BY <2>1 DEF VersionsOf
  <2>3. Len(datasets) + 1 \in Nat /\ Len(datasets) + 1 <= Len(datasets) + 1
    BY <1>2
  <2>4. VersionsFit(Stored(Len(datasets) + 1, "regression", cases, 0), reviews)
    BY <1>1, <1>5, <2>2, <2>3, StoredKeeps
  <2> QED BY <1>1, <1>2, <1>6, <2>4 DEF ReviewInv, Supersession, ReviewIds
<1>7. CASE target # 0
  <2>1. target \in DOMAIN datasets /\ target \in Nat
    BY <1>2, <1>7
  <2>2. row.logical \in Nat /\ row.name \in {"source", "regression"} /\ row.logical <= Len(datasets) + 1
    <3>1. row.logical \in Nat /\ row.logical <= target /\ row.name \in {"source", "regression"}
      BY <1>3, <2>1
    <3>2. target <= Len(datasets)
      OBVIOUS
    <3> QED BY <1>2, <2>1, <3>1, <3>2
  <2>3. \A d \in VersionsOf(datasets, row.logical) : datasets[d].name = row.name
    <3> TAKE d \in VersionsOf(datasets, row.logical)
    <3>1. d \in DOMAIN datasets /\ datasets[d].logical = row.logical
      BY DEF VersionsOf
    <3>2. d # target => Differ(datasets[d], row)
      BY <2>1, <3>1 DEF ReviewInv, VersionsFit
    <3> QED BY <3>1, <3>2 DEF Differ
  <2>4. IdsOf(row.cases) \subseteq IdsOf(cases)
    BY <1>5, <1>7
  <2> HIDE DEF cases
  <2>5. VersionsFit(Stored(row.logical, row.name, cases, target), reviews)
    BY <1>1, <1>5, <1>7, <2>1, <2>2, <2>3, <2>4, StoredKeeps
  <2> QED BY <1>1, <1>2, <1>7, <2>5 DEF ReviewInv, Supersession, ReviewIds
<1> QED BY <1>6, <1>7

LEMMA ReviewStep == ReviewInv /\ [ReviewNext]_reviewVars => ReviewInv'
<1> SUFFICES ASSUME ReviewInv, [ReviewNext]_reviewVars PROVE ReviewInv'
  OBVIOUS
<1>1. ASSUME NEW t \in Reviewed, CreateReview(t) PROVE ReviewInv'
  BY <1>1, CreateKeepsVersions
<1>2. ASSUME NEW target \in 0 .. Len(datasets), NEW n \in 1 .. 2, NEW items \in [1 .. n -> Items], Promote(target, items)
      PROVE  ReviewInv'
  <2>1. items \in Seq(Items)
    <3> HIDE DEF Items
    <3> QED OBVIOUS
  <2> QED BY <1>2, <2>1, PromoteKeeps
<1>3. CASE UNCHANGED reviewVars
  BY <1>3 DEF reviewVars, ReviewInv, Supersession, ReviewIds
<1> QED BY <1>1, <1>2, <1>3 DEF ReviewNext

LEMMA ReviewStart == ReviewInit => ReviewInv
<1> SUFFICES ASSUME ReviewInit PROVE ReviewInv
  OBVIOUS
<1> DEFINE ids == Range(SourceId)
           S == {SourceCase(id) : id \in ids}
           n == Cardinality(S)
           cases == SetToSeq(S)
           row == [parent |-> 0, logical |-> 1, version |-> 1, name |-> "source", cases |-> cases]
<1>1. reviews = <<>> /\ datasets = <<row>>
  BY DEF ReviewInit
<1>2. Supersession
  <2>1. <<>> \in Seq(AReview) /\ DOMAIN <<>> = {}
    BY NoElements
  <2> QED BY <1>1, <2>1 DEF Supersession, ReviewIds
<1>3. IsFiniteSet(S) /\ n \in Nat
  <2> DEFINE f == [id \in ids |-> SourceCase(id)]
  <2>1. IsFiniteSet(ids)
    <3>1. ids = {SourceId[t] : t \in Reviewed}
      BY ReviewAssumption DEF Range
    <3> HIDE DEF ids
    <3> QED BY <3>1, ReviewAssumption, FiniteImage
  <2>2. IsFiniteSet({f[id] : id \in ids})
    <3> HIDE DEF ids, f
    <3> QED BY <2>1, FiniteImage
  <2>3. S = {f[id] : id \in ids}
    OBVIOUS
  <2>4. IsFiniteSet(S)
    BY <2>2, <2>3
  <2> HIDE DEF S
  <2> QED BY <2>4, FS_CardinalityType
<1>4. \A id \in ids : /\ SourceCase(id) \in ACase /\ SourceCase(id).id = id /\ SourceCase(id).split = "test"
  <2> TAKE id \in ids
  <2> DEFINE t == CHOOSE t \in Reviewed : SourceId[t] = id
  <2>1. \E u \in Reviewed : SourceId[u] = id
    BY ReviewAssumption DEF Range
  <2>2. t \in Reviewed
    BY <2>1
  <2>3. SourceCase(id) = [id |-> id, cluster |-> ClusterOf[t], split |-> "test", trial |-> t, review |-> 0]
    BY DEF SourceCase
  <2> HIDE DEF t
  <2>4. ClusterOf[t] \in {ClusterOf[u] : u \in Reviewed} /\ 0 \in Nat
    BY <2>2
  <2> QED BY <2>2, <2>3, <2>4 DEF ACase
<1>5. cases \in [1 .. n -> S] /\ IsInjective(cases)
  <2> HIDE DEF S
  <2>1. ExistsBijection(1 .. n, S)
    BY <1>3, FS_CardinalityType
  <2>2. \E f \in [1 .. n -> S] : IsInjective(f)
    BY <2>1 DEF ExistsBijection, Bijection, Injection
  <2> QED BY <2>2 DEF SetToSeq
<1>6. \A c \in S : c \in ACase /\ c.split = "test" /\ c = SourceCase(c.id)
  BY <1>4
<1> HIDE DEF S, n, cases
<1>7. cases \in Seq(ACase) /\ DOMAIN cases = 1 .. n /\ \A k \in DOMAIN cases : cases[k] \in S
  BY <1>3, <1>5, <1>6
<1>8. GoodCases(cases, reviews)
  <2>1. OwnIds(cases)
    <3> SUFFICES ASSUME NEW j \in DOMAIN cases, NEW k \in DOMAIN cases, cases[j].id = cases[k].id PROVE j = k
      BY DEF OwnIds
    <3>1. cases[j] = cases[k]
      BY <1>6, <1>7
    <3> QED BY <1>5, <3>1 DEF IsInjective
  <2>2. Backed(cases, reviews)
    BY <1>6, <1>7 DEF Backed
  <2> QED BY <1>7, <2>1, <2>2 DEF GoodCases
<1>9. NoLeak(cases)
  BY <1>6, <1>7 DEF NoLeak
<1>10. row \in ADataset
  BY <1>7 DEF ADataset
<1>11. row.cases = cases /\ row.logical = 1 /\ row.version = 1 /\ row.parent = 0
  OBVIOUS
<1> HIDE DEF row
<1>12. datasets \in Seq(ADataset) /\ DOMAIN datasets = {1} /\ datasets[1] = row
  BY <1>1, <1>10
<1>13. VersionsOf(datasets, 1) = {1}
  BY <1>11, <1>12 DEF VersionsOf
<1>14. RowFits(datasets, reviews, row, 1)
  <2>1. Cardinality({1}) = 1
    BY FS_Singleton
  <2> QED BY <1>8, <1>9, <1>11, <1>13, <2>1 DEF RowFits
<1>15. VersionsFit(datasets, reviews)
  BY <1>12, <1>14 DEF VersionsFit
<1> QED BY <1>2, <1>15 DEF ReviewInv

(* As many ids as cases, when every case has its own. *)
LEMMA OneIdEach ==
  ASSUME NEW cases \in Seq(ACase), OwnIds(cases)
  PROVE  Cardinality({c.id : c \in Range(cases)}) = Len(cases)
<1> DEFINE T == {c.id : c \in Range(cases)}
           D == DOMAIN cases
           f == [k \in D |-> cases[k].id]
<1>1. D = 1 .. Len(cases) /\ Len(cases) \in Nat
  OBVIOUS
<1>2. f \in Bijection(D, T)
  <2>1. f \in [D -> T] /\ \A t \in T : \E k \in D : f[k] = t
    BY DEF Range
  <2>2. IsInjective(f)
    BY DEF OwnIds, IsInjective
  <2> HIDE DEF f, T
  <2> QED BY <2>1, <2>2 DEF Bijection, Injection, Surjection
<1>3. ExistsBijection(1 .. Len(cases), T)
  <2> HIDE DEF f, T
  <2> QED BY <1>1, <1>2 DEF ExistsBijection
<1> HIDE DEF T
<1>4. Cardinality(T) = Len(cases)
  BY <1>1, <1>3, FS_CountingElements
<1> QED BY <1>4 DEF T

LEMMA ReviewSafe == ReviewInv => ReviewsAreTraceable
<1> SUFFICES ASSUME ReviewInv PROVE ReviewsAreTraceable
  OBVIOUS
<1>1. Supersession /\ VersionsFit(datasets, reviews)
  BY DEF ReviewInv
<1>2. \A i, j \in ReviewIds : i # j /\ reviews[i].supersedes # 0 => reviews[i].supersedes # reviews[j].supersedes
  BY <1>1 DEF Supersession
<1>3. ASSUME NEW t \in Reviewed
      PROVE  LET mine == {i \in ReviewIds : reviews[i].trial = t} IN
             /\ mine # {} <=> LatestReview(t) \in mine
             /\ \A machine \in {"pass", "fail", "unresolved"} : Adjudicated(t, machine) # machine =>
                    \E i \in CurrentReviews(t) : Human(reviews[i].decision) = Adjudicated(t, machine)
  <2> DEFINE mine == {i \in ReviewIds : reviews[i].trial = t}
             latest == LatestReview(t)
  <2>1. /\ mine # {} => latest \in CurrentReviews(t)
        /\ latest # 0 => latest \in CurrentReviews(t)
    BY <1>1, LatestReviewIs
  <2>2. CurrentReviews(t) \subseteq mine
    BY DEF CurrentReviews
  <2> HIDE DEF latest
  <2>3. mine # {} <=> latest \in mine
    BY <2>1, <2>2
  <2>4. ASSUME NEW machine \in {"pass", "fail", "unresolved"}, Adjudicated(t, machine) # machine
        PROVE  \E i \in CurrentReviews(t) : Human(reviews[i].decision) = Adjudicated(t, machine)
    <3> DEFINE human == Human(reviews[latest].decision)
    <3>1. latest # 0 /\ Adjudicated(t, machine) = human
      BY <2>4 DEF Adjudicated, latest
    <3> QED BY <2>1, <3>1
  <2> QED BY <2>3, <2>4 DEF latest
<1>4. ASSUME NEW d \in DOMAIN datasets
      PROVE  LET row == datasets[d] IN
             /\ \A k \in DOMAIN row.cases : row.cases[k].split = "regression" =>
                    /\ reviews[row.cases[k].review].decision \in Promotable
                    /\ reviews[row.cases[k].review].trial = row.cases[k].trial
             /\ row.parent # 0 =>
                    {c.id : c \in Range(datasets[row.parent].cases)} \subseteq {c.id : c \in Range(row.cases)}
             /\ Cardinality({c.id : c \in Range(row.cases)}) = Len(row.cases) /\ NoLeak(row.cases)
             /\ \A e \in DOMAIN datasets : e # d /\ datasets[e].logical = row.logical =>
                    datasets[e].version # row.version /\ datasets[e].cases # row.cases
  <2> DEFINE row == datasets[d]
  <2>1. RowFits(datasets, reviews, row, d)
    BY <1>1 DEF VersionsFit
  <2>2. GoodCases(row.cases, reviews) /\ NoLeak(row.cases)
    BY <2>1 DEF RowFits
  <2>3. row.parent # 0 => IdsOf(datasets[row.parent].cases) \subseteq IdsOf(row.cases)
    BY <2>1 DEF RowFits
  <2>4. Cardinality({c.id : c \in Range(row.cases)}) = Len(row.cases)
    BY <2>2, OneIdEach DEF GoodCases
  <2>5. \A k \in DOMAIN row.cases : row.cases[k].split = "regression" =>
                    /\ reviews[row.cases[k].review].decision \in Promotable
                    /\ reviews[row.cases[k].review].trial = row.cases[k].trial
    BY <2>2 DEF GoodCases, Backed
  <2>6. \A e \in DOMAIN datasets : e # d /\ datasets[e].logical = row.logical =>
                    datasets[e].version # row.version /\ datasets[e].cases # row.cases
    BY <1>1 DEF VersionsFit, Differ
  <2> QED BY <2>2, <2>3, <2>4, <2>5, <2>6 DEF IdsOf
<1> QED BY <1>2, <1>3, <1>4 DEF ReviewsAreTraceable

(* One review speaks for a trial, every regression case goes back to a review that confirmed *)
(* it, and the versions of a dataset stay apart and keep their cases: create_review,         *)
(* adjudicated and promote, after any number of reviews and promotions.                      *)
THEOREM ReviewsTraced == ReviewSpec => []ReviewsAreTraceable
<1>1. ReviewInit => ReviewInv
  BY ReviewStart
<1>2. ReviewInv /\ [ReviewNext]_reviewVars => ReviewInv'
  BY ReviewStep
<1>3. ReviewInv => ReviewsAreTraceable
  BY ReviewSafe
<1> QED BY <1>1, <1>2, <1>3, PTL DEF ReviewSpec

(***************************************************************************)
(* Gate.  Counts of trials.                                                *)
(***************************************************************************)
LEMMA SomeOf ==
  ASSUME NEW S, IsFiniteSet(S), NEW T \in SUBSET S
  PROVE  /\ IsFiniteSet(T) /\ Cardinality(T) \in Nat /\ Cardinality(S) \in Nat
         /\ Cardinality(T) <= Cardinality(S) /\ (Cardinality(T) = Cardinality(S) => T = S)
         /\ (Cardinality(T) > 0 <=> T # {})
<1>1. IsFiniteSet(T) /\ Cardinality(T) <= Cardinality(S) /\ (Cardinality(T) = Cardinality(S) => T = S)
  BY FS_Subset
<1>2. Cardinality(T) \in Nat /\ Cardinality(S) \in Nat /\ (Cardinality(T) = 0 <=> T = {})
  BY <1>1, FS_CardinalityType, FS_EmptySet
<1> QED BY <1>1, <1>2

AFinding == [outcome : {"waiting", "none", "unresolved", "pass", "fail"}, invariants : SUBSET {"leak"}, error : BOOLEAN]
Earned(s) == found[s].outcome \in {"pass", "fail"} => ran[s]

GateTypes ==
  /\ ran \in [Slots -> BOOLEAN] /\ found \in [Slots -> AFinding] /\ \A s \in Slots : Earned(s)
  /\ status \in [RunIds -> {"running", "completed", "completed_with_errors", "cancelled"}]

LEMMA FindingsAre ==
  ASSUME NEW s \in Slots, ran[s] \in BOOLEAN, NEW f \in Findings(s) \cup {NotYet}
  PROVE  f \in AFinding /\ (f.outcome \in {"pass", "fail"} => ran[s])
<1> DEFINE Outcomes == {"waiting", "none", "unresolved", "pass", "fail"}
<1>1. \A o \in Outcomes, v \in SUBSET {"leak"}, e \in BOOLEAN :
        Finding(o, v, e) \in AFinding /\ Finding(o, v, e).outcome = o
  BY DEF Finding, AFinding
<1>2. \E o \in Outcomes, v \in SUBSET {"leak"}, e \in BOOLEAN :
        f = Finding(o, v, e) /\ (o \in {"pass", "fail"} => ran[s])
  <2>1. CASE f = NotYet
    BY <2>1 DEF NotYet
  <2>2. CASE f = NoRow
    BY <2>2 DEF NoRow
  <2>3. CASE f \in Findings(s) /\ f # NoRow /\ ~ran[s]
    <3>1. Findings(s) = {Finding("unresolved", {}, FALSE), NoRow}
      BY <2>3 DEF Findings
    <3>2. f = Finding("unresolved", {}, FALSE)
      BY <2>3, <3>1
    <3>3. "unresolved" \in Outcomes /\ {} \in SUBSET {"leak"} /\ FALSE \in BOOLEAN /\ "unresolved" \notin {"pass", "fail"}
      OBVIOUS
    <3> QED BY <3>2, <3>3
  <2>4. CASE f \in Findings(s) /\ f # NoRow /\ ran[s]
    <3> DEFINE Resolved == {"pass", "fail"} \cup (IF s \in Outages THEN {"unresolved"} ELSE {})
               Leaks == {{}} \cup (IF s \in Leaky THEN {{"leak"}} ELSE {})
               Errors == {FALSE} \cup (IF s \in Outages THEN {TRUE} ELSE {})
               Missing == IF s \in Outages THEN {NoRow} ELSE {}
    <3>1. Findings(s) = {Finding(o, v, e) : o \in Resolved, v \in Leaks, e \in Errors} \cup Missing
      BY <2>4 DEF Findings
    <3>2. Resolved \subseteq Outcomes /\ Leaks \subseteq SUBSET {"leak"} /\ Errors \subseteq BOOLEAN /\ Missing \subseteq {NoRow}
      OBVIOUS
    <3> HIDE DEF Resolved, Leaks, Errors, Missing
    <3>3. PICK o \in Resolved, v \in Leaks, e \in Errors : f = Finding(o, v, e)
      BY <2>4, <3>1, <3>2
    <3> QED BY <2>4, <3>2, <3>3
  <2> QED BY <2>1, <2>2, <2>3, <2>4
<1> QED BY <1>1, <1>2

(* What the summary of some trials counts. *)
LEMMA SummaryCounts ==
  ASSUME GateTypes, NEW rows \in SUBSET Slots
  PROVE  LET sum == CaseSummary(rows)
             generated == Cardinality({s \in rows : ran[s]})
             passed == Having(rows, "pass")
             failed == Having(rows, "fail")
         IN  /\ sum.trials = Cardinality(rows) /\ sum.passes = Cardinality(passed) /\ sum.fails = Cardinality(failed)
             /\ sum.trials \in Nat /\ sum.passes \in Nat /\ sum.fails \in Nat /\ Graded(sum) \in Nat
             /\ Graded(sum) = Cardinality(passed \cup failed)
             /\ generated \in Nat /\ Graded(sum) <= generated /\ generated <= sum.trials
             /\ sum.fails > 0 <=> failed # {}
             /\ sum.unresolved > 0 <=> rows \ (passed \cup failed) # {}
             /\ sum.errors > 0 <=> \E s \in rows : ~ran[s] \/ found[s].error
<1> DEFINE sum == CaseSummary(rows)
           ranOnes == {s \in rows : ran[s]}
           passed == Having(rows, "pass")
           failed == Having(rows, "fail")
           wrong == {s \in rows : found[s].error}
           silent == {s \in rows : ~ran[s]}
           t == Cardinality(rows)
           p == Cardinality(passed)
           q == Cardinality(failed)
           g == Cardinality(ranOnes)
           w == Cardinality(wrong)
           z == Cardinality(silent)
           b == Cardinality(passed \cup failed)
<1>1. /\ sum.trials = t /\ sum.passes = p /\ sum.fails = q /\ sum.unresolved = t - p - q /\ sum.errors = z + w
  BY DEF CaseSummary
<1>2. IsFiniteSet(rows)
  BY GateAssumption, FS_Subset
<1>3. /\ passed \subseteq rows /\ failed \subseteq rows /\ passed \cap failed = {}
      /\ wrong \subseteq rows /\ silent \subseteq rows /\ ranOnes \subseteq rows
  BY DEF Having
<1>4. passed \cup failed \subseteq ranOnes
  BY DEF Having, GateTypes, Earned
<1>5. sum.errors > 0 <=> \E s \in rows : ~ran[s] \/ found[s].error
  <2>1. /\ w \in Nat /\ z \in Nat /\ (w > 0 <=> wrong # {}) /\ (z > 0 <=> silent # {})
    <3> HIDE DEF wrong, silent
    <3> QED BY <1>2, <1>3, SomeOf
  <2>2. wrong # {} \/ silent # {} <=> \E s \in rows : ~ran[s] \/ found[s].error
    OBVIOUS
  <2> HIDE DEF wrong, silent, w, z
  <2>3. z + w > 0 <=> w > 0 \/ z > 0
    BY <2>1
  <2> QED BY <1>1, <2>1, <2>2, <2>3
<1> HIDE DEF passed, failed, ranOnes
<1>6. /\ t \in Nat /\ p \in Nat /\ q \in Nat /\ g \in Nat /\ b \in Nat /\ b <= g /\ g <= t
      /\ IsFiniteSet(passed) /\ IsFiniteSet(failed) /\ (q > 0 <=> failed # {})
  <2>1. IsFiniteSet(ranOnes)
    BY <1>2, <1>3, SomeOf
  <2> QED BY <1>2, <1>3, <1>4, <2>1, SomeOf
<1>7. b = p + q
  <2>1. b = p + q - Cardinality(passed \cap failed)
    BY <1>6, FS_Union
  <2>2. Cardinality(passed \cap failed) = 0
    BY <1>3, FS_EmptySet
  <2> HIDE DEF b, p, q
  <2> QED BY <1>6, <2>1, <2>2
<1>8. rows \ (passed \cup failed) # {} <=> b # t
  <2>1. passed \cup failed \subseteq rows /\ (b = t => passed \cup failed = rows)
    BY <1>2, <1>3, SomeOf
  <2>2. rows \ (passed \cup failed) = {} => b = t
    <3>1. rows \ (passed \cup failed) = {} => passed \cup failed = rows
      BY <1>3
    <3> QED BY <3>1
  <2> QED BY <2>1, <2>2
<1> HIDE DEF t, p, q, g, b, sum
<1>9. t - p - q > 0 <=> b # t
  BY <1>6, <1>7
<1>10. Graded(sum) = b
  BY <1>1, <1>7 DEF Graded
<1> QED BY <1>1, <1>5, <1>6, <1>8, <1>9, <1>10 DEF sum, t, p, q, g, b, passed, failed, ranOnes

LEMMA RateIs ==
  ASSUME GateTypes, NEW rows \in SUBSET Slots
  PROVE  Rate(CaseSummary(rows)) \in Int
<1> DEFINE sum == CaseSummary(rows)
           g == Graded(sum)
           p == sum.passes
<1>1. g \in Nat /\ p \in Nat
  BY SummaryCounts
<1>2. Rate(sum) = IF g = 0 THEN -1 ELSE (Scale * p) \div g
  BY DEF Rate, NoRate
<1> HIDE DEF g, p, sum
<1>3. Scale * p \in Int
  BY <1>1, GateAssumption
<1>4. g # 0 => (Scale * p) \div g \in Int
  BY <1>1, <1>3
<1>5. Rate(sum) \in Int
  BY <1>2, <1>4
<1> QED BY <1>5 DEF sum

LEMMA SidesAre ==
  ASSUME NEW side
  PROVE  /\ SideRows(side) = {s \in Slots : s.run = side[1] /\ s.key = side[2]}
         /\ IsFiniteSet(SideRows(side)) /\ IsFiniteSet(CasesOf(side)) /\ CasesOf(side) \subseteq CaseIds
<1>1. SideRows(side) = {s \in Slots : s.run = side[1] /\ s.key = side[2]}
  <2>1. \A s \in Slots : s.run = side[1] /\ s.key = side[2] => s \in RowsOf(side, s.case) /\ s.case \in CaseIds
    BY GateAssumption DEF RowsOf
  <2>2. \A x \in CaseIds : RowsOf(side, x) \subseteq {s \in Slots : s.run = side[1] /\ s.key = side[2]}
    BY DEF RowsOf
  <2> QED BY <2>1, <2>2 DEF SideRows
<1>2. IsFiniteSet(SideRows(side))
  BY <1>1, GateAssumption, FS_Subset
<1> DEFINE f == [s \in SideRows(side) |-> s.case]
<1>3. IsFiniteSet({f[s] : s \in SideRows(side)})
  <2> HIDE DEF f
  <2> QED BY <1>2, FiniteImage
<1>4. CasesOf(side) = {f[s] : s \in SideRows(side)}
  BY DEF CasesOf
<1>5. CasesOf(side) \subseteq CaseIds
  BY <1>1, GateAssumption DEF CasesOf
<1> QED BY <1>1, <1>2, <1>3, <1>4, <1>5

(* Clusters with a mean, and what may come of resampling them. *)
LEMMA MeansAre ==
  ASSUME GateTypes, NEW b, NEW c
  PROVE  /\ Means(b, c) \subseteq Int /\ IsFiniteSet(Means(b, c)) /\ IsFiniteSet(ComparedCases(b, c))
         /\ Clusters(b, c) # {} => Means(b, c) # {}
<1> DEFINE C == ComparedCases(b, c)
           K == Clusters(b, c)
           cl == [e \in C |-> CaseInfo[e].cluster]
           mean == [k \in K |-> ClusterMean(b, c, k)]
<1>1. C \subseteq CasesOf(b)
  BY DEF ComparedCases, Paired
<1>2. IsFiniteSet(C)
  <2> HIDE DEF C
  <2> QED BY <1>1, SidesAre, FS_Subset
<1>3. IsFiniteSet(K)
  <2>1. IsFiniteSet({cl[e] : e \in C})
    <3> HIDE DEF cl, C
    <3> QED BY <1>2, FiniteImage
  <2>2. K = {cl[e] : e \in C}
    BY DEF Clusters
  <2> QED BY <2>1, <2>2
<1>4. IsFiniteSet({mean[k] : k \in K})
  <2> HIDE DEF mean, K
  <2> QED BY <1>3, FiniteImage
<1>5. Means(b, c) = {mean[k] : k \in K}
  BY DEF Means
<1>6. ASSUME NEW k \in K PROVE mean[k] \in Int
  <2> DEFINE inside == {e \in C : CaseInfo[e].cluster = k}
             f == [e \in inside |-> Delta(b, c, e)]
             n == Cardinality(inside)
  <2>1. ClusterMean(b, c, k) = SumFunction(f) \div n
    BY DEF ClusterMean
  <2>2. inside # {} /\ inside \subseteq C
    BY <1>6 DEF Clusters
  <2>3. \A e \in inside : Delta(b, c, e) \in Int
    <3> TAKE e \in inside
    <3>1. CaseRate(b, e) \in Int /\ CaseRate(c, e) \in Int
      BY RateIs DEF CaseRate, RowsOf
    <3> QED BY <3>1 DEF Delta
  <2>4. DOMAIN f = inside /\ \A e \in inside : f[e] \in Int
    BY <2>3
  <2> HIDE DEF inside
  <2>5. IsFiniteSet(inside) /\ n \in Nat /\ n > 0
    BY <1>2, <2>2, SomeOf
  <2> HIDE DEF f
  <2>6. SumFunction(f) \in Int
    BY <2>4, <2>5, SumIs, SigmaStep
  <2> HIDE DEF n
  <2>7. SumFunction(f) \div n \in Int
    BY <2>5, <2>6
  <2> QED BY <2>1, <2>7
<1>7. Means(b, c) \subseteq Int
  BY <1>5, <1>6
<1> HIDE DEF mean
<1> QED BY <1>2, <1>4, <1>5, <1>7

LEMMA IntervalsAre ==
  ASSUME GateTypes, NEW b, NEW c, NEW interval \in Intervals(b, c), interval # <<>>
  PROVE  /\ interval[1] \in Int /\ interval[2] \in Int /\ interval[1] <= interval[2]
         /\ \E m \in Means(b, c) : m \in Int /\ m <= interval[2]
         /\ \E m \in Means(b, c) : m \in Int /\ interval[1] <= m
<1> DEFINE M == Means(b, c)
           low == Min(M)
           high == Max(M)
<1>1. ~(Cardinality(Clusters(b, c)) < 2) /\ interval \in (low .. high) \X (low .. high) /\ interval[1] <= interval[2]
  BY DEF Intervals
<1>2. Clusters(b, c) # {}
  <2>1. Cardinality({}) = 0
    BY FS_EmptySet
  <2> SUFFICES ASSUME Clusters(b, c) = {} PROVE FALSE
    OBVIOUS
  <2>2. Cardinality(Clusters(b, c)) = 0
    BY <2>1
  <2> QED BY <1>1, <2>2
<1>3. M \subseteq Int /\ M # {} /\ IsFiniteSet(M)
  BY <1>2, MeansAre
<1> HIDE DEF M
<1>4. low \in M /\ high \in M /\ low \in Int /\ high \in Int
  BY <1>3, FiniteExtremes
<1> HIDE DEF low, high
<1>5. interval[1] \in Int /\ interval[2] \in Int /\ low <= interval[2] /\ interval[1] <= high
  BY <1>1, <1>4
<1> QED BY <1>1, <1>4, <1>5 DEF M

(* A metric is clear, or blocked, only for what the clusters show in its direction. *)
Signed(m, x) == IF m.lower THEN -x ELSE x

LEMMA Sides ==
  \A low, high, mean, margin \in Int :
     /\ low <= high /\ low >= margin => high >= margin
     /\ low <= mean /\ low >= margin => ~(mean < margin)
     /\ mean <= high /\ high < margin => mean < margin
     /\ low <= high /\ -high >= margin => -low >= margin
     /\ mean <= high /\ -high >= margin => ~(-mean < margin)
     /\ low <= mean /\ -low < margin => -mean < margin
  OBVIOUS

LEMMA MetricMeans ==
  ASSUME GateTypes, NEW b, NEW c, NEW policy \in Policies, NEW m \in policy.metrics, NEW interval \in Intervals(b, c)
  PROVE  LET state == MetricStatus(m, policy, IntervalOf(m, b, c, interval), Cardinality(Clusters(b, c)))
         IN  /\ state \in {"clear", "blocked", "inconclusive"}
             /\ state = "clear" =>
                   /\ m.name = "case_pass_rate" /\ Cardinality(Clusters(b, c)) >= policy.clusters
                   /\ \A i \in 1 .. 2 : Signed(m, interval[i]) >= -m.margin
                   /\ \E mean \in Means(b, c) : ~(Signed(m, mean) < -m.margin)
             /\ state = "blocked" =>
                   m.name = "case_pass_rate" /\ \E mean \in Means(b, c) : Signed(m, mean) < -m.margin
<1> DEFINE known == IntervalOf(m, b, c, interval)
           n == Cardinality(Clusters(b, c))
           state == MetricStatus(m, policy, known, n)
           low == interval[1]
           high == interval[2]
           margin == -m.margin
           adjusted == Adjusted(m, interval)
<1>1. m.margin \in Nat /\ m.lower \in BOOLEAN /\ margin \in Int
  BY GateAssumption
<1>2. known # <<>> => known = interval /\ interval # <<>> /\ m.name = "case_pass_rate"
  BY DEF IntervalOf
<1>3. known # <<>> => /\ low \in Int /\ high \in Int /\ low <= high
                      /\ \E mean \in Means(b, c) : mean \in Int /\ mean <= high
                      /\ \E mean \in Means(b, c) : mean \in Int /\ low <= mean
  BY <1>2, IntervalsAre
<1>4. adjusted[1] = (IF m.lower THEN -high ELSE low) /\ adjusted[2] = (IF m.lower THEN -low ELSE high)
  BY DEF Adjusted
<1> HIDE DEF known, n
<1>5. /\ state \in {"clear", "blocked", "inconclusive"}
      /\ state = "clear" => known # <<>> /\ n >= policy.clusters /\ Adjusted(m, known)[1] >= -m.margin
      /\ state = "blocked" => known # <<>> /\ Adjusted(m, known)[2] < -m.margin
  BY DEF MetricStatus
<1>6. ASSUME state = "clear"
      PROVE  /\ m.name = "case_pass_rate" /\ n >= policy.clusters
             /\ \A i \in 1 .. 2 : Signed(m, interval[i]) >= -m.margin
             /\ \E mean \in Means(b, c) : ~(Signed(m, mean) < -m.margin)
  <2>1. known # <<>> /\ known = interval /\ m.name = "case_pass_rate" /\ n >= policy.clusters /\ adjusted[1] >= margin
    BY <1>2, <1>5, <1>6
  <2>2. low \in Int /\ high \in Int /\ low <= high
    BY <1>3, <2>1
  <2>3. PICK least \in Means(b, c) : least \in Int /\ least <= high
    BY <1>3, <2>1
  <2>4. PICK most \in Means(b, c) : most \in Int /\ low <= most
    BY <1>3, <2>1
  <2>5. \A i \in 1 .. 2 : Signed(m, interval[i]) = IF i = 1 THEN Signed(m, low) ELSE Signed(m, high)
    OBVIOUS
  <2> HIDE DEF adjusted, low, high, margin
  <2>6. CASE m.lower
    <3>1. -high >= margin
      BY <1>4, <2>1, <2>6
    <3>2. -low >= margin /\ ~(-least < margin)
      BY <1>1, <2>2, <2>3, <3>1, Sides
    <3> QED BY <2>1, <2>3, <2>5, <2>6, <3>1, <3>2 DEF Signed, margin
  <2>7. CASE ~m.lower
    <3>1. low >= margin
      BY <1>4, <2>1, <2>7
    <3>2. high >= margin /\ ~(most < margin)
      BY <1>1, <2>2, <2>4, <3>1, Sides
    <3> QED BY <2>1, <2>4, <2>5, <2>7, <3>1, <3>2 DEF Signed, margin
  <2> QED BY <2>6, <2>7
<1>7. ASSUME state = "blocked"
      PROVE  m.name = "case_pass_rate" /\ \E mean \in Means(b, c) : Signed(m, mean) < -m.margin
  <2>1. known # <<>> /\ known = interval /\ m.name = "case_pass_rate" /\ adjusted[2] < margin
    BY <1>2, <1>5, <1>7
  <2>2. low \in Int /\ high \in Int
    BY <1>3, <2>1
  <2>3. PICK least \in Means(b, c) : least \in Int /\ least <= high
    BY <1>3, <2>1
  <2>4. PICK most \in Means(b, c) : most \in Int /\ low <= most
    BY <1>3, <2>1
  <2> HIDE DEF adjusted, low, high, margin
  <2>5. CASE m.lower
    <3>1. -low < margin
      BY <1>4, <2>1, <2>5
    <3>2. -most < margin
      BY <1>1, <2>2, <2>4, <3>1, Sides
    <3> QED BY <2>1, <2>4, <2>5, <3>2 DEF Signed, margin
  <2>6. CASE ~m.lower
    <3>1. high < margin
      BY <1>4, <2>1, <2>6
    <3>2. least < margin
      BY <1>1, <2>2, <2>3, <3>1, Sides
    <3> QED BY <2>1, <2>3, <2>6, <3>2 DEF Signed, margin
  <2> QED BY <2>5, <2>6
<1> QED BY <1>5, <1>6, <1>7 DEF state, known, n

(***************************************************************************)
(* The decision.  It is made of what is there when it is stored, and       *)
(* nothing that it was made of changes afterwards.                         *)
(***************************************************************************)
DecisionOn(b, c, policy, interval) ==
  [verdict |-> GateVerdict(Statuses(policy, b, c, interval), policy.metrics), unresolved |-> Unresolved(b, c),
   interval |-> interval, policy |-> policy, baseline |-> b, candidate |-> c]

DecisionStands ==
  decision = Waits \/ \E pair \in Compared, policy \in Policies : \E interval \in Intervals(pair[1], pair[2]) :
                         decision = DecisionOn(pair[1], pair[2], policy, interval)

GateInv == GateTypes /\ DecisionStands

LEMMA NothingElseMoves ==
  ASSUME UNCHANGED <<ran, found, status, graders, design>>, NEW b, NEW c
  PROVE  /\ Intervals(b, c)' = Intervals(b, c)
         /\ \A policy, interval : DecisionOn(b, c, policy, interval)' = DecisionOn(b, c, policy, interval)
<1>1. \A rows, o : Having(rows, o)' = Having(rows, o)
  BY DEF Having
<1>2. \A rows : CaseSummary(rows)' = CaseSummary(rows)
  BY <1>1 DEF CaseSummary
<1>3. \A side, e : CaseRate(side, e)' = CaseRate(side, e)
  BY <1>2 DEF CaseRate, Rate, Graded, RowsOf
<1>4. Unresolved(b, c)' = Unresolved(b, c)
  BY <1>3 DEF Unresolved, Paired, CasesOf, SideRows, RowsOf
<1>5. ComparedCases(b, c)' = ComparedCases(b, c)
  BY <1>4 DEF ComparedCases, Paired, CasesOf, SideRows, RowsOf
<1>6. \A e : Delta(b, c, e)' = Delta(b, c, e)
  BY <1>3 DEF Delta
<1>7. Clusters(b, c)' = Clusters(b, c)
  BY <1>5 DEF Clusters
<1>8. \A k : ClusterMean(b, c, k)' = ClusterMean(b, c, k)
  BY <1>5, <1>6 DEF ClusterMean
<1>9. Means(b, c)' = Means(b, c)
  BY <1>7, <1>8 DEF Means
<1>10. Intervals(b, c)' = Intervals(b, c)
  BY <1>7, <1>9 DEF Intervals
<1>11. ASSUME NEW policy, NEW interval PROVE Statuses(policy, b, c, interval)' = Statuses(policy, b, c, interval)
  <2>1. Violated(policy, c)' = Violated(policy, c)
    BY DEF Violated, SideRows, RowsOf
  <2>2. RunProblem(b[1])' = RunProblem(b[1]) /\ RunProblem(c[1])' = RunProblem(c[1])
        /\ Compatible(b, c)' = Compatible(b, c)
    BY DEF RunProblem, Compatible
  <2>3. \A m : IntervalOf(m, b, c, interval)' = IntervalOf(m, b, c, interval)
    BY <2>2 DEF IntervalOf
  <2> QED BY <1>7, <2>1, <2>2, <2>3 DEF Statuses, Paired, AllCases, CasesOf, SideRows, RowsOf
<1>12. \A policy, interval : DecisionOn(b, c, policy, interval)' = DecisionOn(b, c, policy, interval)
  BY <1>4, <1>11 DEF DecisionOn, GateVerdict
<1> QED BY <1>10, <1>12

LEMMA GateStart == GateInit => GateInv
<1> SUFFICES ASSUME GateInit PROVE GateInv
  OBVIOUS
<1>1. ran \in [Slots -> BOOLEAN] /\ found = [s \in Slots |-> NotYet] /\ status = [r \in RunIds |-> "running"]
  BY DEF GateInit
<1>2. \A s \in Slots : found[s] \in AFinding /\ Earned(s)
  BY <1>1, FindingsAre DEF Earned
<1>3. GateTypes
  BY <1>1, <1>2 DEF GateTypes
<1> QED BY <1>3 DEF GateInit, GateInv, DecisionStands

LEMMA GateStep == GateInv /\ [GateNext]_gateVars => GateInv'
<1> SUFFICES ASSUME GateInv, [GateNext]_gateVars PROVE GateInv'
  OBVIOUS
<1>0. GateTypes /\ DecisionStands
  BY DEF GateInv
<1>1. ASSUME NEW s \in Slots, GradeTrial(s) PROVE GateInv'
  <2>1. PICK f \in Findings(s) : found' = [found EXCEPT ![s] = f]
    BY <1>1 DEF GradeTrial
  <2>2. ran' = ran /\ status' = status /\ decision' = decision /\ decision = Waits
    BY <1>1 DEF GradeTrial, Undecided
  <2>3. f \in AFinding /\ (f.outcome \in {"pass", "fail"} => ran[s])
    <3>1. ran[s] \in BOOLEAN
      BY <1>0 DEF GateTypes
    <3> QED BY <3>1, FindingsAre
  <2>4. found' \in [Slots -> AFinding] /\ found'[s] = f /\ \A u \in Slots \ {s} : found'[u] = found[u]
    BY <1>0, <2>1, <2>3 DEF GateTypes
  <2>5. \A u \in Slots : Earned(u)'
    BY <1>0, <2>2, <2>3, <2>4 DEF GateTypes, Earned
  <2> QED BY <1>0, <2>2, <2>4, <2>5 DEF GateInv, GateTypes, DecisionStands
<1>2. ASSUME NEW r \in RunIds, EndRun(r) PROVE GateInv'
  <2>1. /\ status' \in [RunIds -> {"running", "completed", "completed_with_errors", "cancelled"}]
        /\ UNCHANGED <<ran, found, decision>> /\ decision = Waits
    BY <1>0, <1>2 DEF EndRun, Undecided, GateTypes
  <2> QED BY <1>0, <2>1 DEF GateInv, GateTypes, Earned, DecisionStands
<1>3. ASSUME NEW r \in RunIds, Regrade(r) PROVE GateInv'
  <2>1. /\ found' = [s \in Slots |-> IF s.run = r THEN NotYet ELSE found[s]]
        /\ UNCHANGED <<ran, status, decision>> /\ decision = Waits
    BY <1>3 DEF Regrade, Undecided
  <2>2. \A s \in Slots : found'[s] \in AFinding /\ Earned(s)'
    <3> TAKE s \in Slots
    <3>1. CASE s.run = r
      <4>1. found'[s] = NotYet /\ ran'[s] = ran[s] /\ ran[s] \in BOOLEAN
        BY <1>0, <2>1, <3>1 DEF GateTypes
      <4> QED BY <4>1, FindingsAre DEF Earned
    <3>2. CASE s.run # r
      <4>1. found'[s] = found[s] /\ ran'[s] = ran[s]
        BY <2>1, <3>2
      <4> QED BY <1>0, <4>1 DEF GateTypes, Earned
    <3> QED BY <3>1, <3>2
  <2>3. found' \in [Slots -> AFinding]
    BY <2>1, <2>2
  <2> QED BY <1>0, <2>1, <2>2, <2>3 DEF GateInv, GateTypes, DecisionStands
<1>4. ASSUME NEW e \in CaseIds, Doubt(e) PROVE GateInv'
  <2>1. UNCHANGED <<ran, found, status, decision>> /\ decision = Waits
    BY <1>4 DEF Doubt, Undecided
  <2> QED BY <1>0, <2>1 DEF GateInv, GateTypes, Earned, DecisionStands
<1>5. ASSUME NEW pair \in Compared, Compare(pair[1], pair[2]) PROVE GateInv'
  <2>1. PICK policy \in Policies, interval \in Intervals(pair[1], pair[2]) :
              decision' = DecisionOn(pair[1], pair[2], policy, interval)
    BY <1>5 DEF Compare, DecisionOn
  <2>2. UNCHANGED <<ran, found, status, graders, design>>
    BY <1>5 DEF Compare
  <2>3. /\ interval \in Intervals(pair[1], pair[2])'
        /\ decision' = DecisionOn(pair[1], pair[2], policy, interval)'
    BY <2>1, <2>2, NothingElseMoves
  <2>4. DecisionStands'
    BY <2>1, <2>3 DEF DecisionStands
  <2>5. GateTypes'
    BY <1>0, <2>2 DEF GateTypes, Earned
  <2> QED BY <2>4, <2>5 DEF GateInv
<1>6. CASE UNCHANGED gateVars
  <2>1. UNCHANGED <<ran, found, status, graders, design>> /\ decision' = decision
    BY <1>6 DEF gateVars
  <2>2. DecisionStands'
    <3>1. CASE decision = Waits
      BY <2>1, <3>1 DEF DecisionStands
    <3>2. CASE decision # Waits
      <4>1. PICK pair \in Compared, policy \in Policies : \E interval \in Intervals(pair[1], pair[2]) :
                    decision = DecisionOn(pair[1], pair[2], policy, interval)
        BY <1>0, <3>2 DEF DecisionStands
      <4>2. PICK interval \in Intervals(pair[1], pair[2]) : decision = DecisionOn(pair[1], pair[2], policy, interval)
        BY <4>1
      <4>3. /\ interval \in Intervals(pair[1], pair[2])'
            /\ decision' = DecisionOn(pair[1], pair[2], policy, interval)'
        BY <2>1, <4>2, NothingElseMoves
      <4> QED BY <4>3 DEF DecisionStands
    <3> QED BY <3>1, <3>2
  <2>3. GateTypes'
    BY <1>0, <2>1 DEF GateTypes, Earned
  <2> QED BY <2>2, <2>3 DEF GateInv
<1> QED BY <1>1, <1>2, <1>3, <1>4, <1>5, <1>6 DEF GateNext

(* Every pair of cases the policy asks for is there: all of them, when it asks for all. *)
LEMMA FullCoverage ==
  ASSUME NEW b, NEW c, NEW coverage \in Int, coverage = 100,
         ~(100 * Cardinality(Paired(b, c)) < coverage * Cardinality(AllCases(b, c)))
  PROVE  Paired(b, c) = AllCases(b, c)
<1> DEFINE P == Paired(b, c)
           A == AllCases(b, c)
           p == Cardinality(P)
           a == Cardinality(A)
<1>1. IsFiniteSet(A)
  BY SidesAre, FS_Union DEF AllCases
<1>2. P \subseteq A
  BY DEF Paired, AllCases
<1> HIDE DEF P, A
<1>3. p \in Nat /\ a \in Nat /\ p <= a /\ (p = a => P = A)
  BY <1>1, <1>2, SomeOf
<1>4. ~(100 * p < coverage * a)
  BY DEF P, A
<1> HIDE DEF p, a
<1>5. p = a
  BY <1>3, <1>4
<1> QED BY <1>3, <1>5 DEF P, A

LEMMA GateSafe == GateInv => ReadyNeedsEvidence
<1> SUFFICES ASSUME GateInv PROVE ReadyNeedsEvidence
  OBVIOUS
<1>0. GateTypes /\ DecisionStands
  BY DEF GateInv
<1>1. CASE decision = Waits
  BY <1>1 DEF ReadyNeedsEvidence, Waits
<1>2. CASE decision # Waits
  <2>1. PICK pair \in Compared, policy \in Policies : \E interval \in Intervals(pair[1], pair[2]) :
                decision = DecisionOn(pair[1], pair[2], policy, interval)
    BY <1>0, <1>2 DEF DecisionStands
  <2>2. PICK interval \in Intervals(pair[1], pair[2]) : decision = DecisionOn(pair[1], pair[2], policy, interval)
    BY <2>1
  <2> DEFINE b == pair[1]
             c == pair[2]
             statuses == Statuses(policy, b, c, interval)
             State(m) == MetricStatus(m, policy, IntervalOf(m, b, c, interval), Cardinality(Clusters(b, c)))
             Lost(m) == {mean \in Means(b, c) : Signed(m, mean) < -m.margin}
             Required == {m \in policy.metrics : m.required}
  <2>3. /\ decision.baseline = b /\ decision.candidate = c /\ decision.policy = policy /\ decision.interval = interval
        /\ decision.unresolved = Unresolved(b, c) /\ decision.verdict = GateVerdict(statuses, policy.metrics)
    BY <2>2 DEF DecisionOn
  <2>4. policy.coverage \in Int /\ policy.clusters \in Int /\ b[1] \in RunIds /\ c[1] \in RunIds
    BY GateAssumption
  <2>5. ASSUME NEW m \in policy.metrics
        PROVE  /\ State(m) \in {"clear", "blocked", "inconclusive"}
               /\ State(m) = "clear" =>
                     /\ m.name = "case_pass_rate" /\ Cardinality(Clusters(b, c)) >= policy.clusters
                     /\ \A i \in 1 .. 2 : Signed(m, interval[i]) >= -m.margin
                     /\ \E mean \in Means(b, c) : ~(Signed(m, mean) < -m.margin)
               /\ State(m) = "blocked" =>
                     m.name = "case_pass_rate" /\ \E mean \in Means(b, c) : Signed(m, mean) < -m.margin
    BY <1>0, MetricMeans
  <2> HIDE DEF b, c
  <2>6. /\ "blocked" \in statuses <=> Violated(policy, c) \/ \E m \in policy.metrics : Reported(m, State(m)) = "blocked"
        /\ "inconclusive" \notin statuses =>
              /\ ~RunProblem(b[1]) /\ ~RunProblem(c[1]) /\ Compatible(b, c)
              /\ ~(100 * Cardinality(Paired(b, c)) < policy.coverage * Cardinality(AllCases(b, c)))
              /\ \A m \in policy.metrics : Reported(m, State(m)) # "inconclusive"
    BY DEF Statuses
  <2>7. ASSUME decision.verdict = "ready"
        PROVE  /\ \A r \in {b[1], c[1]} : status[r] \in {"completed", "completed_with_errors"}
               /\ graders[b[1]] = graders[c[1]] /\ design[b[1]] = design[c[1]]
               /\ \A s \in SideRows(c) : found[s].invariants \cap policy.critical = {}
               /\ policy.coverage = 100 => \A e \in AllCases(b, c) : /\ {b[1], c[1]} \X {e} \subseteq DOMAIN HashOf
                                                                    /\ HashOf[<<b[1], e>>] = HashOf[<<c[1], e>>]
               /\ policy.metrics # {}
               /\ \A m \in Required :
                     /\ m.name = "case_pass_rate" /\ Lost(m) # Means(b, c)
                     /\ Cardinality({CaseInfo[e].cluster : e \in AllCases(b, c) \ decision.unresolved}) >= policy.clusters
                     /\ \A i \in 1 .. 2 : Signed(m, interval[i]) >= -m.margin
    <3>1. "blocked" \notin statuses /\ "inconclusive" \notin statuses /\ policy.metrics # {}
      BY <2>3, <2>7 DEF GateVerdict
    <3> HIDE DEF statuses, State
    <3>2. /\ ~Violated(policy, c) /\ ~RunProblem(b[1]) /\ ~RunProblem(c[1]) /\ Compatible(b, c)
          /\ ~(100 * Cardinality(Paired(b, c)) < policy.coverage * Cardinality(AllCases(b, c)))
          /\ \A m \in policy.metrics : Reported(m, State(m)) \notin {"blocked", "inconclusive"}
      BY <2>6, <3>1
    <3>3. \A m \in Required : State(m) = "clear"
      BY <2>5, <3>2 DEF Reported
    <3>4. \A r \in {b[1], c[1]} : status[r] \in {"completed", "completed_with_errors"}
      BY <1>0, <2>4, <3>2 DEF RunProblem, GateTypes
    <3>5. graders[b[1]] = graders[c[1]] /\ design[b[1]] = design[c[1]]
      BY <3>2 DEF Compatible
    <3>6. \A s \in SideRows(c) : found[s].invariants \cap policy.critical = {}
      BY <3>2 DEF Violated
    <3>7. ASSUME policy.coverage = 100, NEW e \in AllCases(b, c)
          PROVE  /\ {b[1], c[1]} \X {e} \subseteq DOMAIN HashOf /\ HashOf[<<b[1], e>>] = HashOf[<<c[1], e>>]
      <4>1. e \in Paired(b, c)
        BY <2>4, <3>2, <3>7, FullCoverage
      <4>2. e \in CasesOf(b) /\ e \in CasesOf(c) /\ HashOf[<<b[1], e>>] = HashOf[<<c[1], e>>]
        BY <4>1 DEF Paired
      <4>3. \A side : e \in CasesOf(side) => <<side[1], e>> \in DOMAIN HashOf
        BY SidesAre, GateAssumption DEF CasesOf
      <4> QED BY <4>2, <4>3
    <3>8. ASSUME NEW m \in Required
          PROVE  Cardinality({CaseInfo[e].cluster : e \in AllCases(b, c) \ decision.unresolved}) >= policy.clusters
      <4> DEFINE E == AllCases(b, c) \ Unresolved(b, c)
                 cl == [e \in E |-> CaseInfo[e].cluster]
                 K == {cl[e] : e \in E}
                 k == Cardinality(K)
                 n == Cardinality(Clusters(b, c))
      <4>1. IsFiniteSet(E)
        BY SidesAre, FS_Union, FS_Difference DEF AllCases
      <4>2. IsFiniteSet(K)
        <5> HIDE DEF cl, E
        <5> QED BY <4>1, FiniteImage
      <4>3. Clusters(b, c) \subseteq K
        BY DEF Clusters, ComparedCases, Paired, AllCases
      <4>4. K = {CaseInfo[e].cluster : e \in AllCases(b, c) \ decision.unresolved}
        BY <2>3
      <4> HIDE DEF K
      <4>5. n \in Nat /\ k \in Nat /\ n <= k
        BY <4>2, <4>3, SomeOf
      <4>6. n >= policy.clusters
        BY <2>5, <3>3
      <4> HIDE DEF n, k
      <4>7. k >= policy.clusters
        BY <2>4, <4>5, <4>6
      <4> QED BY <4>4, <4>7 DEF k
    <3>9. ASSUME NEW m \in Required
          PROVE  /\ m.name = "case_pass_rate" /\ Lost(m) # Means(b, c)
                 /\ \A i \in 1 .. 2 : Signed(m, interval[i]) >= -m.margin
      <4>1. /\ m.name = "case_pass_rate" /\ \A i \in 1 .. 2 : Signed(m, interval[i]) >= -m.margin
            /\ \E mean \in Means(b, c) : ~(Signed(m, mean) < -m.margin)
        BY <2>5, <3>3
      <4> QED BY <4>1
    <3> QED BY <3>1, <3>4, <3>5, <3>6, <3>7, <3>8, <3>9
  <2>8. ASSUME decision.verdict = "blocked"
        PROVE  \/ \E s \in SideRows(c) : found[s].invariants \cap policy.critical # {}
               \/ \E m \in Required : m.name = "case_pass_rate" /\ Lost(m) # {}
    <3>1. "blocked" \in statuses
      BY <2>3, <2>8 DEF GateVerdict
    <3> HIDE DEF statuses, State
    <3>2. CASE Violated(policy, c)
      BY <3>2 DEF Violated
    <3>3. CASE \E m \in policy.metrics : Reported(m, State(m)) = "blocked"
      <4>1. PICK m \in policy.metrics : Reported(m, State(m)) = "blocked"
        BY <3>3
      <4>2. m \in Required /\ State(m) = "blocked"
        BY <2>5, <4>1 DEF Reported
      <4>3. m.name = "case_pass_rate" /\ \E mean \in Means(b, c) : Signed(m, mean) < -m.margin
        BY <2>5, <4>2
      <4> QED BY <4>2, <4>3
    <3> QED BY <2>6, <3>1, <3>2, <3>3
  <2> QED BY <2>3, <2>7, <2>8 DEF ReadyNeedsEvidence, Signed
<1> QED BY <1>1, <1>2

(* A stored decision of ready or blocked rests on the evidence it names, for any trials,    *)
(* run designs and policies, with required and optional metrics of either direction:        *)
(* comparison.evaluate and evaluate_gate.                                                   *)
THEOREM ReadyRests == GateSpec => []ReadyNeedsEvidence
<1>1. GateInit => GateInv
  BY GateStart
<1>2. GateInv /\ [GateNext]_gateVars => GateInv'
  BY GateStep
<1>3. GateInv => ReadyNeedsEvidence
  BY GateSafe
<1> QED BY <1>1, <1>2, <1>3, PTL DEF GateSpec

(***************************************************************************)
(* The queue.                                                              *)
(***************************************************************************)
LEMMA FirstIs ==
  ASSUME NEW rows \in SUBSET Slots, rows # {}
  PROVE  FirstOf(rows) \in rows
<1> DEFINE at == [s \in rows |-> s.repeat]
           R == {at[s] : s \in rows}
<1>1. IsFiniteSet(rows) /\ \A s \in rows : s.repeat \in Int
  BY GateAssumption, FS_Subset
<1>2. IsFiniteSet(R)
  <2> HIDE DEF at
  <2> QED BY <1>1, FiniteImage
<1>3. R \subseteq Int /\ R # {}
  BY <1>1
<1>4. Min(R) \in R /\ \A y \in R : Min(R) <= y
  <2> HIDE DEF R
  <2> QED BY <1>2, <1>3, FiniteExtremes
<1>5. PICK s \in rows : s.repeat = Min(R)
  BY <1>4
<1>6. \A t \in rows : s.repeat <= t.repeat
  BY <1>4, <1>5
<1> QED BY <1>6 DEF FirstOf

(* A case is shown by a failed trial if it has one, and by a passed one only if all passed *)
(* and a grader failed on one of them.                                                     *)
LEMMA ShownByAProblem ==
  ASSUME GateTypes, NEW rows \in SUBSET Slots, Failing(CaseSummary(rows))
  PROVE  LET shown == Representative(rows)
         IN  /\ shown \in rows
             /\ Having(rows, "fail") # {} => found[shown].outcome = "fail"
             /\ found[shown].outcome = "pass" => Having(rows, "pass") = rows /\ \E s \in rows : found[s].error
<1> DEFINE failed == Having(rows, "fail")
           passed == Having(rows, "pass")
<1>1. /\ failed \subseteq rows /\ \A s \in failed : found[s].outcome = "fail"
      /\ passed \subseteq rows /\ \A s \in rows \ passed : found[s].outcome # "pass"
  BY DEF Having
<1>2. rows # {}
  <2> SUFFICES ASSUME rows = {} PROVE FALSE
    OBVIOUS
  <2>1. failed = {} /\ rows \ (passed \cup failed) = {} /\ ~\E s \in rows : ~ran[s] \/ found[s].error
    BY <1>1
  <2> QED BY <2>1, SummaryCounts DEF Failing
<1>3. CASE failed # {}
  <2>1. Representative(rows) = FirstOf(failed)
    BY <1>3 DEF Representative
  <2>2. FirstOf(failed) \in failed
    <3> HIDE DEF failed
    <3> QED BY <1>1, <1>3, FirstIs
  <2> HIDE DEF failed
  <2> QED BY <1>1, <2>1, <2>2
<1>4. CASE failed = {} /\ rows \ passed # {}
  <2>1. Representative(rows) = FirstOf(rows \ passed)
    BY <1>4 DEF Representative
  <2>2. FirstOf(rows \ passed) \in rows \ passed
    <3> HIDE DEF failed, passed
    <3> QED BY <1>4, FirstIs
  <2> QED BY <1>1, <1>4, <2>1, <2>2
<1>5. CASE failed = {} /\ rows \ passed = {}
  <2>1. Representative(rows) = FirstOf(rows)
    BY <1>5 DEF Representative
  <2>2. FirstOf(rows) \in rows
    BY <1>2, FirstIs
  <2>3. passed = rows
    BY <1>1, <1>5
  <2>4. \E s \in rows : ~ran[s] \/ found[s].error
    <3>1. rows \ (passed \cup failed) = {}
      BY <1>5
    <3> QED BY <1>5, <3>1, SummaryCounts DEF Failing
  <2>5. \A s \in rows : ran[s]
    BY <2>3 DEF Having, GateTypes, Earned
  <2> QED BY <1>5, <2>1, <2>2, <2>3, <2>4, <2>5
<1> QED BY <1>3, <1>4, <1>5

Listed(case, side) ==
  [case |-> case, side |-> side, priority |-> Priority(side, <<side[1], KeysOf[side[1]][1]>>, case),
   representative |-> Representative(RowsOf(side, case))]

LEMMA QueueIs ==
  ASSUME NEW r
  PROVE  /\ \A case \in CaseIds, k \in KeySet(r) :
              Failing(CaseSummary(RowsOf(<<r, k>>, case))) => Listed(case, <<r, k>>) \in TriageQueue(r)
         /\ \A i \in TriageQueue(r) : \E case \in CaseIds, k \in KeySet(r) :
              Failing(CaseSummary(RowsOf(<<r, k>>, case))) /\ i = Listed(case, <<r, k>>)
<1> DEFINE P == {y \in CaseIds \X KeySet(r) : Failing(CaseSummary(RowsOf(<<r, y[2]>>, y[1])))}
           Row(x) == [case |-> x[1], side |-> <<r, x[2]>>, priority |-> Priority(<<r, x[2]>>, <<r, KeysOf[r][1]>>, x[1]),
                      representative |-> Representative(RowsOf(<<r, x[2]>>, x[1]))]
<1>1. TriageQueue(r) = {Row(x) : x \in P}
  BY DEF TriageQueue
<1>2. \A case, k : Row(<<case, k>>) = Listed(case, <<r, k>>)
  BY DEF Listed
<1>3. \A case \in CaseIds, k \in KeySet(r) : Failing(CaseSummary(RowsOf(<<r, k>>, case))) <=> <<case, k>> \in P
  OBVIOUS
<1>4. \A x \in P : \E case \in CaseIds, k \in KeySet(r) : x = <<case, k>>
  OBVIOUS
<1> HIDE DEF P, Row
<1>5. ASSUME NEW case \in CaseIds, NEW k \in KeySet(r), Failing(CaseSummary(RowsOf(<<r, k>>, case)))
      PROVE  Listed(case, <<r, k>>) \in TriageQueue(r)
  <2>1. <<case, k>> \in P /\ Row(<<case, k>>) = Listed(case, <<r, k>>)
    BY <1>2, <1>3, <1>5
  <2> QED BY <1>1, <2>1
<1>6. ASSUME NEW i \in TriageQueue(r)
      PROVE  \E case \in CaseIds, k \in KeySet(r) :
                Failing(CaseSummary(RowsOf(<<r, k>>, case))) /\ i = Listed(case, <<r, k>>)
  <2>1. PICK x \in P : i = Row(x)
    BY <1>1
  <2>2. PICK case \in CaseIds, k \in KeySet(r) : x = <<case, k>>
    BY <1>4
  <2>3. i = Listed(case, <<r, k>>) /\ Failing(CaseSummary(RowsOf(<<r, k>>, case)))
    BY <1>2, <1>3, <2>1, <2>2
  <2> QED BY <2>3
<1> QED BY <1>5, <1>6

(* The counts of the cases make up those of the side. *)
LEMMA CountedOnce ==
  ASSUME GateTypes, NEW side
  PROVE  LET each == [e \in CasesOf(side) |-> CaseSummary(RowsOf(side, e))]
             sum == CaseSummary(SideRows(side))
         IN  /\ SumFunction([e \in DOMAIN each |-> each[e].passes]) = sum.passes
             /\ SumFunction([e \in DOMAIN each |-> each[e].trials]) = sum.trials
             /\ SumFunction([e \in DOMAIN each |-> Graded(each[e])]) = Graded(sum)
<1> DEFINE C == CasesOf(side)
           S == SideRows(side)
           each == [e \in C |-> CaseSummary(RowsOf(side, e))]
           p == [e \in C |-> each[e].passes]
           t == [e \in C |-> each[e].trials]
           g == [e \in C |-> Graded(each[e])]
           key == [s \in Slots |-> s.case]
           passed == Having(S, "pass")
           graded == Having(S, "pass") \cup Having(S, "fail")
<1>1. S = {s \in Slots : s.run = side[1] /\ s.key = side[2]} /\ IsFiniteSet(S) /\ IsFiniteSet(C)
  BY SidesAre
<1>2. \A s \in S : s \in Slots /\ key[s] = s.case /\ key[s] \in C
  BY <1>1 DEF CasesOf
<1>3. \A e \in C : /\ RowsOf(side, e) \subseteq Slots
                   /\ {s \in S : key[s] = e} = RowsOf(side, e)
                   /\ {s \in passed : key[s] = e} = Having(RowsOf(side, e), "pass")
                   /\ {s \in graded : key[s] = e} = Having(RowsOf(side, e), "pass") \cup Having(RowsOf(side, e), "fail")
  BY <1>1, <1>2 DEF RowsOf, Having
<1>4. passed \subseteq S /\ graded \subseteq S
  BY DEF Having
<1>5. \A e \in C : /\ t[e] = Cardinality(RowsOf(side, e)) /\ p[e] = Cardinality(Having(RowsOf(side, e), "pass"))
                   /\ g[e] = Cardinality(Having(RowsOf(side, e), "pass") \cup Having(RowsOf(side, e), "fail"))
  BY <1>3, SummaryCounts
<1>6. CaseSummary(S).passes = Cardinality(passed) /\ CaseSummary(S).trials = Cardinality(S)
      /\ Graded(CaseSummary(S)) = Cardinality(graded)
  <2>1. S \subseteq Slots
    BY <1>2
  <2> HIDE DEF S
  <2> QED BY <2>1, SummaryCounts
<1>7. DOMAIN each = C /\ DOMAIN p = C /\ DOMAIN t = C /\ DOMAIN g = C
  OBVIOUS
<1>8. IsFiniteSet(passed) /\ IsFiniteSet(graded)
  <2> HIDE DEF S, passed, graded
  <2> QED BY <1>1, <1>4, SomeOf
<1>a. \A e \in C : /\ t[e] = Cardinality(Fiber(S, key, e)) /\ p[e] = Cardinality(Fiber(passed, key, e))
                   /\ g[e] = Cardinality(Fiber(graded, key, e))
  <2> TAKE e \in C
  <2> HIDE DEF C, S, key, p, t, g, passed, graded
  <2> QED BY <1>3, <1>5 DEF Fiber
<1> HIDE DEF C, S, key, p, t, g, passed, graded
<1>b. (\A s \in passed : key[s] \in C) /\ (\A s \in graded : key[s] \in C) /\ (\A s \in S : key[s] \in C)
  BY <1>2, <1>4
<1>9. Sigma(p, C) = Cardinality(passed)
  <2>1. IsFiniteSet(C) /\ IsFiniteSet(passed)
    BY <1>1, <1>8
  <2>2. \A s \in passed : key[s] \in C
    BY <1>b
  <2>3. \A e \in C : p[e] = Cardinality(Fiber(passed, key, e))
    BY <1>a
  <2> QED BY <2>1, <2>2, <2>3, CountBy
<1>10. Sigma(t, C) = Cardinality(S)
  <2>1. IsFiniteSet(C) /\ IsFiniteSet(S)
    BY <1>1, <1>8
  <2>2. \A s \in S : key[s] \in C
    BY <1>b
  <2>3. \A e \in C : t[e] = Cardinality(Fiber(S, key, e))
    BY <1>a
  <2> QED BY <2>1, <2>2, <2>3, CountBy
<1>11. Sigma(g, C) = Cardinality(graded)
  <2>1. IsFiniteSet(C) /\ IsFiniteSet(graded)
    BY <1>1, <1>8
  <2>2. \A s \in graded : key[s] \in C
    BY <1>b
  <2>3. \A e \in C : g[e] = Cardinality(Fiber(graded, key, e))
    BY <1>a
  <2> QED BY <2>1, <2>2, <2>3, CountBy
<1>12. SumFunction(p) = CaseSummary(S).passes /\ SumFunction(t) = CaseSummary(S).trials
       /\ SumFunction(g) = Graded(CaseSummary(S))
  BY <1>6, <1>7, <1>9, <1>10, <1>11, SumIs
<1> QED BY <1>12 DEF p, t, g, C, S

LEMMA QueueSafe == GateTypes => QueueShowsEveryProblem
<1> SUFFICES ASSUME GateTypes, NEW x \in Slots, found[x] # NotYet, NEW r, r = x.run
             PROVE
        LET items == TriageQueue(r) IN
        /\ \A s \in Slots : s.run = r /\ (found[s].outcome # "pass" \/ found[s].error) =>
               \E i \in items : /\ i.case = s.case /\ i.side = <<r, s.key>>
                                /\ CaseInfo[s.case].critical /\ found[s].outcome = "fail" => i.priority = 0
        /\ \A i, j \in items : i.case = j.case /\ i.side = j.side => i = j
        /\ \A i \in items :
               LET rows == RowsOf(i.side, i.case)
                   shown == found[i.representative].outcome
               IN  /\ i.representative \in rows
                   /\ Having(rows, "fail") # {} => shown = "fail"
                   /\ shown = "pass" => Having(rows, "pass") = rows /\ \E s \in rows : found[s].error
        /\ \A k \in KeySet(r) :
               LET rates == SlotRates(<<r, k>>)
                   each == [e \in CasesOf(<<r, k>>) |-> CaseSummary(RowsOf(<<r, k>>, e))]
               IN  /\ rates.yield = <<SumFunction([e \in DOMAIN each |-> each[e].passes]),
                                      SumFunction([e \in DOMAIN each |-> each[e].trials])>>
                   /\ rates.conditional[2] = SumFunction([e \in DOMAIN each |-> Graded(each[e])])
                   /\ rates.coverage[1] <= rates.coverage[2] /\ rates.completion[1] <= rates.completion[2]
  BY DEF QueueShowsEveryProblem
<1>1. ASSUME NEW s \in Slots, s.run = r, found[s].outcome # "pass" \/ found[s].error
      PROVE  \E i \in TriageQueue(r) : /\ i.case = s.case /\ i.side = <<r, s.key>>
                                       /\ CaseInfo[s.case].critical /\ found[s].outcome = "fail" => i.priority = 0
  <2> DEFINE side == <<r, s.key>>
             rows == RowsOf(side, s.case)
             sum == CaseSummary(rows)
  <2>1. rows \subseteq Slots /\ s \in rows /\ (s \notin Having(rows, "pass") \/ found[s].error)
        /\ (found[s].outcome = "fail" <=> s \in Having(rows, "fail"))
    BY <1>1 DEF RowsOf, Having
  <2> HIDE DEF rows
  <2>2. (found[s].outcome = "fail" => sum.fails > 0) /\ (sum.fails > 0 \/ sum.unresolved > 0 \/ sum.errors > 0)
    <3>1. (Having(rows, "fail") # {} => sum.fails > 0)
          /\ (rows \ (Having(rows, "pass") \cup Having(rows, "fail")) # {} => sum.unresolved > 0)
          /\ ((\E u \in rows : ~ran[u] \/ found[u].error) => sum.errors > 0)
      BY <2>1, SummaryCounts
    <3> QED BY <2>1, <3>1
  <2>3. Failing(sum)
    BY <2>2 DEF Failing
  <2>4. s.case \in CaseIds /\ s.key \in KeySet(r)
    BY <1>1, GateAssumption
  <2>5. Listed(s.case, side) \in TriageQueue(r)
    BY <2>3, <2>4, QueueIs DEF rows
  <2>6. CaseInfo[s.case].critical /\ found[s].outcome = "fail" => Listed(s.case, side).priority = 0
    BY <2>2 DEF Listed, Priority, rows
  <2>7. Listed(s.case, side).case = s.case /\ Listed(s.case, side).side = side
    BY DEF Listed
  <2> QED BY <2>5, <2>6, <2>7
<1>2. ASSUME NEW i \in TriageQueue(r)
      PROVE  /\ i = Listed(i.case, i.side)
             /\ i.representative \in RowsOf(i.side, i.case)
             /\ Having(RowsOf(i.side, i.case), "fail") # {} => found[i.representative].outcome = "fail"
             /\ found[i.representative].outcome = "pass" =>
                   /\ Having(RowsOf(i.side, i.case), "pass") = RowsOf(i.side, i.case)
                   /\ \E s \in RowsOf(i.side, i.case) : found[s].error
  <2>1. PICK case \in CaseIds, k \in KeySet(r) :
               Failing(CaseSummary(RowsOf(<<r, k>>, case))) /\ i = Listed(case, <<r, k>>)
    BY <1>2, QueueIs
  <2>2. i.case = case /\ i.side = <<r, k>> /\ i.representative = Representative(RowsOf(<<r, k>>, case))
    BY <2>1 DEF Listed
  <2>3. RowsOf(<<r, k>>, case) \subseteq Slots
    BY DEF RowsOf
  <2> QED BY <2>1, <2>2, <2>3, ShownByAProblem
<1>3. \A i, j \in TriageQueue(r) : i.case = j.case /\ i.side = j.side => i = j
  BY <1>2
<1>4. ASSUME NEW k \in KeySet(r)
      PROVE  LET rates == SlotRates(<<r, k>>)
                 each == [e \in CasesOf(<<r, k>>) |-> CaseSummary(RowsOf(<<r, k>>, e))]
             IN  /\ rates.yield = <<SumFunction([e \in DOMAIN each |-> each[e].passes]),
                                    SumFunction([e \in DOMAIN each |-> each[e].trials])>>
                 /\ rates.conditional[2] = SumFunction([e \in DOMAIN each |-> Graded(each[e])])
                 /\ rates.coverage[1] <= rates.coverage[2] /\ rates.completion[1] <= rates.completion[2]
  <2> DEFINE side == <<r, k>>
             rows == SideRows(side)
             sum == CaseSummary(rows)
             generated == Cardinality({s \in rows : ran[s]})
             rates == SlotRates(side)
  <2>1. /\ rates.yield = <<sum.passes, sum.trials>> /\ rates.conditional[2] = Graded(sum)
        /\ rates.coverage = <<Graded(sum), generated>> /\ rates.completion = <<generated, sum.trials>>
    BY DEF SlotRates
  <2>2. Graded(sum) <= generated /\ generated <= sum.trials
    <3>1. rows \subseteq Slots
      BY SidesAre
    <3> HIDE DEF rows
    <3> QED BY <3>1, SummaryCounts
  <2> HIDE DEF rates, generated, sum, rows
  <2>3. rates.coverage[1] <= rates.coverage[2] /\ rates.completion[1] <= rates.completion[2]
    BY <2>1, <2>2
  <2> QED BY <2>1, <2>3, CountedOnce DEF rates, sum, rows
<1> QED BY <1>1, <1>2, <1>3, <1>4

(* No problem is missing from the queue, and a run's rates count each of its trials once: *)
(* run_summary and triage_queue, after any grading, cancelling, regrading and review.     *)
THEOREM QueueIsComplete == GateSpec => []QueueShowsEveryProblem
<1>1. GateInit => GateInv
  BY GateStart
<1>2. GateInv /\ [GateNext]_gateVars => GateInv'
  BY GateStep
<1>3. GateInv => QueueShowsEveryProblem
  BY QueueSafe DEF GateInv
<1> QED BY <1>1, <1>2, <1>3, PTL DEF GateSpec
=============================================================================
