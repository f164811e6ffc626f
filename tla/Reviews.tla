------------------------------- MODULE Reviews -------------------------------
(*****************************************************************************)
(* Human review of the trials of one run and their promotion to regression   *)
(* data (api/routes/reviews.py, summaries.py).  Reviews are appended and may *)
(* supersede an earlier review of their trial; the latest one that is not    *)
(* superseded speaks for the trial.  A promotion writes a new version of a   *)
(* dataset, starting from the version it names, or the first of a new one.   *)
(*****************************************************************************)
EXTENDS Integers, Sequences, FiniteSets, SequencesExt, Functions

CONSTANTS Reviewed,    \* the trials under review
          SourceId,    \* trial -> external_id of its case
          ClusterOf,   \* trial -> cluster_id of its case
          Renamed,     \* external ids a promotion may give its case
          Taken,       \* bound: the decisions that are taken
          MaxReviews,  \* bound: reviews
          MaxVersions  \* bound: dataset versions


VARIABLES reviews,  \* the Review rows by creation: [trial, decision, supersedes]
          datasets  \* the DatasetVersion rows by creation: [parent, logical, version, name, cases]

reviewVars == <<reviews, datasets>>

Decisions == {"confirm_failure", "acceptable_variation", "ambiguous", "grader_incorrect", "request_more_trials",
              "promote_to_regression"}

ASSUME ReviewAssumption ==
    /\ MaxReviews \in Nat /\ MaxVersions \in Nat /\ Taken \subseteq Decisions
    /\ IsFiniteSet(Reviewed) /\ DOMAIN SourceId = Reviewed

Promotable == {"promote_to_regression", "confirm_failure"}

(* What the decision says of the outcome; only "fail" and "pass" overrule the machine. *)
Human(decision) ==
    CASE decision = "confirm_failure" -> "fail"
      [] decision = "acceptable_variation" -> "pass"
      [] decision = "grader_incorrect" -> "disputed"
      [] decision = "ambiguous" -> "ambiguous"
      [] OTHER -> "none"

ReviewIds == DOMAIN reviews
SupersededReviews == {reviews[i].supersedes : i \in ReviewIds}
CurrentReviews(t) == {i \in ReviewIds : reviews[i].trial = t /\ i \notin SupersededReviews}

(* The review that speaks for a trial, 0 if there is none. *)
LatestReview(t) == FoldSet(LAMBDA i, latest : IF i > latest THEN i ELSE latest, 0, CurrentReviews(t))

Adjudicated(t, machine) ==
    LET human == IF LatestReview(t) = 0 THEN "none" ELSE Human(reviews[LatestReview(t)].decision)
    IN  IF human \in {"pass", "fail"} THEN human ELSE machine

(* slip: an earlier review may be superseded a second time *)
AnyEarlier(t, i) == i = 0 \/ (i \in ReviewIds /\ reviews[i].trial = t)

MaySupersede(t, i) == i = 0 \/ (i \in ReviewIds /\ reviews[i].trial = t /\ i \notin SupersededReviews)

CreateReview(t) ==
    /\ Len(reviews) < MaxReviews
    /\ \E decision \in Taken, i \in 0 .. Len(reviews) :
         /\ MaySupersede(t, i)
         /\ reviews' = Append(reviews, [trial |-> t, decision |-> decision, supersedes |-> i])
    /\ UNCHANGED datasets

-----------------------------------------------------------------------------
(* Promotion. *)

MayPromote(item) ==
    /\ reviews[item.review].trial = item.trial /\ item.review \notin SupersededReviews
    /\ reviews[item.review].decision \in Promotable

(* A case takes the place of the one with its external id, or comes last. *)
Placed(cases, item) ==
    LET case == [id |-> item.id, cluster |-> ClusterOf[item.trial], split |-> "regression",
                 trial |-> item.trial, review |-> item.review]
    IN  IF \E k \in DOMAIN cases : cases[k].id = item.id
        THEN [k \in DOMAIN cases |-> IF cases[k].id = item.id THEN case ELSE cases[k]]
        ELSE Append(cases, case)

(* validate_cases refuses a cluster that spans splits. *)
NoLeak(cases) == \A j, k \in DOMAIN cases : cases[j].cluster = cases[k].cluster => cases[j].split = cases[k].split

(* create_dataset_version: the version that says the same, or the next one. *)
Stored(logical, name, cases, parent) ==
    LET same == {d \in DOMAIN datasets : /\ datasets[d].name = name /\ datasets[d].cases = cases
                                         /\ parent # 0 => datasets[d].logical = logical}
        version == 1 + Cardinality({d \in DOMAIN datasets : datasets[d].logical = logical})
    IN  IF same # {} THEN datasets
        ELSE Append(datasets, [parent |-> parent, logical |-> logical, version |-> version, name |-> name, cases |-> cases])

Promote(target, items) ==
    LET start == IF target = 0 THEN <<>> ELSE datasets[target].cases
        cases == FoldLeft(Placed, start, items)
    IN  /\ NoLeak(cases)
        /\ datasets' = IF target = 0 THEN Stored(Len(datasets) + 1, "regression", cases, 0)
                       ELSE Stored(datasets[target].logical, datasets[target].name, cases, target)
        /\ Len(datasets') <= MaxVersions
        /\ UNCHANGED reviews

(* The items a promotion accepts; its case keeps the external id of its source or is renamed. *)
Items == {item \in [trial : Reviewed, review : ReviewIds, id : Range(SourceId) \cup Renamed] :
             item.id \in {SourceId[item.trial]} \cup Renamed /\ MayPromote(item)}

(* The dataset of the run is the first version; several trials may be of one of its cases. *)
SourceCase(id) ==
    LET t == CHOOSE t \in Reviewed : SourceId[t] = id
    IN  [id |-> id, cluster |-> ClusterOf[t], split |-> "test", trial |-> t, review |-> 0]

ReviewInit ==
    /\ reviews = <<>>
    /\ datasets = <<[parent |-> 0, logical |-> 1, version |-> 1, name |-> "source",
                     cases |-> SetToSeq({SourceCase(id) : id \in Range(SourceId)})]>>

ReviewNext ==
    \/ \E t \in Reviewed : CreateReview(t)
    \/ \E target \in 0 .. Len(datasets), n \in 1 .. 2 : \E items \in [1 .. n -> Items] : Promote(target, items)

ReviewSpec == ReviewInit /\ [][ReviewNext]_reviewVars

-----------------------------------------------------------------------------
(* One review speaks for a trial and only a person who supersedes it takes that away:         *)
(* supersession never forks and stays within a trial, so whoever reviewed is still heard      *)
(* and the adjudicated outcome differs from the machine's only by a review; every             *)
(* regression case goes back to a review that confirmed it, whatever was replaced or          *)
(* renamed since; a version keeps the cases of the one it started from, no cluster spans      *)
(* splits and no version of a dataset is stored twice.  (create_review, adjudicated, promote) *)
ReviewsAreTraceable ==
    /\ \A i, j \in ReviewIds : i # j /\ reviews[i].supersedes # 0 => reviews[i].supersedes # reviews[j].supersedes
    /\ \A t \in Reviewed :
         LET mine == {i \in ReviewIds : reviews[i].trial = t} IN
         /\ mine # {} <=> LatestReview(t) \in mine
         /\ \A machine \in {"pass", "fail", "unresolved"} : Adjudicated(t, machine) # machine =>
                \E i \in CurrentReviews(t) : Human(reviews[i].decision) = Adjudicated(t, machine)
    /\ \A d \in DOMAIN datasets :
         LET row == datasets[d] IN
         /\ \A k \in DOMAIN row.cases : row.cases[k].split = "regression" =>
                /\ reviews[row.cases[k].review].decision \in Promotable
                /\ reviews[row.cases[k].review].trial = row.cases[k].trial
         /\ row.parent # 0 =>
                {c.id : c \in Range(datasets[row.parent].cases)} \subseteq {c.id : c \in Range(row.cases)}
         /\ Cardinality({c.id : c \in Range(row.cases)}) = Len(row.cases) /\ NoLeak(row.cases)
         /\ \A e \in DOMAIN datasets : e # d /\ datasets[e].logical = row.logical =>
                datasets[e].version # row.version /\ datasets[e].cases # row.cases
=============================================================================
