---------------------------- MODULE ReportScoring ----------------------------
(***************************************************************************)
(* The numbers and lists of an interview report                            *)
(* (services/report_scoring.py and the deterministic half of               *)
(* services/report_generation.py), as pure operators over the plan's       *)
(* coverage targets and the turns on record.                               *)
(*                                                                         *)
(* A turn is [root, question_id, evaluation, method]; a blank answer's     *)
(* evaluation is Unevaluated.  Scores of turns are in hundredths; the      *)
(* overall score, rounded to four decimals, in ten-thousandths.            *)
(***************************************************************************)
EXTENDS InterviewPlan, Sorting, SequencesExt, FiniteSetsExt

CONSTANT ListLimit     \* _FALLBACK_LIST_LIMIT

ASSUME ListLimitAssumption == ListLimit \in Nat

Unevaluated == [score |-> -1, type |-> "none", evidence |-> <<>>, strengths |-> <<>>,
                weaknesses |-> <<>>]

\* What of an evaluation goes on record: scored, or nothing was said.
Substance(e) == [part \in DOMAIN Unevaluated |-> e[part]]

TurnEvaluation ==
    [score : 0..100, type : STRING, evidence : Seq(STRING), strengths : Seq(STRING),
     weaknesses : Seq(STRING)]

Upto(s, n) == SubSeq(s, 1, Min({n, Len(s)}))

(***************************************************************************)
(* flatten_unique.                                                         *)
(***************************************************************************)
FlattenUnique(lists) ==
    LET all == FlattenSeq(lists)
    IN  Sublist(all, {k \in DOMAIN all : \A j \in 1..k - 1 : all[j] # all[k]})

Scored(evaluation) == evaluation.score >= 0

Strength(score) ==
    CASE score < 0 -> "not_assessed"
      [] score \in 0..34 -> "insufficient"
      [] score \in 35..59 -> "limited"
      [] score \in 60..79 -> "moderate"
      [] OTHER -> "strong"

-----------------------------------------------------------------------------
TurnsOf(turns, t) == Sublist(turns, {k \in DOMAIN turns : turns[k].root = t})

(***************************************************************************)
(* One target's summary: its last turn decides the outcome and what is     *)
(* still open; what it showed accumulates over all of them.                *)
(***************************************************************************)
Summary(turns, t) ==
    LET own == TurnsOf(turns, t)
        last == Last(own)
        all(part(_)) == FlattenUnique([k \in DOMAIN own |-> part(own[k].evaluation)])
    IN  [target |-> t, question_id |-> last.question_id, score |-> last.evaluation.score,
         type |-> last.evaluation.type, method |-> last.method,
         evidence |-> all(LAMBDA e : e.evidence), strengths |-> all(LAMBDA e : e.strengths),
         weaknesses |-> last.evaluation.weaknesses]

(***************************************************************************)
(* build_question_evaluations, in order of first appearance.  Every target *)
(* has one summary, so build_competency_assessments, which groups them by  *)
(* target again, takes each over as it is.                                 *)
(***************************************************************************)
QuestionEvaluations(targets, turns) ==
    LET roots == FlattenUnique([k \in DOMAIN turns |-> <<turns[k].root>>])
        known == Sublist(roots, {k \in DOMAIN roots : roots[k] \in DOMAIN targets})
    IN  [k \in DOMAIN known |-> Summary(turns, known[k])]

\* Variant: reached is told by the turn's own id, a follow-up's where there was one.
UnassessedByQuestionId(targets, summaries) ==
    InOrder({t \in DOMAIN targets :
               /\ targets[t].required
               /\ \A k \in DOMAIN summaries : summaries[k].question_id # <<t, 0>>})

(***************************************************************************)
(* build_unassessed_required_targets, as positions in the plan.            *)
(***************************************************************************)
UnassessedRequired(targets, summaries) ==
    InOrder({t \in DOMAIN targets :
               /\ targets[t].required
               /\ \A k \in DOMAIN summaries : summaries[k].target # t})

-----------------------------------------------------------------------------
CategoryWeight == [competency |-> 4, technology |-> 4, task |-> 2]

ScoresIn(targets, summaries, category) ==
    Sublist(summaries, {k \in DOMAIN summaries :
                          Scored(summaries[k]) /\ targets[summaries[k].target].category = category})

SumOfScores(scored) == Total([k \in DOMAIN scored |-> scored[k].score])

(***************************************************************************)
(* compute_overall_score: the mean of each category with a score, weighted *)
(* over those categories; 0 when nothing was scored.  Computed over one    *)
(* common divisor and rounded once.                                        *)
(***************************************************************************)
OverallScore(targets, summaries) ==
    LET scored(c) == ScoresIn(targets, summaries, c)
        weight(c) == IF scored(c) = <<>> THEN 0 ELSE CategoryWeight[c]
        count(c) == Max({1, Len(scored(c))})
        weighted(c, others) == weight(c) * SumOfScores(scored(c)) * others
        sum == weighted("competency", count("technology") * count("task"))
                 + weighted("technology", count("competency") * count("task"))
                 + weighted("task", count("competency") * count("technology"))
        weights == (weight("competency") + weight("technology") + weight("task"))
                     * (count("competency") * count("technology") * count("task"))
    IN  IF weights = 0 THEN 0 ELSE (200 * sum + weights) \div (2 * weights)

DeriveRecommendation(score) ==
    CASE score >= 8500 -> "strong_hire"
      [] score \in 6500..8499 -> "hire"
      [] score \in 4500..6499 -> "consider"
      [] OTHER -> "no_hire"

-----------------------------------------------------------------------------
(***************************************************************************)
(* Python's sorted is stable: by key, then by place.                       *)
(***************************************************************************)
StableSort(summaries, keys) ==
    LET before == {p \in (DOMAIN keys) \X (DOMAIN keys) :
                     keys[p[1]] < keys[p[2]] \/ (keys[p[1]] = keys[p[2]] /\ p[1] < p[2])}
        order == OrderedBy(DOMAIN keys, before)
    IN  [k \in DOMAIN order |-> summaries[order[k]]]

(***************************************************************************)
(* build_strengths: the first strength of each target, best first.         *)
(***************************************************************************)
BuildStrengths(summaries) ==
    LET ranked == StableSort(summaries, [k \in DOMAIN summaries |-> -Max({0, summaries[k].score})])
        named == Sublist(ranked, {k \in DOMAIN ranked : ranked[k].strengths # <<>>})
    IN  Upto([k \in DOMAIN named |-> <<named[k].target, named[k].strengths[1]>>], ListLimit)

ExploreRank == [not_assessed |-> 0, insufficient |-> 1, limited |-> 2, moderate |-> 3, strong |-> 4]

(***************************************************************************)
(* build_areas_to_explore: one note a target, least evidence first; where  *)
(* no weakness is recorded, the gap its type of evidence leaves.           *)
(***************************************************************************)
BuildAreasToExplore(summaries) ==
    LET ranked == StableSort(summaries,
                     [k \in DOMAIN summaries |-> ExploreRank[Strength(summaries[k].score)]])
        open == Sublist(ranked, {k \in DOMAIN ranked :
                                   \/ ranked[k].weaknesses # <<>>
                                   \/ Strength(ranked[k].score) \in {"insufficient", "not_assessed"}})
        note(s) == IF s.weaknesses # <<>> THEN s.weaknesses[1] ELSE s.type
    IN  Upto([k \in DOMAIN open |-> <<open[k].target, note(open[k])>>], ListLimit)

MaxNamed == 6

(***************************************************************************)
(* The template the report falls back to: what was asked about without     *)
(* showing enough, and what was never reached.                             *)
(***************************************************************************)
DeterministicSummary(score, summaries, unassessed) ==
    LET gaps == Sublist(summaries, {k \in DOMAIN summaries :
                                      Strength(summaries[k].score) \in {"insufficient", "not_assessed"}})
    IN  [band |-> Strength(score \div 100), recommendation |-> DeriveRecommendation(score),
         insufficient |-> Upto([k \in DOMAIN gaps |-> gaps[k].target], MaxNamed),
         unassessed |-> Upto(unassessed, MaxNamed)]
=============================================================================
