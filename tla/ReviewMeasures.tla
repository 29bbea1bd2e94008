---------------------------- MODULE ReviewMeasures ----------------------------
(***************************************************************************)
(* What is computed from the evaluations' reports, labels and reviews      *)
(* (evals/harness/grounding.py and metrics.py, claim_validity/study.py,    *)
(* recovery_v11/claim_score_results.py and followup_discrimination.py,     *)
(* run_gate_metrics.py), as pure operators.                                *)
(*                                                                         *)
(* A ratio is <<numerator, denominator>>; the programs' rounding and       *)
(* confidence intervals are left out, but for the rank a percentile is     *)
(* read at.  Thresholds are in hundredths.                                 *)
(***************************************************************************)
EXTENDS Integers, SequencesExt, FiniteSetsExt

Plus(p, q) == <<p[1] * q[2] + q[1] * p[2], p[2] * q[2]>>
Sum(f) == FoldFunction(Plus, <<0, 1>>, f)
Over(p, n) == <<p[1], p[2] * n>>
Mean(f) == Over(Sum(f), Cardinality(DOMAIN f))
AtMost(p, q) == p[1] * q[2] <= q[1] * p[2]
Same(p, q) == p[1] * q[2] = q[1] * p[2]

Tally(rows, Test(_)) == Len(SelectSeq(rows, Test))

-----------------------------------------------------------------------------
(***************************************************************************)
(* harness/grounding.py.  A word is spelt in pieces, that a text may start *)
(* in the middle of a word of another; the lists of stop words, negations  *)
(* and numbers are those of the texts it is checked on.                    *)
(***************************************************************************)
STOPWORDS == {<<"the">>}
NEGATION_TOKENS == {<<"never">>}
Numbers == {<<"3">>, <<"1", "3">>}
MinContent == 4
THETA == 90
THETA_BIGRAM == 60

ContentTokens(text) == SelectSeq(text, LAMBDA w : w \notin STOPWORDS)
Bigrams(tokens) == [k \in 1..Len(tokens) - 1 |-> <<tokens[k], tokens[k + 1]>>]

\* normalize: the words with a blank between any two.
Spelt(text) == FlattenSeq([k \in DOMAIN text |-> IF k = 1 THEN text[k] ELSE <<" ">> \o text[k]])

StandsIn(part, whole) ==
    \E k \in 0..Len(whole) - Len(part) : SubSeq(whole, k + 1, k + Len(part)) = part

\* At least this share of the list is in the set.
Covers(set, list, share) ==
    100 * Tally(list, LAMBDA x : x \in set) >= share * Len(list)

\* _guard.
Guarded(tokens, source) ==
    \E k \in DOMAIN tokens :
        tokens[k] \in NEGATION_TOKENS \/ tokens[k] \in Numbers \ ToSet(source)

(***************************************************************************)
(* classify: word for word, by its words, or neither.                      *)
(***************************************************************************)
Classify(evidence, answers, theta) ==
    LET tokens == ContentTokens(evidence)
        source == ContentTokens(FlattenSeq(answers))
    IN  IF Len(tokens) < MinContent THEN "none"
        ELSE IF StandsIn(Spelt(evidence), Spelt(FlattenSeq(answers))) THEN "exact"
        ELSE IF /\ ~Guarded(tokens, source)
                /\ Covers(ToSet(Bigrams(source)), Bigrams(tokens), THETA_BIGRAM)
                /\ Covers(ToSet(source), tokens, theta)
        THEN "lexical"
        ELSE "none"

-----------------------------------------------------------------------------
(***************************************************************************)
(* Binary classification: rows of [truth, predicted].                      *)
(***************************************************************************)
Cell(truth, predicted) ==
    IF predicted THEN IF truth THEN "tp" ELSE "fp" ELSE IF truth THEN "fn" ELSE "tn"

Cells == {"tp", "fp", "fn", "tn"}

Confusion(rows) == [cell \in Cells |-> Tally(rows, LAMBDA r : Cell(r.truth, r.predicted) = cell)]

\* harness.metrics: the cells that are not one of three are the fourth.
ConfusionByRest(rows) ==
    LET tp == Tally(rows, LAMBDA r : r.truth /\ r.predicted)
        fp == Tally(rows, LAMBDA r : ~r.truth /\ r.predicted)
        fn == Tally(rows, LAMBDA r : r.truth /\ ~r.predicted)
    IN  [tp |-> tp, fp |-> fp, fn |-> fn, tn |-> Len(rows) - tp - fp - fn]

Undefined == <<0, 0>>
Share(part, whole) == IF whole = 0 THEN Undefined ELSE <<part, whole>>

Precision(c) == Share(c.tp, c.tp + c.fp)
Recall(c) == Share(c.tp, c.tp + c.fn)
Specificity(c) == Share(c.tn, c.tn + c.fp)

\* harness.metrics counts; run_gate_metrics takes the harmonic mean, when both are positive.
F1(c) == IF 2 * c.tp + c.fp + c.fn = 0 THEN <<0, 1>> ELSE <<2 * c.tp, 2 * c.tp + c.fp + c.fn>>

HarmonicF1(c) ==
    LET p == Precision(c)
        r == Recall(c)
    IN  IF p[1] = 0 \/ r[1] = 0 THEN <<0, 1>>
        ELSE <<2 * p[1] * r[1], p[1] * r[2] + r[1] * p[2]>>

(***************************************************************************)
(* run_gate_metrics: whether an occupation is used, with its best score    *)
(* and the relevance of its core tasks; then over every threshold.         *)
(***************************************************************************)
Used(case, floor, threshold) ==
    case.top >= floor /\ \E k \in DOMAIN case.relevances : case.relevances[k] >= threshold

BestRelevance(case) == IF case.relevances = <<>> THEN 0 ELSE Max(ToSet(case.relevances))

Predictions(cases, predicted) ==
    [k \in DOMAIN cases |-> [truth |-> cases[k].correct, predicted |-> predicted[k]]]

Shipped(cases, floor, threshold) ==
    Confusion(Predictions(cases, [k \in DOMAIN cases |-> Used(cases[k], floor, threshold)]))

Thresholds(cases) == {BestRelevance(cases[k]) : k \in DOMAIN cases} \cup {0}

Sweep(cases, floor) ==
    [t \in Thresholds(cases) |->
        Confusion(Predictions(cases,
            [k \in DOMAIN cases |-> cases[k].top >= floor /\ BestRelevance(cases[k]) >= t]))]

-----------------------------------------------------------------------------
(***************************************************************************)
(* Follow-ups: a human label, the model's decision and the final route.    *)
(* followup_metrics leaves the ambiguous out, then counts them either way. *)
(***************************************************************************)
Labels == {"warranted", "not_warranted", "ambiguous"}

Judged(rows, decision) ==
    LET clear == SelectSeq(rows, LAMBDA r : r.label # "ambiguous")
    IN  [k \in DOMAIN clear |-> [truth |-> clear[k].label = "warranted",
                                 predicted |-> clear[k][decision] = "follow_up"]]

Forced(rows, truth) ==
    LET unclear == SelectSeq(rows, LAMBDA r : r.label = "ambiguous")
    IN  Judged(rows, "route")
          \o [k \in DOMAIN unclear |-> [truth |-> truth, predicted |-> unclear[k].route = "follow_up"]]

(***************************************************************************)
(* build_metrics: where the policy's route is not the model's decision.    *)
(***************************************************************************)
Category(label, decision) ==
    IF label = "ambiguous" THEN "ambiguous" ELSE Cell(label = "warranted", decision = "follow_up")

Overrides(rows) ==
    LET of == SelectSeq(rows, LAMBDA r : r.raw # r.route)
    IN  [k \in DOMAIN of |-> [raw |-> Category(of[k].label, of[k].raw),
                              routed |-> Category(of[k].label, of[k].route)]]

-----------------------------------------------------------------------------
(***************************************************************************)
(* Discrimination: scores[job][tier].                                      *)
(***************************************************************************)
Tiers == {"strong", "mixed", "weak"}

JobPairs(scores) == (DOMAIN scores) \X (DOMAIN scores)

Above(scores, tier, other) ==
    Cardinality({p \in JobPairs(scores) : scores[p[1]][tier] > scores[p[2]][other]})

CliffsDelta(scores, tier, other) ==
    <<Above(scores, tier, other) - Above(scores, other, tier), Cardinality(JobPairs(scores))>>

Overlap(scores) ==
    <<Cardinality({p \in JobPairs(scores) : scores[p[1]].weak >= scores[p[2]].strong}),
      Cardinality(JobPairs(scores))>>

StrictlyOrdered(job) == job.strong > job.mixed /\ job.mixed > job.weak
OrderedJobs(scores) == Cardinality({j \in DOMAIN scores : StrictlyOrdered(scores[j])})

GatePassed(scores) ==
    /\ AtMost(<<1, 2>>, CliffsDelta(scores, "strong", "weak"))
    /\ AtMost(Overlap(scores), <<1, 5>>)
    /\ 10 * OrderedJobs(scores) >= 8 * Cardinality(DOMAIN scores)

\* Two tiers of different jobs may overlap though each job is in order.
PooledOverlap(scores, tier, other) ==
    Min({scores[j][tier] : j \in DOMAIN scores}) <= Max({scores[j][other] : j \in DOMAIN scores})

(***************************************************************************)
(* nearest_rank, the percentile in hundredths.                             *)
(***************************************************************************)
NearestRank(values, percentile) ==
    SortSeq(values, <)[(Len(values) * percentile + 99) \div 100]

-----------------------------------------------------------------------------
(***************************************************************************)
(* The reviews, counted: rows of [report, job, tier, verdict, ...].        *)
(***************************************************************************)
ClaimVerdicts == {"SUPPORTED", "PARTIALLY_SUPPORTED", "UNSUPPORTED", "UNCLEAR"}

Distribution(rows, options) ==
    [n |-> Len(rows), counts |-> [v \in options |-> Tally(rows, LAMBDA r : r.verdict = v)]]

Grouped(rows, field) ==
    [key \in {r[field] : r \in ToSet(rows)} |-> SelectSeq(rows, LAMBDA r : r[field] = key)]

(***************************************************************************)
(* analyze and aggregate: over all rows and over those of each report, job,*)
(* target, band or tier; the rate of a job or a tier is the mean of its    *)
(* reports' rates, for a report counts once however many claims it has.    *)
(***************************************************************************)
By(rows, field, options) ==
    LET of == Grouped(rows, field) IN [key \in DOMAIN of |-> Distribution(of[key], options)]

Rates(rows, verdict) ==
    LET of == Grouped(rows, "report")
    IN  [report \in DOMAIN of |-> <<Tally(of[report], LAMBDA r : r.verdict = verdict), Len(of[report])>>]

\* Variant: a report counts as often as it has claims.
ReportMeanPooled(rows, verdict) == <<Tally(rows, LAMBDA r : r.verdict = verdict), Len(rows)>>

ReportMean(rows, verdict) == Mean(Rates(rows, verdict))

MeanBy(rows, field, verdict) ==
    LET of == Grouped(rows, field) IN [key \in DOMAIN of |-> Mean(Rates(of[key], verdict))]

-----------------------------------------------------------------------------
(***************************************************************************)
(* Another answer to look in never takes back that a string was found, and *)
(* neither does a lower threshold of the sensitivity table.                *)
(***************************************************************************)
GroundingIsMonotone(evidence, answers) ==
    /\ \A a \in DOMAIN answers :
          Classify(evidence, <<answers[a]>>, THETA) # "none" => Classify(evidence, answers, THETA) # "none"
    /\ \A low, high \in {70, 80, THETA} :
          low <= high /\ Classify(evidence, answers, high) # "none" =>
             Classify(evidence, answers, low) # "none"

(***************************************************************************)
(* The two ways the cells are counted agree, as build_metrics demands; the *)
(* routed cells are the model's, moved by the overrides it lists; and no   *)
(* ambiguous label, counted as unwarranted, raises F1.                     *)
(***************************************************************************)
FollowUpsReconcile(rows) ==
    LET routed == Confusion(Judged(rows, "route"))
        raw == Confusion(Judged(rows, "raw"))
        moved == Overrides(rows)
    IN  /\ ConfusionByRest(Judged(rows, "route")) = routed
        /\ \A cell \in Cells :
              routed[cell] = raw[cell] - Tally(moved, LAMBDA m : m.raw = cell)
                                       + Tally(moved, LAMBDA m : m.routed = cell)
        /\ AtMost(F1(Confusion(Forced(rows, FALSE))), F1(routed))

(***************************************************************************)
(* The row of the sweep at the threshold that ships is what ships; a       *)
(* higher threshold uses no occupation a lower one refuses; and the        *)
(* harmonic mean is F1.                                                    *)
(***************************************************************************)
SweepMeetsShipped(cases, floor) ==
    LET sweep == Sweep(cases, floor)
    IN  /\ \A t \in DOMAIN sweep \ {0} : sweep[t] = Shipped(cases, floor, t)
        /\ \A t, u \in DOMAIN sweep : t < u =>
              /\ AtMost(Recall(sweep[u]), Recall(sweep[t]))
              /\ AtMost(Specificity(sweep[t]), Specificity(sweep[u]))
        /\ \A t \in DOMAIN sweep : Same(HarmonicF1(sweep[t]), F1(sweep[t]))

(***************************************************************************)
(* Delta and overlap are two views of the same pairs - so the gate's bound *)
(* on the one follows from its bound on the other - and tiers that do not  *)
(* overlap over all jobs pass the gate.                                    *)
(***************************************************************************)
DiscriminationAgrees(scores) ==
    LET delta == CliffsDelta(scores, "strong", "weak")
        overlap == Overlap(scores)
    IN  /\ CliffsDelta(scores, "weak", "strong") = <<-delta[1], delta[2]>>
        /\ delta[1] \in overlap[2] - 2 * overlap[1]..overlap[2] - overlap[1]
        /\ ~PooledOverlap(scores, "strong", "mixed") /\ ~PooledOverlap(scores, "mixed", "weak") =>
              GatePassed(scores)

(***************************************************************************)
(* That share of the values is no greater, and no smaller value will do.   *)
(***************************************************************************)
RankIsPercentile(values, percentile) ==
    LET at == NearestRank(values, percentile)
    IN  /\ Covers({v \in ToSet(values) : v <= at}, values, percentile)
        /\ 100 * Tally(values, LAMBDA v : v < at) < percentile * Len(values)

(***************************************************************************)
(* Every review is in one group of each breakdown, and the mean over all   *)
(* reports is that of the jobs' means and of the tiers', for every job has *)
(* as many reports as another; where every report has as many reviews it   *)
(* is the pooled share.                                                    *)
(***************************************************************************)
ReviewsAddUp(rows, options) ==
    \A v \in options :
        LET pooled == Distribution(rows, options)
            mean == ReportMean(rows, v)
        IN  /\ \A field \in {"report", "job", "tier"} :
                  LET by == By(rows, field, options)
                  IN  /\ FoldFunction(LAMBDA d, n : d.counts[v] + n, 0, by) = pooled.counts[v]
                      /\ FoldFunction(LAMBDA d, n : d.n + n, 0, by) = pooled.n
            /\ \A field \in {"job", "tier"} : Same(Mean(MeanBy(rows, field, v)), mean)
            /\ (\A g, h \in ToSet([k \in DOMAIN rows |-> rows[k].report]) :
                   By(rows, "report", options)[g].n = By(rows, "report", options)[h].n) =>
                  Same(mean, <<pooled.counts[v], pooled.n>>)
=============================================================================
