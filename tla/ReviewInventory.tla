--------------------------- MODULE ReviewInventory ---------------------------
(***************************************************************************)
(* What the reviewers of the claim and evidence studies are given, and     *)
(* what is computed again from the reports before they see it              *)
(* (evals/claim_validity/study.py, evals/recovery_v11/audit.py,            *)
(* evidence_aggregate.py and claim_score_results.py), as pure operators    *)
(* over one persona's report.                                              *)
(*                                                                         *)
(* A text is the key it is deduplicated by, its words in lower case, and   *)
(* NoText a blank one.  Answer k belongs to question k.  Scores are in     *)
(* hundredths, an unscored answer's is negative; the overall score is in   *)
(* ten-thousandths.                                                        *)
(***************************************************************************)
EXTENDS ReviewMeasures, Sorting

\* "Full interview": the context of what is not about one answer.
Full == 0
NoText == ""

Kinds == <<"strengths", "weaknesses">>

ReviewedQuestion == [sampled : BOOLEAN, strengths : Seq(STRING), weaknesses : Seq(STRING)]
ReviewedReport ==
    [questions : Seq(ReviewedQuestion), summary : Seq(STRING), strengths : Seq(STRING),
     weaknesses : Seq(STRING)]

(***************************************************************************)
(* Every assertion of a report in the order they are extracted: those of   *)
(* the sampled questions, the sentences of the summary, the report's own   *)
(* lists.                                                                  *)
(***************************************************************************)
Assertions(report) ==
    LET at(place, texts, source) ==
            [j \in DOMAIN texts |-> [location |-> <<place, j>>, text |-> texts[j], source |-> source]]
        ofQuestion(k) ==
            IF report.questions[k].sampled
            THEN FlattenSeq([i \in 1..2 |-> at(<<k, Kinds[i]>>, report.questions[k][Kinds[i]], k)])
            ELSE <<>>
    IN  FlattenSeq([k \in DOMAIN report.questions |-> ofQuestion(k)])
          \o at(<<Full, "summary">>, report.summary, Full)
          \o FlattenSeq([i \in 1..2 |-> at(<<Full, Kinds[i]>>, report[Kinds[i]], Full)])

\* Variant: the claim keeps the answer it was first read from.
AddClaimNarrow(claims, assertion) ==
    LET known == {c \in DOMAIN claims : claims[c].text = assertion.text}
    IN  IF assertion.text = NoText THEN claims
        ELSE IF known = {}
        THEN Append(claims, [text |-> assertion.text, context |-> assertion.source,
                             locations |-> <<assertion.location>>])
        ELSE [claims EXCEPT ![Min(known)].locations = Append(@, assertion.location)]

(***************************************************************************)
(* _add_claim: a text said again is the same claim at one more place; said *)
(* of another answer, it is judged against the whole interview.            *)
(***************************************************************************)
AddClaim(claims, assertion) ==
    LET known == {c \in DOMAIN claims : claims[c].text = assertion.text}
    IN  IF assertion.text = NoText THEN claims
        ELSE IF known = {}
        THEN Append(claims, [text |-> assertion.text, context |-> assertion.source,
                             locations |-> <<assertion.location>>])
        ELSE [claims EXCEPT ![Min(known)].locations = Append(@, assertion.location),
                            ![Min(known)].context = IF @ # assertion.source THEN Full ELSE @]

Claims(report) ==
    LET of == Assertions(report)
        claims[k \in 0..Len(of)] == IF k = 0 THEN <<>> ELSE AddClaim(claims[k - 1], of[k])
    IN  claims[Len(of)]

\* The place a blind reviewer is shown: the area, not which list it is from.
BlindLocation(claim) == claim.locations[1][1][1]

-----------------------------------------------------------------------------
Weights == [competency |-> 4, technology |-> 4, task |-> 2]

ScoredQuestion == [category : DOMAIN Weights, score : -1..100]

(***************************************************************************)
(* calculated_score_and_recommendation.  claim_score_results computes it a *)
(* third time, from a copy of the same lines.  A category's weighted mean  *)
(* is a fraction; the score is rounded once.                               *)
(***************************************************************************)
CalculatedScore(questions) ==
    LET of(c) == Sublist(questions, {k \in DOMAIN questions :
                                       questions[k].score >= 0 /\ questions[k].category = c})
        by == {c \in DOMAIN Weights : of(c) # <<>>}
        weighted(c) == IF c \notin by THEN <<0, 1>>
                       ELSE <<Weights[c] * Total([k \in DOMAIN of(c) |-> of(c)[k].score]), Len(of(c))>>
        weight(c) == IF c \in by THEN Weights[c] ELSE 0
        total == Plus(Plus(weighted("competency"), weighted("technology")), weighted("task"))
        all == (weight("competency") + weight("technology") + weight("task")) * total[2]
    IN  IF by = {} THEN 0 ELSE (200 * total[1] + all) \div (2 * all)

Calculated(questions) ==
    LET score == CalculatedScore(questions)
    IN  <<score, IF score >= 8500 THEN "strong_hire" ELSE IF score >= 6500 THEN "hire"
                 ELSE IF score >= 4500 THEN "consider" ELSE "no_hire">>

-----------------------------------------------------------------------------
(***************************************************************************)
(* Where an evidence string is found.  tiers[a] is how the grounding       *)
(* classifier finds it in answer a: word for word, by its words, or not.   *)
(***************************************************************************)
Status(own, tiers) ==
    LET matches == {a \in DOMAIN tiers : tiers[a] # "none"}
    IN  IF matches = {own}
        THEN IF tiers[own] = "exact" THEN "unique_target_exact" ELSE "lexical_target_requires_review"
        ELSE IF Cardinality(matches) = 1 THEN "unique_other_source_requires_review"
        ELSE IF matches # {} THEN "ambiguous_sources"
        ELSE "unattributable_automatically"

NeedsReview(own, tiers) == Status(own, tiers) # "unique_target_exact"

(***************************************************************************)
(* A reviewer's judgment of a string, as validate_review accepts it.       *)
(***************************************************************************)
Judgments(answers) ==
    {j \in [verdict : {"supported", "unsupported", "cannot_tell"}, sources : SUBSET answers] :
        j.verdict = "supported" => j.sources # {}}

(***************************************************************************)
(* evidence_aggregate.calculate's column for one string; cross: supported, *)
(* but not by the answer it was recorded for.                              *)
(***************************************************************************)
Counted(own, tiers, judgment) ==
    IF ~NeedsReview(own, tiers) THEN [column |-> "automatically_attributed", cross |-> FALSE]
    ELSE IF judgment.verdict = "supported"
    THEN [column |-> "human_supported", cross |-> own \notin judgment.sources]
    ELSE [column |-> judgment.verdict, cross |-> FALSE]
=============================================================================
