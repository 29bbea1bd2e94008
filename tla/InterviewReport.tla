--------------------------- MODULE InterviewReport ---------------------------
(***************************************************************************)
(* One job from its description to the report of an interview for it: the  *)
(* plan is built (PlanBuilding), its targets are selected, asked about and *)
(* answered (TargetSelection, CrossTargetEvidence), and a report is made   *)
(* of the turns on record (ReportScoring).                                 *)
(*                                                                         *)
(* The loop is InterviewLoop's, told by whole exchanges and with what that *)
(* module leaves out: the wording calls of services/question_generation.py *)
(* and the content of evaluations.  Asking includes the node that selects, *)
(* answering the one that evaluates.                                       *)
(***************************************************************************)
EXTENDS TargetSelection, CrossTargetEvidence, PlanBuilding, ReportScoring

CONSTANTS Specs,          \* job descriptions
          Matches,        \* what the knowledge base may say of one
          Replies,        \* what a wording call may return: sequences of [category, name]
          Evaluations,    \* what the evaluator may say of an answer
          MaxFollowUps

Narratives == {"prose", "blank", "failed"}

(***************************************************************************)
(* Inputs in the shapes their schemas give them (JobSpec, the evaluator's  *)
(* result); matches are what PlanBuilding says, for this knowledge base.   *)
(***************************************************************************)
ASSUME InterviewReportAssumption ==
    /\ \A s \in Specs : IsJobSpec(s)
    /\ Matches \subseteq JobMatches
    /\ Replies \subseteq Seq(Seq([category : Categories, name : Names]))
    /\ \A e \in Evaluations :
          /\ Substance(e) \in TurnEvaluation
          /\ e.question \in BOOLEAN
          /\ e.cross_target_evidence \subseteq Evidence
    /\ MaxFollowUps \in Nat

VARIABLES spec, match,    \* the job description and its occupation match
          plan,
          stage,
          assessed,       \* assessed_target_ids
          asked,          \* asked_question_ids
          current,        \* the target being asked about, 0 for none
          wording,        \* the [category, name] the question's wording was requested and given for
          follow_ups,     \* follow-ups used on it
          turns,          \* history
          report

vars == <<spec, match, plan, stage, assessed, asked, current, wording, follow_ups, turns, report>>

NoReport == [narrative |-> "none"]

Init ==
    /\ spec \in Specs
    /\ match \in Matches
    /\ plan = [coverage_targets |-> <<>>]
    /\ stage = "planning"
    /\ assessed = {}
    /\ asked = <<>>
    /\ current = 0
    /\ wording = <<>>
    /\ follow_ups = 0
    /\ turns = <<>>
    /\ report = NoReport

Targets == plan.coverage_targets

-----------------------------------------------------------------------------
MakePlan ==
    /\ stage = "planning"
    /\ plan' = Plan(spec, match)
    /\ stage' = "interviewing"
    /\ UNCHANGED <<spec, match, assessed, asked, current, wording, follow_ups, turns, report>>

(***************************************************************************)
(* QuestionGenerationService.generate for one target: a reply is taken     *)
(* when it words exactly that target, and a second call is made once.      *)
(***************************************************************************)
MaxAttempts == 2

Requested(t) == [category |-> Targets[t].category, name |-> Targets[t].name]

\* Variant: a reply is matched by name alone.
ValidByName(t, reply) == Len(reply) = 1 /\ reply[1].name = Requested(t).name

Valid(t, reply) == reply = <<Requested(t)>>

Generated(t, replies) ==
    Sublist(replies, {k \in DOMAIN First(replies, MaxAttempts) : Valid(t, replies[k])})

(***************************************************************************)
(* select_target and ask_question.  When both calls fail the invocation is *)
(* thrown away (InterviewSession), so a step always has its question.      *)
(***************************************************************************)
Ask(t, replies) ==
    /\ stage = "interviewing"
    /\ current = 0
    /\ t \in SelectNextTarget(Targets, assessed)
    /\ Generated(t, replies) # <<>>
    /\ current' = t
    /\ wording' = Head(Generated(t, replies))
    /\ asked' = Append(asked, <<t, 0>>)
    /\ follow_ups' = 0
    /\ UNCHANGED <<spec, match, plan, stage, assessed, turns, report>>

NothingLeft ==
    /\ stage = "interviewing"
    /\ current = 0
    /\ SelectNextTarget(Targets, assessed) = {}
    /\ stage' = "completed"
    /\ UNCHANGED <<spec, match, plan, assessed, asked, current, wording, follow_ups, turns, report>>

-----------------------------------------------------------------------------
(***************************************************************************)
(* resolve_follow_up_decision; a blank answer is worth one more ask.       *)
(***************************************************************************)
FollowUp(e) ==
    /\ follow_ups < MaxFollowUps
    /\ \/ e = Unevaluated
       \/ e.question /\ (Strength(e.score) = "strong" => e.weaknesses # <<>>)

(***************************************************************************)
(* _synthesized_evaluation: what the report is told of a target settled    *)
(* while another was asked about.                                          *)
(***************************************************************************)
Synthesized(type) ==
    IF type = "demonstrated"
    THEN [score |-> 80, type |-> type, evidence |-> <<"note">>, strengths |-> <<"cross">>,
          weaknesses |-> <<>>]
    ELSE [score |-> 5, type |-> type, evidence |-> <<>>, strengths |-> <<>>,
          weaknesses |-> <<"cross">>]

CrossTurn(t, items) ==
    LET about == CHOOSE i \in items : Conclusive(i) /\ t \in Match(Targets, current, i.target)
    IN  [root |-> t, question_id |-> <<t, 0>>, evaluation |-> Synthesized(about.evidence_type),
         method |-> "cross_target"]

(***************************************************************************)
(* evaluate_answer: the turn is recorded under its own id and its target,  *)
(* incidental turns after it; a follow-up is asked next, or the target is  *)
(* assessed.                                                               *)
(***************************************************************************)
Answer(e) ==
    LET turn == [root |-> current, question_id |-> <<current, follow_ups>>,
                 evaluation |-> Substance(e), method |-> "direct"]
        so_far == IF FollowUp(e) THEN assessed ELSE assessed \cup {current}
        items == IF e = Unevaluated THEN {} ELSE e.cross_target_evidence
        newly == InOrder(NewlyAssessed(Targets, current, so_far, items))
    IN  /\ current # 0
        /\ turns' = Append(turns, turn) \o [k \in DOMAIN newly |-> CrossTurn(newly[k], items)]
        /\ assessed' = so_far \cup ToSet(newly)
        /\ asked' = IF follow_ups > 0 THEN Append(asked, <<current, follow_ups>>) ELSE asked
        /\ IF FollowUp(e)
           THEN /\ follow_ups' = follow_ups + 1
                /\ UNCHANGED <<current, wording>>
           ELSE /\ current' = 0
                /\ wording' = <<>>
                /\ follow_ups' = 0
        /\ UNCHANGED <<spec, match, plan, stage, report>>

-----------------------------------------------------------------------------
(***************************************************************************)
(* ReportGenerationService.generate: everything but the summary is settled *)
(* before the narrative call, whose failure or silence leaves the template.*)
(***************************************************************************)
Reported(narrative) ==
    LET summaries == QuestionEvaluations(Targets, turns)
        score == OverallScore(Targets, summaries)
        unassessed == UnassessedRequired(Targets, summaries)
    IN  [narrative |-> narrative,
         overall_score |-> score,
         recommendation |-> DeriveRecommendation(score),
         summary |-> IF narrative = "prose" THEN <<>>
                     ELSE <<DeterministicSummary(score, summaries, unassessed)>>,
         strengths |-> BuildStrengths(summaries),
         areas |-> BuildAreasToExplore(summaries),
         competencies |-> summaries,
         unassessed |-> unassessed]

Generate(narrative) ==
    /\ stage = "completed"
    /\ report' = Reported(narrative)
    /\ stage' = "reported"
    /\ UNCHANGED <<spec, match, plan, assessed, asked, current, wording, follow_ups, turns>>

Next ==
    \/ MakePlan
    \/ \E t \in DOMAIN Targets, replies \in Replies : Ask(t, replies)
    \/ NothingLeft
    \/ \E e \in Evaluations \cup {Unevaluated} : Answer(e)
    \/ \E narrative \in Narratives : Generate(narrative)

Spec == Init /\ [][Next]_vars

-----------------------------------------------------------------------------
(***************************************************************************)
(* The plan assesses what the job description states and nothing else, at  *)
(* most once, required before preferred wherever a cap cuts; what O*NET    *)
(* adds is news and comes from an occupation that resembles the job.       *)
(***************************************************************************)
PlanIsTheJobs ==
    stage # "planning" =>
        /\ FaithfulPlan(spec, plan)
        /\ ContextIsSupplementary(spec, match, plan)

(***************************************************************************)
(* The candidate is only ever asked about the target the record will put   *)
(* the answer under, whatever the wording model returned.                  *)
(***************************************************************************)
WordedForTheTarget == current # 0 => wording = <<Requested(current)>>

(***************************************************************************)
(* A finished report accounts for the interview:                           *)
(*   - every required target is in its assessments or in its list of those *)
(*     never reached, never both, where reached means asked about or       *)
(*     settled by evidence during the interview;                           *)
(*   - what any answer showed of a target is in it, the score is the last  *)
(*     answer's, and a target that showed too little is among the areas to *)
(*     explore, or the list is full;                                       *)
(*   - the overall score lies between the lowest and the highest score of  *)
(*     the targets scored - neither one never reached nor one left blank   *)
(*     pulls it down - and the recommendation is that score's.             *)
(***************************************************************************)
EveryRequiredAccountedFor ==
    LET reported == {report.competencies[k].target : k \in DOMAIN report.competencies}
        reached == {asked[k][1] : k \in DOMAIN asked} \cup assessed
    IN  /\ reported = reached
        /\ \A t \in DOMAIN Targets : Targets[t].required =>
              (t \in ToSet(report.unassessed) <=> t \notin reached)

NothingEstablishedIsLost ==
    /\ \A k \in DOMAIN turns : \E i \in DOMAIN report.competencies :
          LET summary == report.competencies[i]
          IN  /\ summary.target = turns[k].root
              /\ ToSet(turns[k].evaluation.evidence) \subseteq ToSet(summary.evidence)
              /\ (\A j \in DOMAIN turns : j > k => turns[j].root # turns[k].root)
                   => summary.score = turns[k].evaluation.score
    /\ \A i \in DOMAIN report.competencies :
          LET weak == report.competencies[i]
          IN  Strength(weak.score) \in {"not_assessed", "insufficient"} =>
                \/ \E k \in DOMAIN report.areas : report.areas[k][1] = weak.target
                \/ Len(report.areas) = ListLimit

ScoreOfWhatWasAssessed ==
    LET scores == {report.competencies[k].score :
                     k \in {i \in DOMAIN report.competencies : Scored(report.competencies[i])}}
    IN  /\ IF scores = {} THEN report.overall_score = 0
           ELSE report.overall_score \in 100 * Min(scores)..100 * Max(scores)
        /\ report.recommendation = DeriveRecommendation(report.overall_score)

ReportAccountsForInterview ==
    stage = "reported" =>
        EveryRequiredAccountedFor /\ NothingEstablishedIsLost /\ ScoreOfWhatWasAssessed
=============================================================================
