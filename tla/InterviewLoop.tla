---------------------------- MODULE InterviewLoop ----------------------------
(***************************************************************************)
(* The adaptive interview loop: the LangGraph graph of                     *)
(* agents/interview_graph.py, one action per node.                         *)
(*                                                                         *)
(*   select_target -> ask_question -> evaluate_answer -> select_target     *)
(*                                       |      ^                          *)
(*                                       v      |                          *)
(*                                   follow_up_question                    *)
(*                                                                         *)
(* ask_question and follow_up_question interrupt the graph: it waits there *)
(* for the candidate, and the node's update is applied when an answer      *)
(* resumes it.  A node whose model call fails is no step of this module:   *)
(* the invocation is thrown away and the graph restored to the interrupt   *)
(* it came from, which InterviewSession models.                            *)
(*                                                                         *)
(* What the evaluator says of an answer is a choice from Evaluations; its  *)
(* own advance/follow_up decision plays no part in the code's routing and  *)
(* is left out.                                                            *)
(***************************************************************************)
EXTENDS TargetSelection, CrossTargetEvidence

CONSTANTS Plans,          \* the coverage target lists an interview may start from
          MaxFollowUps,   \* DEFAULT_MAX_FOLLOW_UPS
          Evaluations     \* what the evaluator may return for an answer

Evaluation == [score : 0..100, weaknesses : BOOLEAN, question : BOOLEAN,
               cross_target_evidence : SUBSET Evidence]

ASSUME LoopAssumption ==
    /\ \A targets \in Plans : IsPlan(targets)
    /\ MaxFollowUps \in Nat
    /\ Evaluations \subseteq Evaluation

VARIABLES coverage_targets,      \* fixed once the interview has started
          assessed,              \* assessed_target_ids
          hints,                 \* the targets target_hints has an entry for
          current,               \* current_question_id
          shown,                 \* the question current_question_text was written for
          follow_up_id,          \* current_follow_up_id
          asked,                 \* asked_question_ids
          follow_up_count,
          candidate_answer,
          evaluation,            \* the resolved decision, which routes the loop
          status,
          history,               \* per target, the turns recorded under its root id
          node                   \* the node LangGraph runs next

vars == <<coverage_targets, assessed, hints, current, shown, follow_up_id, asked,
          follow_up_count, candidate_answer, evaluation, status, history, node>>

Ids == DOMAIN coverage_targets
None == 0

(***************************************************************************)
(* Question ids: a target's main question carries the target's own id, its *)
(* follow-ups an id derived from it and from the follow-ups used so far.   *)
(***************************************************************************)
MainId(t) == <<t, 0>>
FollowUpId(t, index) == <<t, index + 1>>
NoQuestion == <<None, 0>>

Question == [question_id : (Nat \X Nat), question : (Nat \X Nat),
             answered : BOOLEAN, method : {"direct", "cross_target"}]

Nodes == {"select_target", "ask_question", "evaluate_answer", "follow_up_question",
          "finish", "end"}

Init ==
    /\ coverage_targets \in Plans
    /\ assessed = {}
    /\ hints = {}
    /\ current = None
    /\ shown = NoQuestion
    /\ follow_up_id = NoQuestion
    /\ asked = <<>>
    /\ follow_up_count = 0
    /\ candidate_answer = "none"
    /\ evaluation = "none"
    /\ status = "not_started"
    /\ history = [t \in Ids |-> <<>>]
    /\ node = "select_target"

-----------------------------------------------------------------------------
(***************************************************************************)
(* select_target, when the policy offers a target: its main question has   *)
(* been generated.                                                         *)
(***************************************************************************)
SelectTarget(t) ==
    /\ node = "select_target"
    /\ t \in SelectNextTarget(coverage_targets, assessed)
    /\ current' = t
    /\ shown' = MainId(t)
    /\ follow_up_id' = NoQuestion
    /\ asked' = Append(asked, MainId(t))
    /\ status' = "in_progress"
    /\ follow_up_count' = 0
    /\ node' = "ask_question"
    /\ UNCHANGED <<coverage_targets, assessed, hints, candidate_answer, evaluation, history>>

\* Variant: the interview ends only when its total budget is spent.
NoTargetLeftOnTotalBudget ==
    /\ node = "select_target"
    /\ Cardinality(assessed) >= TotalBudget
    /\ current' = None
    /\ shown' = NoQuestion
    /\ follow_up_id' = NoQuestion
    /\ status' = "completed"
    /\ node' = "finish"
    /\ UNCHANGED <<coverage_targets, assessed, hints, asked, follow_up_count,
                   candidate_answer, evaluation, history>>

(***************************************************************************)
(* select_target, when the policy offers nothing more.                     *)
(***************************************************************************)
NoTargetLeft ==
    /\ node = "select_target"
    /\ SelectNextTarget(coverage_targets, assessed) = {}
    /\ current' = None
    /\ shown' = NoQuestion
    /\ follow_up_id' = NoQuestion
    /\ status' = "completed"
    /\ node' = "finish"
    /\ UNCHANGED <<coverage_targets, assessed, hints, asked, follow_up_count,
                   candidate_answer, evaluation, history>>

AskQuestion(answer) ==
    /\ node = "ask_question"
    /\ candidate_answer' = answer
    /\ node' = "evaluate_answer"
    /\ UNCHANGED <<coverage_targets, assessed, hints, current, shown, follow_up_id, asked,
                   follow_up_count, evaluation, status, history>>

(***************************************************************************)
(* follow_up_question, resumed with the answer to the follow-up that       *)
(* evaluate_answer has already put in current_question_text.               *)
(***************************************************************************)
FollowUpQuestion(answer) ==
    /\ node = "follow_up_question"
    /\ candidate_answer' = answer
    /\ follow_up_count' = follow_up_count + 1
    /\ follow_up_id' = FollowUpId(current, follow_up_count)
    /\ asked' = Append(asked, FollowUpId(current, follow_up_count))
    /\ node' = "evaluate_answer"
    /\ UNCHANGED <<coverage_targets, assessed, hints, current, shown, evaluation, status,
                   history>>

Finish ==
    /\ node = "finish"
    /\ status' = "completed"
    /\ current' = None
    /\ shown' = NoQuestion
    /\ node' = "end"
    /\ UNCHANGED <<coverage_targets, assessed, hints, follow_up_id, asked, follow_up_count,
                   candidate_answer, evaluation, history>>

-----------------------------------------------------------------------------
(***************************************************************************)
(* evaluate_answer.                                                        *)
(***************************************************************************)
EvidenceStrength(score) ==
    CASE score >= 80 -> "strong"
      [] score >= 60 /\ score < 80 -> "moderate"
      [] score >= 35 /\ score < 60 -> "limited"
      [] OTHER -> "insufficient"

\* Variant: the cap is compared one too late.
AtCapLate == follow_up_count > MaxFollowUps

AtCap == follow_up_count >= MaxFollowUps

(***************************************************************************)
(* resolve_follow_up_decision: the cap first, then a concrete question,    *)
(* and for a strong answer a recorded weakness as well.                    *)
(***************************************************************************)
ResolveFollowUpDecision(e) ==
    IF /\ ~AtCap
       /\ e.question
       /\ EvidenceStrength(e.score) = "strong" => e.weaknesses
    THEN "follow_up" ELSE "advance"

(***************************************************************************)
(* The turn just answered: recorded under the follow-up's id when there is *)
(* one, and always with the text the candidate was shown.                  *)
(***************************************************************************)
DirectTurn(answered) ==
    [question_id |-> IF follow_up_id # NoQuestion THEN follow_up_id ELSE MainId(current),
     question |-> shown, answered |-> answered, method |-> "direct"]

CrossTargetTurn(t) ==
    [question_id |-> MainId(t), question |-> NoQuestion, answered |-> TRUE,
     method |-> "cross_target"]

\* Variant: a follow-up's text is left to the follow_up_question node, too late to be shown.
RouteTooLate(decision) ==
    /\ evaluation' = decision
    /\ shown' = shown
    /\ node' = IF decision = "follow_up" THEN "follow_up_question" ELSE "select_target"

(***************************************************************************)
(* The decision, and what follows from it at once: a follow-up's text must *)
(* stand in current_question_text before the graph interrupts.             *)
(***************************************************************************)
Route(decision) ==
    /\ evaluation' = decision
    /\ shown' = IF decision = "follow_up" THEN FollowUpId(current, follow_up_count) ELSE shown
    /\ node' = IF decision = "follow_up" THEN "follow_up_question" ELSE "select_target"

Record(turn, newly) ==
    history' = [t \in Ids |->
                  CASE t = current -> Append(history[t], turn)
                    [] t # current /\ t \in newly -> Append(history[t], CrossTargetTurn(t))
                    [] OTHER -> history[t]]

(***************************************************************************)
(* A blank answer is not evaluated: one clarifying ask, then move on.      *)
(***************************************************************************)
EvaluateBlank ==
    /\ node = "evaluate_answer"
    /\ candidate_answer = "blank"
    /\ Route(IF AtCap THEN "advance" ELSE "follow_up")
    /\ assessed' = IF AtCap THEN assessed \cup {current} ELSE assessed
    /\ Record(DirectTurn(FALSE), {})
    /\ UNCHANGED <<coverage_targets, hints, current, follow_up_id, asked, follow_up_count,
                   candidate_answer, status>>

\* Variant: evidence about another target assesses it but its turn is not recorded.
EvaluateUnrecorded(e) ==
    LET decision == ResolveFollowUpDecision(e)
        so_far == IF decision = "advance" THEN assessed \cup {current} ELSE assessed
        newly == NewlyAssessed(coverage_targets, current, so_far, e.cross_target_evidence)
    IN  /\ node = "evaluate_answer"
        /\ candidate_answer = "given"
        /\ Route(decision)
        /\ assessed' = so_far \cup newly
        /\ Record(DirectTurn(TRUE), {})
        /\ UNCHANGED <<coverage_targets, hints, current, follow_up_id, asked,
                       follow_up_count, candidate_answer, status>>

(***************************************************************************)
(* An answer the evaluator scored.  Evidence about other targets counts    *)
(* whether or not the target asked about has just advanced.                *)
(***************************************************************************)
EvaluateGiven(e) ==
    LET decision == ResolveFollowUpDecision(e)
        so_far == IF decision = "advance" THEN assessed \cup {current} ELSE assessed
        items == e.cross_target_evidence
        newly == NewlyAssessed(coverage_targets, current, so_far, items)
    IN  /\ node = "evaluate_answer"
        /\ candidate_answer = "given"
        /\ Route(decision)
        /\ assessed' = so_far \cup newly
        /\ hints' = (hints \ newly) \cup Hinted(coverage_targets, current, so_far, items)
        /\ Record(DirectTurn(TRUE), newly)
        /\ UNCHANGED <<coverage_targets, current, follow_up_id, asked, follow_up_count,
                       candidate_answer, status>>

-----------------------------------------------------------------------------
Answers == {"blank", "given"}

Candidate == \E answer \in Answers : AskQuestion(answer) \/ FollowUpQuestion(answer)

Select == \E t \in Ids : SelectTarget(t)

Evaluate == EvaluateBlank \/ \E e \in Evaluations : EvaluateGiven(e)

Next == Candidate \/ Select \/ NoTargetLeft \/ Evaluate \/ Finish

Spec == Init /\ [][Next]_vars

(***************************************************************************)
(* The graph runs each node once the previous one is done, and a candidate *)
(* who has not given up answers the question on the screen.                *)
(***************************************************************************)
Fairness ==
    /\ WF_vars(Candidate)
    /\ WF_vars(Select \/ NoTargetLeft \/ Evaluate \/ Finish)

FairSpec == Spec /\ Fairness

-----------------------------------------------------------------------------
TypeOK ==
    /\ coverage_targets \in Plans
    /\ assessed \subseteq Ids
    /\ hints \subseteq Ids
    /\ current \in Ids \cup {None}
    /\ shown \in Nat \X Nat
    /\ follow_up_id \in Nat \X Nat
    /\ asked \in Seq(Nat \X Nat)
    /\ follow_up_count \in 0..MaxFollowUps
    /\ candidate_answer \in Answers \cup {"none"}
    /\ evaluation \in {"none", "advance", "follow_up"}
    /\ status \in {"not_started", "in_progress", "completed"}
    /\ history \in [Ids -> Seq(Question)]
    /\ node \in Nodes

(***************************************************************************)
(* A turn is recorded under the id of the question whose text the          *)
(* candidate was shown, follow-ups included.                               *)
(***************************************************************************)
TurnRecordedAsShown ==
    \A t \in Ids : \A k \in DOMAIN history[t] :
        history[t][k].method = "direct" => history[t][k].question_id = history[t][k].question

(***************************************************************************)
(* A target's record is either one incidental entry or one exchange: its   *)
(* main question and then its follow-ups in order, never more than the cap *)
(* allows, never asked after evidence settled it, never settled twice.     *)
(***************************************************************************)
OneExchangePerTarget ==
    \A t \in Ids :
        /\ Len(history[t]) <= 1 + MaxFollowUps
        /\ \A k \in DOMAIN history[t] :
              IF history[t][k].method = "direct"
              THEN history[t][k].question_id = <<t, k - 1>>
              ELSE Len(history[t]) = 1

(***************************************************************************)
(* Evidence and assessment agree: a target with turns on record is         *)
(* assessed unless it is the one whose exchange is under way, and an       *)
(* assessed target has turns on record (the report reads only those).      *)
(***************************************************************************)
AssessedIffOnRecord ==
    \A t \in Ids :
        /\ t \in assessed => history[t] # <<>>
        /\ history[t] # <<>> /\ t \notin assessed
             => t = current /\ node \in {"follow_up_question", "evaluate_answer"}

(***************************************************************************)
(* No required target is asked about after a preferred one, whatever the   *)
(* answers in between gave away about either.                              *)
(***************************************************************************)
RequiredAskedBeforePreferred ==
    \A i, j \in DOMAIN asked :
        i < j /\ coverage_targets[asked[j][1]].required
          => coverage_targets[asked[i][1]].required

(***************************************************************************)
(* An interview that finishes with a required target untouched has spent   *)
(* the total budget, or evidence volunteered about preferred targets used  *)
(* up the category: asking about preferred targets never does.             *)
(***************************************************************************)
RequiredMissedOnlyByBudgetOrEvidence ==
    status = "completed" =>
        \A t \in Ids \ assessed : coverage_targets[t].required =>
            \/ Cardinality(assessed) >= TotalBudget
            \/ \E u \in assessed :
                  /\ coverage_targets[u].category = coverage_targets[t].category
                  /\ ~coverage_targets[u].required
                  /\ history[u][1].method = "cross_target"

(***************************************************************************)
(* What the policy's documentation says instead: preferred targets "can    *)
(* never crowd out a required target in the same category".  The code does *)
(* not keep this when evidence settles a preferred target incidentally.    *)
(***************************************************************************)
PreferredNeverCrowdsOutRequired ==
    status = "completed" =>
        \A t \in Ids \ assessed : coverage_targets[t].required =>
            \/ Cardinality(assessed) >= TotalBudget
            \/ \A u \in assessed :
                  coverage_targets[u].category = coverage_targets[t].category
                    => coverage_targets[u].required

(***************************************************************************)
(* A candidate who keeps answering reaches the end of the interview.       *)
(***************************************************************************)
InterviewCompletes == <>(node = "end")

(***************************************************************************)
(* The loop implements the coverage ledger, over the positions of every    *)
(* plan: those the interview's own plan lacks stay open for good.          *)
(***************************************************************************)
AllIds == UNION {DOMAIN targets : targets \in Plans}

Phase(t) ==
    IF t = current /\ node \in {"ask_question", "evaluate_answer", "follow_up_question"}
    THEN "asking"
    ELSE IF t \in assessed THEN "assessed" ELSE "open"

Ledger == INSTANCE CoverageLedger
            WITH Targets <- AllIds,
                 phase <- [t \in AllIds |-> Phase(t)],
                 finished <- status = "completed"

ImplementsLedger == Ledger!LedgerSpec
=============================================================================
