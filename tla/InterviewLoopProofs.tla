-------------------------- MODULE InterviewLoopProofs --------------------------
(***************************************************************************)
(* What InterviewLoop guarantees for every plan, budget, follow-up cap and *)
(* whatever the evaluator returns.                                         *)
(***************************************************************************)
EXTENDS InterviewLoop, SequenceTheorems, FiniteSetTheorems, TLAPS

(***************************************************************************)
(* A target is being asked about from its selection until its exchange is  *)
(* decided; Turns counts the turns its record has by then.                 *)
(***************************************************************************)
Asking == node \in {"ask_question", "evaluate_answer", "follow_up_question"}

Turns == IF node = "follow_up_question" THEN follow_up_count + 1 ELSE follow_up_count

ExchangeInv ==
    Asking =>
        /\ current \in Ids \ assessed
        /\ Len(history[current]) = Turns
        /\ \A k \in DOMAIN history[current] : history[current][k].method = "direct"
        /\ follow_up_id = IF follow_up_count = 0 THEN NoQuestion ELSE <<current, follow_up_count>>
        /\ shown = <<current, Turns>>
        /\ node = "ask_question" => follow_up_count = 0
        /\ node = "follow_up_question" => follow_up_count < MaxFollowUps

SettledInv ==
    \A t \in Ids : ~(Asking /\ t = current) => (t \in assessed <=> history[t] # <<>>)

ShapeInv == OneExchangePerTarget /\ TurnRecordedAsShown

StatusInv == status = "completed" <=> node \in {"finish", "end"}

IInv == TypeOK /\ ExchangeInv /\ SettledInv /\ ShapeInv /\ StatusInv

-----------------------------------------------------------------------------
LEMMA PlanPositions ==
    ASSUME TypeOK PROVE Ids \subseteq Nat \ {0}
  <1>1. coverage_targets \in Seq(Target)
      BY LoopAssumption DEF TypeOK, IsPlan
  <1>2. QED
      BY <1>1, LenProperties DEF Ids

(***************************************************************************)
(* Evidence is only ever matched to other targets of the interview.        *)
(***************************************************************************)
LEMMA NewlyAssessedOthers ==
    ASSUME NEW targets, NEW c, NEW done, NEW items
    PROVE  NewlyAssessed(targets, c, done, items) \subseteq (DOMAIN targets \ {c}) \ done
  <1>1. \A name : Match(targets, c, name) \subseteq DOMAIN targets \ {c}
      BY DEF Match
  <1>2. ASSUME NEW t \in NewlyAssessed(targets, c, done, items)
        PROVE  t \in (DOMAIN targets \ {c}) \ done
    <2>1. t \notin done
        BY DEF NewlyAssessed
    <2>2. PICK matched \in {Match(targets, c, item.target) :
                              item \in {i \in items : Conclusive(i)}} : t \in matched
        BY DEF NewlyAssessed
    <2>3. QED
        BY <1>1, <2>1, <2>2
  <1>3. QED
      BY <1>2

LEMMA HintedOthers ==
    ASSUME NEW targets, NEW c, NEW done, NEW items
    PROVE  Hinted(targets, c, done, items) \subseteq DOMAIN targets
  BY DEF Hinted, Match

LEMMA SelectedUnassessed ==
    ASSUME NEW targets, NEW done, NEW t \in SelectNextTarget(targets, done)
    PROVE  t \in DOMAIN targets \ done
  BY DEF SelectNextTarget, Candidates

LEMMA InitInv == Init => IInv
  <1> SUFFICES ASSUME Init PROVE IInv
      OBVIOUS
  <1>1. /\ <<>> \in Seq(Question)
        /\ <<>> \in Seq(Nat \X Nat)
        /\ Len(<<>>) = 0
        /\ \A k \in DOMAIN <<>> : FALSE
      BY EmptySeq
  <1>2. TypeOK
      BY <1>1, LoopAssumption DEF Init, TypeOK, NoQuestion, None, Nodes, Answers
  <1>3. ExchangeInv /\ SettledInv /\ StatusInv
      BY DEF Init, ExchangeInv, SettledInv, StatusInv, Asking
  <1>4. ShapeInv
      BY <1>1, LoopAssumption DEF Init, ShapeInv, OneExchangePerTarget, TurnRecordedAsShown
  <1>5. QED
      BY <1>2, <1>3, <1>4 DEF IInv

-----------------------------------------------------------------------------
(***************************************************************************)
(* The nodes that record nothing.                                          *)
(***************************************************************************)
LEMMA StepSelect ==
    ASSUME IInv, NEW t \in Ids, SelectTarget(t) PROVE IInv'
  <1>1. /\ t \in Ids \ assessed
        /\ t \in Nat /\ t # 0
      BY SelectedUnassessed, PlanPositions DEF SelectTarget, IInv, Ids
  <1>2. MainId(t) \in Nat \X Nat /\ NoQuestion \in Nat \X Nat
      BY <1>1 DEF MainId, NoQuestion, None
  <1>3. TypeOK'
    <2>1. asked' \in Seq(Nat \X Nat)
        BY <1>2, AppendProperties DEF SelectTarget, IInv, TypeOK
    <2>2. QED
        BY <1>1, <1>2, <2>1, LoopAssumption DEF SelectTarget, IInv, TypeOK, Ids, Nodes
  <1>4. history[t] = <<>>
      BY <1>1 DEF SelectTarget, IInv, SettledInv, Asking
  <1>5. ExchangeInv'
      BY <1>1, <1>4, EmptySeq DEF SelectTarget, ExchangeInv, Turns, Ids, MainId
  <1>6. SettledInv' /\ ShapeInv' /\ StatusInv'
      BY DEF SelectTarget, IInv, SettledInv, Asking, ShapeInv, OneExchangePerTarget,
             TurnRecordedAsShown, StatusInv, Ids
  <1>7. QED
      BY <1>3, <1>5, <1>6 DEF IInv

LEMMA StepEnd ==
    ASSUME IInv, NoTargetLeft \/ Finish PROVE IInv'
  <1>1. TypeOK'
      BY DEF NoTargetLeft, Finish, IInv, TypeOK, Ids, None, NoQuestion, Nodes
  <1>2. ExchangeInv' /\ SettledInv' /\ ShapeInv' /\ StatusInv'
      BY DEF NoTargetLeft, Finish, IInv, ExchangeInv, SettledInv, Asking, ShapeInv,
             OneExchangePerTarget, TurnRecordedAsShown, StatusInv, Ids
  <1>3. QED
      BY <1>1, <1>2 DEF IInv

LEMMA StepCandidate ==
    ASSUME IInv, NEW answer \in Answers, AskQuestion(answer) \/ FollowUpQuestion(answer)
    PROVE  IInv'
  <1>1. CASE AskQuestion(answer)
    <2>1. TypeOK'
        BY <1>1 DEF AskQuestion, IInv, TypeOK, Ids, Nodes
    <2>2. ExchangeInv' /\ SettledInv' /\ ShapeInv' /\ StatusInv'
        BY <1>1 DEF AskQuestion, IInv, ExchangeInv, SettledInv, Asking, Turns, ShapeInv,
                    OneExchangePerTarget, TurnRecordedAsShown, StatusInv, Ids
    <2>3. QED
        BY <2>1, <2>2 DEF IInv
  <1>2. CASE FollowUpQuestion(answer)
    <2>1. /\ current \in Ids
          /\ current \in Nat
          /\ follow_up_count \in Nat
          /\ follow_up_count < MaxFollowUps
        BY <1>2, PlanPositions, LoopAssumption
        DEF FollowUpQuestion, IInv, ExchangeInv, Asking, TypeOK
    <2>2. FollowUpId(current, follow_up_count) \in Nat \X Nat
        BY <2>1 DEF FollowUpId
    <2>3. asked' \in Seq(Nat \X Nat)
        BY <1>2, <2>2, AppendProperties DEF FollowUpQuestion, IInv, TypeOK
    <2>4. TypeOK'
        BY <1>2, <2>1, <2>2, <2>3, LoopAssumption
        DEF FollowUpQuestion, IInv, TypeOK, Ids, Nodes
    <2>5. ExchangeInv'
        BY <1>2, <2>1
        DEF FollowUpQuestion, IInv, ExchangeInv, Asking, Turns, FollowUpId, Ids
    <2>6. SettledInv' /\ ShapeInv' /\ StatusInv'
        BY <1>2 DEF FollowUpQuestion, IInv, SettledInv, Asking, ShapeInv,
                    OneExchangePerTarget, TurnRecordedAsShown, StatusInv, Ids
    <2>7. QED
        BY <2>4, <2>5, <2>6 DEF IInv
  <1>3. QED
      BY <1>1, <1>2

-----------------------------------------------------------------------------
(***************************************************************************)
(* evaluate_answer.  Whatever the evaluator said, the turn is recorded     *)
(* under the question shown; the exchange goes on with a follow-up or ends *)
(* with the target assessed; targets settled incidentally had no record.   *)
(***************************************************************************)
LEMMA Evaluated ==
    ASSUME IInv, node = "evaluate_answer",
           NEW decision \in {"advance", "follow_up"},
           decision = "follow_up" => ~AtCap,
           NEW answered \in BOOLEAN,
           NEW newly \in SUBSET ((Ids \ {current}) \ assessed),
           Route(decision),
           assessed' = (IF decision = "advance" THEN assessed \cup {current} ELSE assessed)
                         \cup newly,
           hints' \in SUBSET Ids,
           Record(DirectTurn(answered), newly),
           UNCHANGED <<coverage_targets, current, follow_up_id, asked, follow_up_count,
                       candidate_answer, status>>
    PROVE  IInv'
  <1> DEFINE turn == DirectTurn(answered)
  <1>1. /\ current \in Ids \ assessed
        /\ current \in Nat
        /\ follow_up_count \in Nat
        /\ follow_up_count <= MaxFollowUps
        /\ Len(history[current]) = follow_up_count
        /\ \A k \in DOMAIN history[current] : history[current][k].method = "direct"
        /\ follow_up_id = IF follow_up_count = 0 THEN NoQuestion
                          ELSE <<current, follow_up_count>>
        /\ shown = <<current, follow_up_count>>
      BY PlanPositions, LoopAssumption DEF IInv, ExchangeInv, Asking, Turns, TypeOK
  <1>2. turn = [question_id |-> <<current, follow_up_count>>, question |-> shown,
                answered |-> answered, method |-> "direct"]
      BY <1>1 DEF DirectTurn, NoQuestion, None, MainId
  <1>3. turn \in Question
      BY <1>1, <1>2 DEF Question
  <1>4. \A t \in Ids : CrossTargetTurn(t) \in Question
      BY PlanPositions DEF CrossTargetTurn, Question, MainId, NoQuestion, None, IInv
  <1>5. /\ history'[current] = Append(history[current], turn)
        /\ \A t \in newly : history'[t] = Append(history[t], CrossTargetTurn(t))
        /\ \A t \in Ids \ (newly \cup {current}) : history'[t] = history[t]
        /\ DOMAIN history' = Ids
      BY <1>1 DEF Record, Ids
  <1>6. \A t \in Ids : history[t] \in Seq(Question)
      BY DEF IInv, TypeOK
  <1>7. \A t \in newly : history[t] = <<>>
      BY DEF IInv, SettledInv
  <1> HIDE DEF turn
  <1>8. /\ history'[current] \in Seq(Question)
        /\ Len(history'[current]) = follow_up_count + 1
        /\ DOMAIN history'[current] = 1..(follow_up_count + 1)
        /\ DOMAIN history[current] = 1..follow_up_count
        /\ \A k \in 1..follow_up_count : history'[current][k] = history[current][k]
        /\ history'[current][follow_up_count + 1] = turn
      BY <1>1, <1>3, <1>5, <1>6, AppendProperties, LenProperties
  <1>9. ASSUME NEW t \in newly
        PROVE  /\ history'[t] \in Seq(Question)
               /\ Len(history'[t]) = 1
               /\ DOMAIN history'[t] = 1..1
               /\ history'[t][1] = CrossTargetTurn(t)
    <2>1. history'[t] = Append(<<>>, CrossTargetTurn(t))
        BY <1>5, <1>7
    <2>2. /\ CrossTargetTurn(t) \in Question
          /\ <<>> \in Seq(Question)
          /\ Len(<<>>) = 0
        BY <1>4, EmptySeq
    <2>3. /\ history'[t] \in Seq(Question)
          /\ Len(history'[t]) = 0 + 1
          /\ history'[t][0 + 1] = CrossTargetTurn(t)
        BY <2>1, <2>2, AppendProperties
    <2>4. QED
        BY <2>3, LenProperties
  <1>10. TypeOK'
    <2>1. \A t \in Ids : history'[t] \in Seq(Question)
        BY <1>5, <1>6, <1>8, <1>9
    <2>2. history' \in [Ids' -> Seq(Question)]
        BY <2>1 DEF Record, Ids
    <2>3. shown' \in Nat \X Nat
        BY <1>1 DEF Route, FollowUpId, IInv, TypeOK
    <2>4. assessed' \subseteq Ids
        BY <1>1 DEF IInv, TypeOK
    <2>5. QED
        BY <2>2, <2>3, <2>4 DEF Route, IInv, TypeOK, Ids, Nodes
  <1>11. ExchangeInv'
    <2>1. CASE decision = "advance"
        BY <2>1 DEF Route, ExchangeInv, Asking
    <2>2. CASE decision = "follow_up"
      <3>1. \A k \in DOMAIN history'[current] : history'[current][k].method = "direct"
          BY <1>1, <1>2, <1>8
      <3>2. follow_up_count < MaxFollowUps
          BY <1>1, <2>2, LoopAssumption DEF AtCap
      <3>3. QED
          BY <1>1, <1>8, <2>2, <3>1, <3>2 DEF Route, ExchangeInv, Turns, FollowUpId, Ids
    <2>3. QED
        BY <2>1, <2>2
  <1>12. SettledInv'
    <2>1. ASSUME NEW t \in Ids, ~(Asking' /\ t = current)
          PROVE  t \in assessed' <=> history'[t] # <<>>
      <3>1. CASE t = current
        <4>1. decision = "advance"
            BY <2>1, <3>1 DEF Route, Asking
        <4>2. history'[t] # <<>>
            BY <1>3, <1>5, <1>6, <3>1, AppendProperties
        <4>3. QED
            BY <3>1, <4>1, <4>2
      <3>2. CASE t \in newly
          BY <1>4, <1>5, <1>6, <3>2, AppendProperties
      <3>3. CASE t \notin newly /\ t # current
          BY <1>5, <3>3 DEF IInv, SettledInv
      <3>4. QED
          BY <3>1, <3>2, <3>3
    <2>2. QED
        BY <2>1 DEF SettledInv, Ids
  <1>13. ShapeInv'
    <2>1. ASSUME NEW t \in Ids
          PROVE  /\ Len(history'[t]) <= 1 + MaxFollowUps
                 /\ \A k \in DOMAIN history'[t] :
                       /\ IF history'[t][k].method = "direct"
                          THEN history'[t][k].question_id = <<t, k - 1>>
                          ELSE Len(history'[t]) = 1
                       /\ history'[t][k].method = "direct" =>
                             history'[t][k].question_id = history'[t][k].question
      <3>1. CASE t = current
        <4>1. \A k \in 1..follow_up_count :
                 /\ history[current][k].method = "direct"
                 /\ history[current][k].question_id = <<current, k - 1>>
                 /\ history[current][k].question_id = history[current][k].question
            BY <1>1, <1>8 DEF IInv, ShapeInv, OneExchangePerTarget, TurnRecordedAsShown
        <4>2. /\ turn.method = "direct"
              /\ turn.question_id = <<current, follow_up_count>>
              /\ turn.question = <<current, follow_up_count>>
            BY <1>1, <1>2
        <4>3. follow_up_count + 1 <= 1 + MaxFollowUps
            BY <1>1, LoopAssumption
        <4>4. ASSUME NEW k \in 1..(follow_up_count + 1)
              PROVE  /\ history'[current][k].method = "direct"
                     /\ history'[current][k].question_id = <<current, k - 1>>
                     /\ history'[current][k].question_id = history'[current][k].question
          <5>1. CASE k = follow_up_count + 1
            <6>1. k - 1 = follow_up_count
                BY <1>1, <5>1
            <6>2. QED
                BY <1>8, <4>2, <5>1, <6>1
          <5>2. CASE k # follow_up_count + 1
            <6>1. k \in 1..follow_up_count
                BY <1>1, <5>2
            <6>2. QED
                BY <1>8, <4>1, <6>1
          <5>3. QED
              BY <5>1, <5>2
        <4>5. QED
            BY <1>8, <3>1, <4>3, <4>4
      <3>2. CASE t \in newly
        <4>1. CrossTargetTurn(t).method # "direct"
            BY DEF CrossTargetTurn
        <4>2. /\ Len(history'[t]) = 1
              /\ \A k \in DOMAIN history'[t] : history'[t][k].method # "direct"
            BY <1>9, <3>2, <4>1
        <4>3. 1 <= 1 + MaxFollowUps
            BY LoopAssumption
        <4>4. QED
            BY <4>2, <4>3
      <3>3. CASE t \notin newly /\ t # current
          BY <1>5, <3>3 DEF IInv, ShapeInv, OneExchangePerTarget, TurnRecordedAsShown
      <3>4. QED
          BY <3>1, <3>2, <3>3
    <2>2. QED
        BY <2>1 DEF ShapeInv, OneExchangePerTarget, TurnRecordedAsShown, Ids
  <1>14. StatusInv'
      BY DEF Route, IInv, StatusInv
  <1>15. QED
      BY <1>10, <1>11, <1>12, <1>13, <1>14 DEF IInv

LEMMA StepEvaluate ==
    ASSUME IInv, EvaluateBlank \/ \E e \in Evaluations : EvaluateGiven(e) PROVE IInv'
  <1>1. CASE EvaluateBlank
    <2>1. PICK decision \in {"advance", "follow_up"} :
             /\ decision = IF AtCap THEN "advance" ELSE "follow_up"
             /\ Route(decision)
        BY <1>1 DEF EvaluateBlank
    <2>2. assessed' = (IF decision = "advance" THEN assessed \cup {current} ELSE assessed) \cup {}
        BY <1>1, <2>1 DEF EvaluateBlank
    <2>3. Record(DirectTurn(FALSE), {}) /\ hints' \in SUBSET Ids
        BY <1>1 DEF EvaluateBlank, IInv, TypeOK
    <2>4. QED
        BY <1>1, <2>1, <2>2, <2>3, Evaluated DEF EvaluateBlank
  <1>2. ASSUME NEW e \in Evaluations, EvaluateGiven(e) PROVE IInv'
    <2> DEFINE decision == ResolveFollowUpDecision(e)
               so_far == IF decision = "advance" THEN assessed \cup {current} ELSE assessed
               newly == NewlyAssessed(coverage_targets, current, so_far, e.cross_target_evidence)
               hinted == Hinted(coverage_targets, current, so_far, e.cross_target_evidence)
    <2>1. /\ decision \in {"advance", "follow_up"}
          /\ decision = "follow_up" => ~AtCap
        BY DEF ResolveFollowUpDecision
    <2>2. /\ newly \in SUBSET ((Ids \ {current}) \ assessed)
          /\ hinted \subseteq Ids
        BY NewlyAssessedOthers, HintedOthers DEF Ids
    <2>3. /\ node = "evaluate_answer"
          /\ Route(decision)
          /\ assessed' = so_far \cup newly
          /\ hints' = (hints \ newly) \cup hinted
          /\ Record(DirectTurn(TRUE), newly)
          /\ UNCHANGED <<coverage_targets, current, follow_up_id, asked, follow_up_count,
                         candidate_answer, status>>
        BY <1>2 DEF EvaluateGiven
    <2> HIDE DEF decision, newly, hinted
    <2>4. hints' \in SUBSET Ids
        BY <2>2, <2>3 DEF IInv, TypeOK
    <2>5. QED
        BY <2>1, <2>2, <2>3, <2>4, Evaluated
  <1>3. QED
      BY <1>1, <1>2

(***************************************************************************)
(* IInv holds in every reachable state of the loop: what an exchange under *)
(* way has shown and recorded so far, and what is settled outside it.      *)
(***************************************************************************)
THEOREM Inductive == Spec => []IInv
  <1>1. IInv /\ [Next]_vars => IInv'
    <2> SUFFICES ASSUME IInv, [Next]_vars PROVE IInv'
        OBVIOUS
    <2>1. CASE Candidate
        BY <2>1, StepCandidate DEF Candidate
    <2>2. CASE Select
        BY <2>2, StepSelect DEF Select
    <2>3. CASE NoTargetLeft \/ Finish
        BY <2>3, StepEnd
    <2>4. CASE Evaluate
        BY <2>4, StepEvaluate DEF Evaluate
    <2>5. CASE UNCHANGED vars
      <3>1. TypeOK' /\ ExchangeInv' /\ SettledInv' /\ ShapeInv' /\ StatusInv'
          BY <2>5 DEF vars, IInv, TypeOK, ExchangeInv, SettledInv, Asking, Turns, ShapeInv,
                      OneExchangePerTarget, TurnRecordedAsShown, StatusInv, Ids
      <3>2. QED
          BY <3>1 DEF IInv
    <2>6. QED
        BY <2>1, <2>2, <2>3, <2>4, <2>5 DEF Next
  <1>2. QED
      BY <1>1, InitInv, PTL DEF Spec

-----------------------------------------------------------------------------
(***************************************************************************)
(* Every reachable state of the loop has the types declared: the follow-up *)
(* counter never passes the cap, whatever the evaluator asks for.          *)
(***************************************************************************)
THEOREM TypeCorrect == Spec => []TypeOK
  BY Inductive, PTL DEF IInv

(***************************************************************************)
(* Each recorded turn carries the id of the question whose text was shown: *)
(* evaluate_answer and follow_up_question agree on it across the interrupt *)
(* between them.                                                           *)
(***************************************************************************)
THEOREM TurnsRecordedAsShown == Spec => []TurnRecordedAsShown
  BY Inductive, PTL DEF IInv, ShapeInv

(***************************************************************************)
(* A target's record is one incidental entry or one exchange of a main     *)
(* question and at most MaxFollowUps follow-ups, in order.                 *)
(***************************************************************************)
THEOREM OneExchange == Spec => []OneExchangePerTarget
  BY Inductive, PTL DEF IInv, ShapeInv

(***************************************************************************)
(* Outside the exchange under way, the targets assessed are exactly those  *)
(* with a turn on record, which are the ones the report can score.         *)
(***************************************************************************)
THEOREM AssessedOnRecord == Spec => []AssessedIffOnRecord
  <1>1. IInv => AssessedIffOnRecord
    <2> SUFFICES ASSUME IInv, NEW t \in Ids
                 PROVE  /\ t \in assessed => history[t] # <<>>
                        /\ history[t] # <<>> /\ t \notin assessed
                             => t = current /\ node \in {"follow_up_question", "evaluate_answer"}
        BY DEF AssessedIffOnRecord
    <2>1. CASE ~(Asking /\ t = current)
        BY <2>1 DEF IInv, SettledInv
    <2>2. CASE Asking /\ t = current
      <3>1. t \notin assessed
          BY <2>2 DEF IInv, ExchangeInv
      <3>2. CASE node = "ask_question"
        <4>1. Len(history[t]) = 0 /\ history[t] \in Seq(Question)
            BY <2>2, <3>2 DEF IInv, ExchangeInv, Turns, TypeOK
        <4>2. history[t] = <<>>
            BY <4>1, EmptySeq
        <4>3. QED
            BY <3>1, <4>2
      <3>3. CASE node # "ask_question"
          BY <2>2, <3>1, <3>3 DEF Asking
      <3>4. QED
          BY <3>2, <3>3
    <2>3. QED
        BY <2>1, <2>2
  <1>2. QED
      BY <1>1, Inductive, PTL

-----------------------------------------------------------------------------
(***************************************************************************)
(* The refinement.  Selecting a target asks about it, evaluating an answer *)
(* settles a set of targets, finding none left finishes; the rest of the   *)
(* loop is a stutter of the ledger.                                        *)
(***************************************************************************)
LEMMA IdsInAllIds == ASSUME TypeOK PROVE Ids \subseteq AllIds
  BY DEF TypeOK, Ids, AllIds

LEMMA NobodyAsked ==
    ASSUME ~Asking PROVE \A t \in AllIds : Phase(t) # "asking"
  BY DEF Asking, Phase

LEMMA SelectAsks ==
    ASSUME IInv, NEW t \in Ids, SelectTarget(t) PROVE Ledger!Ask(t)
  <1>1. /\ t \in AllIds /\ t \notin assessed
        /\ node = "select_target" /\ node' = "ask_question" /\ current' = t
        /\ status # "completed" /\ status' # "completed"
        /\ UNCHANGED assessed
      BY SelectedUnassessed, IdsInAllIds DEF SelectTarget, IInv, StatusInv
  <1>2. \A u \in AllIds : Phase(u) = IF u \in assessed THEN "assessed" ELSE "open"
      BY <1>1 DEF Phase
  <1>3. \A u \in AllIds : Phase(u)' = IF u = t THEN "asking"
                                       ELSE IF u \in assessed THEN "assessed" ELSE "open"
      BY <1>1 DEF Phase
  <1>4. [u \in AllIds |-> Phase(u)'] = [[u \in AllIds |-> Phase(u)] EXCEPT ![t] = "asking"]
      BY <1>1, <1>2, <1>3
  <1>5. QED
      BY <1>1, <1>2, <1>4 DEF Ledger!Ask, Ledger!Idle

LEMMA EvaluateSettles ==
    ASSUME IInv, EvaluateBlank \/ \E e \in Evaluations : EvaluateGiven(e)
    PROVE  \E S \in SUBSET AllIds : Ledger!Settle(S)
  <1> DEFINE S == assessed' \ assessed
  <1>1. IInv'
      BY StepEvaluate
  <1>2. /\ assessed \subseteq assessed'
        /\ node = "evaluate_answer"
        /\ node' \in {"follow_up_question", "select_target"}
        /\ node' = "select_target" => current \in assessed'
        /\ UNCHANGED <<coverage_targets, current, status>>
      BY DEF EvaluateBlank, EvaluateGiven, Route, ResolveFollowUpDecision
  <1>3. assessed' \subseteq AllIds
      BY <1>1, <1>2, IdsInAllIds DEF IInv, TypeOK, Ids
  <1>4. /\ current \in AllIds
        /\ current \notin assessed
        /\ node' = "follow_up_question" => current \notin assessed'
      BY <1>1, <1>2, IdsInAllIds DEF IInv, ExchangeInv, Asking
  <1>5. \A u \in AllIds : Phase(u) = IF u = current THEN "asking"
                                      ELSE IF u \in assessed THEN "assessed" ELSE "open"
      BY <1>2 DEF Phase
  <1>6. \A u \in AllIds : Phase(u)' = IF u = current /\ node' = "follow_up_question"
                                       THEN "asking"
                                       ELSE IF u \in assessed' THEN "assessed" ELSE "open"
      BY <1>2 DEF Phase
  <1>7. \A u \in AllIds : Phase(u)' = IF u \in S THEN "assessed" ELSE Phase(u)
      BY <1>2, <1>4, <1>5, <1>6
  <1>8. \A u \in S : u \in AllIds /\ Phase(u) # "assessed"
      BY <1>3, <1>5
  <1> HIDE DEF S
  <1>9. [u \in AllIds |-> Phase(u)'] =
          [t \in AllIds |-> IF t \in S THEN "assessed" ELSE [u \in AllIds |-> Phase(u)][t]]
      BY <1>7
  <1>10. Ledger!Settle(S)
      BY <1>2, <1>4, <1>5, <1>8, <1>9 DEF Ledger!Settle, Ledger!Idle
  <1>11. S \in SUBSET AllIds
      BY <1>8
  <1>12. QED
      BY <1>10, <1>11

LEMMA NoTargetFinishes ==
    ASSUME IInv, NoTargetLeft PROVE Ledger!Finish
  <1>1. /\ node = "select_target" /\ node' = "finish"
        /\ status' = "completed"
        /\ UNCHANGED assessed
      BY DEF NoTargetLeft
  <1>2. \A u \in AllIds : Phase(u) # "asking" /\ Phase(u)' = Phase(u)
      BY <1>1 DEF Phase
  <1>3. [u \in AllIds |-> Phase(u)'] = [u \in AllIds |-> Phase(u)]
      BY <1>2
  <1>4. QED
      BY <1>1, <1>2, <1>3 DEF Ledger!Finish, Ledger!Idle

LEMMA RestStutters ==
    ASSUME IInv, Candidate \/ Finish \/ UNCHANGED vars PROVE UNCHANGED Ledger!ledger
  <1>1. \A u \in AllIds : Phase(u)' = Phase(u)
    <2>1. CASE Candidate
        BY <2>1 DEF Candidate, AskQuestion, FollowUpQuestion, Phase
    <2>2. CASE Finish
        BY <2>2 DEF Finish, Phase
    <2>3. CASE UNCHANGED vars
        BY <2>3 DEF vars, Phase
    <2>4. QED
        BY <2>1, <2>2, <2>3
  <1>2. (status = "completed")' = (status = "completed")
      BY DEF Candidate, AskQuestion, FollowUpQuestion, Finish, vars, IInv, StatusInv
  <1>3. QED
      BY <1>1, <1>2 DEF Ledger!ledger

(***************************************************************************)
(* For every plan and every evaluator the loop implements the coverage     *)
(* ledger: one target asked about at a time, none assessed twice, nothing  *)
(* settled outside an exchange, no end in the middle of one.               *)
(***************************************************************************)
THEOREM Implements == Spec => ImplementsLedger
  <1>1. Init => Ledger!LedgerInit
    <2> SUFFICES ASSUME Init PROVE Ledger!LedgerInit
        OBVIOUS
    <2>1. \A u \in AllIds : Phase(u) = "open"
        BY DEF Init, Phase
    <2>2. QED
        BY <2>1 DEF Init, Ledger!LedgerInit
  <1>2. IInv /\ [Next]_vars => [Ledger!LedgerNext]_Ledger!ledger
    <2> SUFFICES ASSUME IInv, [Next]_vars PROVE [Ledger!LedgerNext]_Ledger!ledger
        OBVIOUS
    <2>1. CASE Select
      <3>1. PICK t \in Ids : SelectTarget(t)
          BY <2>1 DEF Select
      <3>2. t \in AllIds
          BY IdsInAllIds DEF IInv
      <3>3. Ledger!Ask(t)
          BY <3>1, SelectAsks
      <3>4. QED
          BY <3>2, <3>3 DEF Ledger!LedgerNext
    <2>2. CASE Evaluate
        BY <2>2, EvaluateSettles DEF Evaluate, Ledger!LedgerNext
    <2>3. CASE NoTargetLeft
        BY <2>3, NoTargetFinishes DEF Ledger!LedgerNext
    <2>4. CASE Candidate \/ Finish \/ UNCHANGED vars
        BY <2>4, RestStutters
    <2>5. QED
        BY <2>1, <2>2, <2>3, <2>4 DEF Next
  <1>3. QED
      BY <1>1, <1>2, Inductive, PTL DEF Spec, ImplementsLedger, Ledger!LedgerSpec

-----------------------------------------------------------------------------
(***************************************************************************)
(* Required targets before preferred ones: what the selection policy and   *)
(* the loop guarantee together.                                            *)
(***************************************************************************)
Required(t) == coverage_targets[t].required
Category(t) == coverage_targets[t].category
Open == Candidates(coverage_targets, assessed)
WasAsked(t) == \E i \in DOMAIN asked : asked[i][1] = t

(***************************************************************************)
(* Whoever has a question of its own on record was asked about, the target *)
(* of an exchange under way last of all; and once a preferred target has   *)
(* been asked about, no required one is open, and those of its category    *)
(* are settled.                                                            *)
(***************************************************************************)
AskedInv ==
    /\ \A i \in DOMAIN asked : asked[i][1] \in Ids
    /\ Asking => Len(asked) > 0 /\ asked[Len(asked)][1] = current
    /\ \A t \in Ids : history[t] # <<>> /\ history[t][1].method = "direct" => WasAsked(t)

TierInv ==
    \A p \in Ids : WasAsked(p) /\ ~Required(p) =>
        /\ \A t \in Open : ~Required(t)
        /\ \A t \in Ids : Required(t) /\ Category(t) = Category(p) => t \in assessed

FirstInv == AskedInv /\ TierInv /\ RequiredAskedBeforePreferred /\ RequiredMissedOnlyByBudgetOrEvidence

-----------------------------------------------------------------------------
(***************************************************************************)
(* The policy.                                                             *)
(***************************************************************************)
LEMMA PlanShape ==
    ASSUME TypeOK
    PROVE  /\ IsFiniteSet(Ids)
           /\ \A t \in Ids : /\ coverage_targets[t] \in Target /\ Required(t) \in BOOLEAN
                             /\ Category(t) \in Categories /\ coverage_targets[t].priority \in Nat
  <1>1. coverage_targets \in Seq(Target)
      BY LoopAssumption DEF TypeOK, IsPlan
  <1>2. Ids = 1..Len(coverage_targets) /\ Len(coverage_targets) \in Nat
      BY <1>1, LenProperties DEF Ids
  <1>3. IsFiniteSet(Ids)
      BY <1>2, FS_Interval
  <1>4. \A t \in Ids : coverage_targets[t] \in Target
      BY <1>1, <1>2, ElementOfSeq
  <1>5. QED
      BY <1>3, <1>4 DEF Target, Required, Category

LEMMA EffectiveBudgetIsLarger ==
    ASSUME TypeOK, NEW c \in Categories
    PROVE  /\ EffectiveBudget(coverage_targets, c) \in Nat
           /\ EffectiveBudget(coverage_targets, c) >= Cardinality(RequiredIn(coverage_targets, c))
           /\ IsFiniteSet(RequiredIn(coverage_targets, c))
  <1>1. IsFiniteSet(RequiredIn(coverage_targets, c))
      BY PlanShape, FS_Subset DEF RequiredIn, Ids
  <1>2. Cardinality(RequiredIn(coverage_targets, c)) \in Nat /\ Budget[c] \in Nat
      BY <1>1, FS_CardinalityType, BudgetAssumption
  <1> DEFINE n == Cardinality(RequiredIn(coverage_targets, c))
             b == Budget[c]
  <1> HIDE DEF n, b
  <1>3. \E x \in {b, n} : \A y \in {b, n} : x >= y
      BY <1>2 DEF b, n
  <1>4. Max({b, n}) \in {b, n} /\ \A y \in {b, n} : Max({b, n}) >= y
      BY <1>3 DEF Max
  <1>5. QED
      BY <1>1, <1>2, <1>4 DEF EffectiveBudget, b, n

(***************************************************************************)
(* Assessing more targets opens none.                                      *)
(***************************************************************************)
LEMMA OpenShrinks ==
    ASSUME TypeOK, NEW more \in SUBSET Ids, assessed \subseteq more
    PROVE  Candidates(coverage_targets, more) \subseteq Open
  <1> SUFFICES ASSUME NEW t \in Candidates(coverage_targets, more) PROVE t \in Open
      OBVIOUS
  <1> DEFINE c == coverage_targets[t].category
             before == AssessedIn(coverage_targets, assessed, c)
             after == AssessedIn(coverage_targets, more, c)
  <1>1. /\ t \in Ids \ more /\ c \in Categories
        /\ Cardinality(after) < EffectiveBudget(coverage_targets, c)
      BY PlanShape DEF Candidates, Ids, Category
  <1>2. before \subseteq after /\ IsFiniteSet(after)
      BY PlanShape, FS_Subset DEF AssessedIn
  <1> HIDE DEF before, after
  <1>3. Cardinality(before) <= Cardinality(after) /\ IsFiniteSet(before)
      BY <1>2, FS_Subset
  <1>4. Cardinality(before) \in Nat /\ Cardinality(after) \in Nat
      BY <1>2, <1>3, FS_CardinalityType
  <1>5. Cardinality(before) < EffectiveBudget(coverage_targets, c)
      BY <1>1, <1>3, <1>4, EffectiveBudgetIsLarger
  <1>6. QED
      BY <1>1, <1>5 DEF Candidates, Open, Ids, before

(***************************************************************************)
(* The sort key has a least element among the candidates.                  *)
(***************************************************************************)
LEMMA PrecedesOrders ==
    ASSUME NEW a \in Target, NEW b \in Target, NEW d \in Target
    PROVE  ~Precedes(a, a) /\ (Precedes(a, b) /\ Precedes(b, d) => Precedes(a, d))
  <1>1. /\ CategoryRank[a.category] \in Nat /\ CategoryRank[b.category] \in Nat
        /\ CategoryRank[d.category] \in Nat
      BY DEF CategoryRank, Target, Categories
  <1>2. /\ a.priority \in Nat /\ b.priority \in Nat /\ d.priority \in Nat
        /\ a.required \in BOOLEAN /\ b.required \in BOOLEAN /\ d.required \in BOOLEAN
      BY DEF Target
  <1>3. QED
      BY <1>1, <1>2 DEF Precedes

LEMMA SomeCandidateIsFirst ==
    ASSUME TypeOK, Open # {}
    PROVE  \E t \in Open : \A u \in Open : ~Precedes(coverage_targets[u], coverage_targets[t])
  <1> DEFINE Before(t) == {u \in Open : Precedes(coverage_targets[u], coverage_targets[t])}
             family == {Before(t) : t \in Open}
  <1>1. IsFiniteSet(Open) /\ \A t \in Open : coverage_targets[t] \in Target
      BY PlanShape, FS_Subset DEF Open, Candidates, Ids
  <1>2. family \subseteq FiniteSubsetsOf(Open) /\ family # {}
    <2>1. \A t \in Open : Before(t) \in SUBSET Open /\ IsFiniteSet(Before(t))
        BY <1>1, FS_Subset
    <2>2. QED
        BY <2>1 DEF FiniteSubsetsOf
  <1>3. PICK least \in family : \A other \in family : ~(<<other, least>> \in StrictSubsetOrdering(Open))
    <2> HIDE DEF family
    <2>1. QED
        BY <1>2, FS_StrictSubsetOrderingWellFounded, WFMin
  <1>4. PICK t \in Open : least = Before(t)
      BY <1>3
  <1>5. ASSUME NEW u \in Open, Precedes(coverage_targets[u], coverage_targets[t]) PROVE FALSE
    <2>1. Before(u) \subseteq Before(t)
        BY <1>1, <1>5, PrecedesOrders
    <2>2. u \in Before(t) /\ u \notin Before(u)
        BY <1>1, <1>5, PrecedesOrders
    <2>3. <<Before(u), Before(t)>> \in StrictSubsetOrdering(Open)
        BY <2>1, <2>2 DEF StrictSubsetOrdering
    <2>4. QED
        BY <1>3, <1>4, <2>3
  <1>6. QED
      BY <1>4, <1>5

(***************************************************************************)
(* When the policy offers nothing though the budget is not spent, every    *)
(* category is at its cap; one that leaves out a required target holds a   *)
(* preferred one instead.                                                  *)
(***************************************************************************)
LEMMA MissedForAnother ==
    ASSUME TypeOK, SelectNextTarget(coverage_targets, assessed) = {},
           ~ (Cardinality(assessed) >= TotalBudget), NEW t \in Ids \ assessed, Required(t)
    PROVE  \E u \in assessed : Category(u) = Category(t) /\ ~Required(u)
  <1> DEFINE settled == AssessedIn(coverage_targets, assessed, Category(t))
             required == RequiredIn(coverage_targets, Category(t))
  <1>1. IsFiniteSet(assessed) /\ IsFiniteSet(settled)
      BY PlanShape, FS_Subset DEF TypeOK, AssessedIn
  <1>2. Cardinality(assessed) < TotalBudget
      BY <1>1, FS_CardinalityType, BudgetAssumption DEF TotalBudget, Categories
  <1>3. Open = {}
      BY <1>2, SomeCandidateIsFirst DEF SelectNextTarget, Open
  <1>4. Category(t) \in Categories
      BY PlanShape
  <1>5. ~ (Cardinality(settled) < EffectiveBudget(coverage_targets, Category(t)))
      BY <1>3 DEF Open, Candidates, Ids, Category
  <1>6. t \in required /\ t \notin settled
      BY DEF RequiredIn, Ids, Required, Category, AssessedIn
  <1>7. ASSUME settled \subseteq required PROVE FALSE
    <2>1. settled \subseteq required \ {t} /\ IsFiniteSet(required)
        BY <1>4, <1>6, <1>7, EffectiveBudgetIsLarger
    <2> HIDE DEF settled, required
    <2>2. /\ IsFiniteSet(required \ {t})
          /\ Cardinality(required \ {t}) = Cardinality(required) - 1
        BY <1>6, <2>1, FS_RemoveElement
    <2>3. Cardinality(settled) <= Cardinality(required \ {t})
        BY <2>1, <2>2, FS_Subset
    <2>4. Cardinality(settled) \in Nat /\ Cardinality(required) \in Nat
        BY <1>1, <2>1, FS_CardinalityType
    <2>5. Cardinality(settled) < EffectiveBudget(coverage_targets, Category(t))
        BY <1>4, <2>2, <2>3, <2>4, EffectiveBudgetIsLarger DEF required
    <2>6. QED
        BY <1>5, <2>5
  <1>8. QED
      BY <1>7 DEF AssessedIn, RequiredIn, Required, Category, TypeOK, Ids

-----------------------------------------------------------------------------
(***************************************************************************)
(* The steps.  One that asks nothing keeps what it does not touch.         *)
(***************************************************************************)
LEMMA AskedGrows ==
    ASSUME TypeOK, NEW q \in Nat \X Nat, asked' = Append(asked, q)
    PROVE  /\ Len(asked) \in Nat /\ Len(asked') = Len(asked) + 1
           /\ DOMAIN asked = 1..Len(asked) /\ DOMAIN asked' = 1..(Len(asked) + 1)
           /\ \A i \in 1..Len(asked) : asked'[i] = asked[i]
           /\ asked'[Len(asked) + 1] = q
           /\ \A p : WasAsked(p)' <=> WasAsked(p) \/ p = q[1]
  <1>1. asked \in Seq(Nat \X Nat) /\ asked' \in Seq(Nat \X Nat)
      BY AppendProperties DEF TypeOK
  <1>2. /\ Len(asked) \in Nat /\ Len(asked') = Len(asked) + 1
        /\ DOMAIN asked = 1..Len(asked) /\ DOMAIN asked' = 1..(Len(asked) + 1)
        /\ \A i \in 1..Len(asked) : asked'[i] = asked[i]
        /\ asked'[Len(asked) + 1] = q
      BY <1>1, AppendProperties, LenProperties DEF TypeOK
  <1>3. QED
      BY <1>2 DEF WasAsked

LEMMA SelectFirst ==
    ASSUME IInv, FirstInv, NEW t \in Ids, SelectTarget(t) PROVE FirstInv'
  <1>1. /\ UNCHANGED <<coverage_targets, assessed, history>>
        /\ current' = t /\ status' # "completed"
        /\ asked' = Append(asked, MainId(t)) /\ MainId(t) \in Nat \X Nat /\ MainId(t)[1] = t
        /\ t \in Open /\ \A u \in Open : ~Precedes(coverage_targets[u], coverage_targets[t])
      BY PlanPositions DEF SelectTarget, SelectNextTarget, Open, IInv, MainId
  <1>2. /\ Len(asked) \in Nat /\ Len(asked') = Len(asked) + 1
        /\ DOMAIN asked = 1..Len(asked) /\ DOMAIN asked' = 1..(Len(asked) + 1)
        /\ \A i \in 1..Len(asked) : asked'[i] = asked[i]
        /\ asked'[Len(asked) + 1][1] = t
        /\ \A p : WasAsked(p)' <=> WasAsked(p) \/ p = t
      BY <1>1, AskedGrows DEF IInv
  <1>3. Ids' = Ids /\ Open' = Open /\ \A p : Required(p)' = Required(p) /\ Category(p)' = Category(p)
      BY <1>1 DEF Ids, Open, Required, Category
  <1>4. \A p \in Ids : Required(p) \in BOOLEAN
      BY PlanShape DEF IInv
  <1>5. AskedInv'
      BY <1>1, <1>2, <1>3 DEF FirstInv, AskedInv
  <1>6. TierInv'
    <2>1. ASSUME ~Required(t)
          PROVE  /\ \A u \in Open : ~Required(u)
                 /\ \A u \in Ids : Required(u) /\ Category(u) = Category(t) => u \in assessed
      <3>1. \A u \in Open : ~Required(u)
          BY <1>1, <2>1 DEF Precedes, Required
      <3>2. \A u \in Ids \ assessed : Category(u) = Category(t) => u \in Open
          BY <1>1 DEF Open, Candidates, Category, Ids
      <3>3. QED
          BY <3>1, <3>2
    <2>2. QED
        BY <1>1, <1>2, <1>3, <2>1 DEF FirstInv, TierInv
  <1>7. RequiredAskedBeforePreferred'
    <2>1. ASSUME NEW i \in DOMAIN asked', NEW j \in DOMAIN asked', i < j, Required(asked'[j][1])
          PROVE  Required(asked'[i][1])
      <3>1. i \in 1..Len(asked) /\ asked'[i] = asked[i] /\ asked[i][1] \in Ids
          BY <1>2, <2>1 DEF FirstInv, AskedInv
      <3>2. CASE j = Len(asked) + 1
        <4>1. Required(t) /\ WasAsked(asked[i][1])
            BY <1>2, <2>1, <3>1, <3>2 DEF WasAsked
        <4>2. QED
            BY <1>1, <3>1, <4>1 DEF FirstInv, TierInv
      <3>3. CASE j # Len(asked) + 1
          BY <1>2, <2>1, <3>1, <3>3 DEF FirstInv, RequiredAskedBeforePreferred, Required
      <3>4. QED
          BY <3>2, <3>3
    <2>2. QED
        BY <1>1, <2>1 DEF RequiredAskedBeforePreferred, Required
  <1>8. QED
      BY <1>1, <1>5, <1>6, <1>7 DEF FirstInv, RequiredMissedOnlyByBudgetOrEvidence

LEMMA AnswerFirst ==
    ASSUME IInv, FirstInv, NEW answer \in Answers, AskQuestion(answer) \/ FollowUpQuestion(answer)
    PROVE  FirstInv'
  <1> DEFINE q == FollowUpId(current, follow_up_count)
  <1>0. /\ UNCHANGED <<coverage_targets, assessed, history, current, status>>
        /\ Ids' = Ids /\ Open' = Open /\ \A p : Required(p)' = Required(p) /\ Category(p)' = Category(p)
        /\ Asking /\ status # "completed"
      BY DEF AskQuestion, FollowUpQuestion, Ids, Open, Required, Category, Asking, IInv, StatusInv
  <1>1. CASE asked' = asked
    <2>1. \A p : WasAsked(p)' <=> WasAsked(p)
        BY <1>1 DEF WasAsked
    <2>2. AskedInv' /\ TierInv'
        BY <1>0, <1>1, <2>1 DEF FirstInv, AskedInv, TierInv
    <2>3. RequiredAskedBeforePreferred'
        BY <1>0, <1>1 DEF FirstInv, RequiredAskedBeforePreferred
    <2>4. QED
        BY <1>0, <2>2, <2>3 DEF FirstInv, RequiredMissedOnlyByBudgetOrEvidence
  <1>2. CASE FollowUpQuestion(answer)
    <2>1. current \in Ids /\ current \in Nat /\ follow_up_count \in Nat
        BY <1>0, PlanPositions, LoopAssumption DEF IInv, ExchangeInv, TypeOK
    <2>2. asked' = Append(asked, q) /\ q \in Nat \X Nat /\ q[1] = current
        BY <1>2, <2>1 DEF FollowUpQuestion, FollowUpId
    <2>3. /\ Len(asked) \in Nat /\ Len(asked') = Len(asked) + 1
          /\ DOMAIN asked = 1..Len(asked) /\ DOMAIN asked' = 1..(Len(asked) + 1)
          /\ \A i \in 1..Len(asked) : asked'[i] = asked[i]
          /\ asked'[Len(asked) + 1][1] = current
          /\ \A p : WasAsked(p)' <=> WasAsked(p) \/ p = current
        BY <2>2, AskedGrows DEF IInv
    <2>4. Len(asked) > 0 /\ asked[Len(asked)][1] = current /\ WasAsked(current)
      <3>1. Len(asked) > 0 /\ asked[Len(asked)][1] = current
          BY <1>0 DEF FirstInv, AskedInv
      <3>2. asked \in Seq(Nat \X Nat)
          BY DEF IInv, TypeOK
      <3>3. QED
          BY <3>1, <3>2, LenProperties DEF WasAsked
    <2>5. AskedInv'
      <3>1. \A i \in DOMAIN asked' : asked'[i][1] \in Ids
          BY <2>1, <2>3 DEF FirstInv, AskedInv
      <3>2. Len(asked') > 0 /\ asked'[Len(asked')][1] = current
          BY <2>3
      <3>3. \A t \in Ids : history[t] # <<>> /\ history[t][1].method = "direct" => WasAsked(t)'
          BY <2>3 DEF FirstInv, AskedInv
      <3>4. QED
          BY <1>0, <3>1, <3>2, <3>3 DEF AskedInv
    <2>6. TierInv'
        BY <1>0, <2>3, <2>4 DEF FirstInv, TierInv
    <2>7. ASSUME NEW i \in DOMAIN asked', NEW j \in DOMAIN asked', i < j, Required(asked'[j][1])
          PROVE  Required(asked'[i][1])
      <3>1. i \in 1..Len(asked) /\ asked'[i] = asked[i]
          BY <2>3, <2>7
      <3>2. \A k \in 1..Len(asked) : i < k /\ Required(asked[k][1]) => Required(asked[i][1])
          BY <2>3, <3>1 DEF FirstInv, RequiredAskedBeforePreferred, Required
      <3>3. CASE j = Len(asked) + 1
          BY <2>3, <2>4, <2>7, <3>1, <3>2, <3>3
      <3>4. CASE j # Len(asked) + 1
          BY <2>3, <2>7, <3>1, <3>2, <3>4
      <3>5. QED
          BY <3>3, <3>4
    <2>8. RequiredAskedBeforePreferred'
        BY <1>0, <2>7 DEF RequiredAskedBeforePreferred, Required
    <2>9. QED
        BY <1>0, <2>5, <2>6, <2>8 DEF FirstInv, RequiredMissedOnlyByBudgetOrEvidence
  <1>3. QED
      BY <1>1, <1>2 DEF AskQuestion

LEMMA EndFirst ==
    ASSUME IInv, FirstInv, NoTargetLeft \/ Finish \/ UNCHANGED vars PROVE FirstInv'
  <1>1. /\ UNCHANGED <<coverage_targets, assessed, history, asked>>
        /\ Ids' = Ids /\ Open' = Open
        /\ \A p : WasAsked(p)' <=> WasAsked(p)
        /\ \A p : Required(p)' = Required(p) /\ Category(p)' = Category(p)
        /\ Asking' => Asking /\ current' = current
      BY DEF NoTargetLeft, Finish, vars, Ids, Open, WasAsked, Required, Category, Asking
  <1>2. AskedInv' /\ TierInv'
      BY <1>1 DEF FirstInv, AskedInv, TierInv
  <1>3. RequiredAskedBeforePreferred'
      BY <1>1 DEF FirstInv, RequiredAskedBeforePreferred
  <1>4. ASSUME NoTargetLeft, ~ (Cardinality(assessed) >= TotalBudget),
               NEW t \in Ids \ assessed, Required(t)
        PROVE  \E u \in assessed : /\ Category(u) = Category(t) /\ ~Required(u)
                                   /\ history[u][1].method = "cross_target"
    <2>1. PICK u \in assessed : Category(u) = Category(t) /\ ~Required(u)
        BY <1>4, MissedForAnother DEF IInv, NoTargetLeft
    <2>2. u \in Ids /\ history[u] # <<>> /\ history[u] \in Seq(Question)
        BY <1>4 DEF IInv, TypeOK, SettledInv, NoTargetLeft, Asking
    <2>3. ~WasAsked(u)
        BY <1>4, <2>1, <2>2 DEF FirstInv, TierInv
    <2>4. history[u][1].method # "direct"
        BY <2>2, <2>3 DEF FirstInv, AskedInv
    <2>5. history[u][1] \in Question
        BY <2>2, EmptySeq, ElementOfSeq, LenProperties
    <2>6. QED
        BY <2>1, <2>4, <2>5 DEF Question
  <1>5. RequiredMissedOnlyByBudgetOrEvidence'
    <2>1. CASE NoTargetLeft
        BY <1>1, <1>4, <2>1 DEF RequiredMissedOnlyByBudgetOrEvidence, Required, Category
    <2>2. CASE status' = "completed" => status = "completed"
        BY <1>1, <2>2 DEF FirstInv, RequiredMissedOnlyByBudgetOrEvidence
    <2>3. CASE Finish \/ UNCHANGED vars
        BY <2>2, <2>3 DEF Finish, vars, IInv, StatusInv
    <2>4. QED
        BY <2>1, <2>3
  <1>6. QED
      BY <1>2, <1>3, <1>5 DEF FirstInv

(***************************************************************************)
(* evaluate_answer adds to the record of the target asked about, and to    *)
(* those settled incidentally an entry that is not a question of theirs.   *)
(***************************************************************************)
LEMMA EvaluateAdds ==
    ASSUME IInv, Evaluate
    PROVE  /\ node = "evaluate_answer" /\ assessed \subseteq assessed'
           /\ UNCHANGED <<coverage_targets, asked, current, status>>
           /\ \A t \in Ids \ {current} : \/ history'[t] = history[t]
                                         \/ history'[t] = <<CrossTargetTurn(t)>>
  <1>1. ASSUME NEW turn, NEW newly \in SUBSET ((Ids \ {current}) \ assessed), Record(turn, newly)
        PROVE  \A t \in Ids \ {current} : \/ history'[t] = history[t]
                                          \/ history'[t] = <<CrossTargetTurn(t)>>
    <2>1. \A t \in newly : history[t] = <<>>
        BY <1>1 DEF IInv, SettledInv
    <2>2. \A t \in newly : history'[t] = Append(<<>>, CrossTargetTurn(t))
        BY <1>1, <2>1 DEF Record
    <2>3. \A t : Append(<<>>, CrossTargetTurn(t)) = <<CrossTargetTurn(t)>>
        OBVIOUS
    <2>4. \A t \in (Ids \ {current}) \ newly : history'[t] = history[t]
        BY <1>1 DEF Record
    <2>5. QED
        BY <2>2, <2>3, <2>4
  <1>2. CASE EvaluateBlank
      BY <1>1, <1>2 DEF EvaluateBlank
  <1>3. ASSUME NEW e \in Evaluations, EvaluateGiven(e)
        PROVE  /\ node = "evaluate_answer" /\ assessed \subseteq assessed'
               /\ UNCHANGED <<coverage_targets, asked, current, status>>
               /\ \A t \in Ids \ {current} : \/ history'[t] = history[t]
                                             \/ history'[t] = <<CrossTargetTurn(t)>>
    <2> DEFINE decision == ResolveFollowUpDecision(e)
               so_far == IF decision = "advance" THEN assessed \cup {current} ELSE assessed
               newly == NewlyAssessed(coverage_targets, current, so_far, e.cross_target_evidence)
    <2>1. newly \in SUBSET ((Ids \ {current}) \ assessed)
        BY NewlyAssessedOthers DEF Ids
    <2>2. /\ node = "evaluate_answer" /\ assessed' = so_far \cup newly
          /\ UNCHANGED <<coverage_targets, asked, current, status>>
          /\ Record(DirectTurn(TRUE), newly)
        BY <1>3 DEF EvaluateGiven
    <2> HIDE DEF newly, decision
    <2>3. QED
        BY <1>1, <2>1, <2>2
  <1>4. QED
      BY <1>2, <1>3 DEF Evaluate

LEMMA EvaluateFirst == ASSUME IInv, FirstInv, Evaluate PROVE FirstInv'
  <1>1. /\ node = "evaluate_answer" /\ assessed \subseteq assessed'
        /\ UNCHANGED <<coverage_targets, asked, current, status>>
        /\ \A t \in Ids \ {current} : \/ history'[t] = history[t]
                                      \/ history'[t] = <<CrossTargetTurn(t)>>
      BY EvaluateAdds
  <1>2. /\ Ids' = Ids /\ \A p : Required(p)' = Required(p) /\ Category(p)' = Category(p)
        /\ \A p : WasAsked(p)' <=> WasAsked(p)
      BY <1>1 DEF Ids, Required, Category, WasAsked
  <1>3. Asking /\ status # "completed"
      BY <1>1 DEF Asking, IInv, StatusInv
  <1>4. IInv'
      BY StepEvaluate DEF Evaluate
  <1>5. Open' \subseteq Open
    <2>1. assessed' \in SUBSET Ids
        BY <1>2, <1>4 DEF IInv, TypeOK
    <2>2. QED
        BY <1>1, <2>1, OpenShrinks DEF IInv, Open
  <1>6. AskedInv'
    <2>1. ASSUME NEW t \in Ids, history'[t] # <<>>, history'[t][1].method = "direct"
          PROVE  WasAsked(t)
      <3>1. CASE t = current
        <4>1. Len(asked) > 0 /\ asked[Len(asked)][1] = current /\ asked \in Seq(Nat \X Nat)
            BY <1>3 DEF FirstInv, AskedInv, IInv, TypeOK
        <4>2. QED
            BY <3>1, <4>1, LenProperties DEF WasAsked
      <3>2. CASE t # current /\ history'[t] = history[t]
          BY <2>1, <3>2 DEF FirstInv, AskedInv
      <3>3. CASE history'[t] = <<CrossTargetTurn(t)>>
          BY <2>1, <3>3 DEF CrossTargetTurn
      <3>4. QED
          BY <1>1, <3>1, <3>2, <3>3
    <2>2. QED
        BY <1>1, <1>2, <1>3, <2>1 DEF FirstInv, AskedInv
  <1>7. TierInv'
      BY <1>1, <1>2, <1>5 DEF FirstInv, TierInv
  <1>8. RequiredAskedBeforePreferred'
      BY <1>1 DEF FirstInv, RequiredAskedBeforePreferred
  <1>9. QED
      BY <1>1, <1>3, <1>6, <1>7, <1>8 DEF FirstInv, RequiredMissedOnlyByBudgetOrEvidence

LEMMA FirstHolds == Spec => [](IInv /\ FirstInv)
  <1>1. Init => FirstInv
    <2> SUFFICES ASSUME Init PROVE FirstInv
        OBVIOUS
    <2>1. \A i \in DOMAIN asked : FALSE
        BY EmptySeq DEF Init
    <2>2. QED
        BY <2>1 DEF Init, FirstInv, AskedInv, Asking, TierInv, WasAsked, Ids,
                    RequiredAskedBeforePreferred, RequiredMissedOnlyByBudgetOrEvidence
  <1>2. IInv /\ FirstInv /\ [Next]_vars => FirstInv'
    <2> SUFFICES ASSUME IInv, FirstInv, [Next]_vars PROVE FirstInv'
        OBVIOUS
    <2>1. CASE Candidate
        BY <2>1, AnswerFirst DEF Candidate
    <2>2. CASE Select
        BY <2>2, SelectFirst DEF Select
    <2>3. CASE NoTargetLeft \/ Finish \/ UNCHANGED vars
        BY <2>3, EndFirst
    <2>4. CASE Evaluate
        BY <2>4, EvaluateFirst
    <2>5. QED
        BY <2>1, <2>2, <2>3, <2>4 DEF Next
  <1>3. QED
      BY <1>1, <1>2, Inductive, PTL DEF Spec

-----------------------------------------------------------------------------
(***************************************************************************)
(* For every plan, budget and evaluator: select_next_target never asks     *)
(* about a required target once it has asked about a preferred one,        *)
(* whatever cross-target evidence has settled in between.                  *)
(***************************************************************************)
THEOREM RequiredFirst == Spec => []RequiredAskedBeforePreferred
  BY FirstHolds, PTL DEF FirstInv

(***************************************************************************)
(* An interview ends without a required target only with its total budget  *)
(* spent, or because evidence volunteered about a preferred target took    *)
(* its place in the category.                                              *)
(***************************************************************************)
THEOREM RequiredMissed == Spec => []RequiredMissedOnlyByBudgetOrEvidence
  BY FirstHolds, PTL DEF FirstInv
================================================================================
