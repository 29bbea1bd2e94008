----------------------------- MODULE MCEvaluations -----------------------------
(***************************************************************************)
(* The two evaluations, the paid one and the review of reports.  They      *)
(* share no file, so they are explored one at a time: the paid one while   *)
(* no sheet was saved and no command of the study begun.                   *)
(*                                                                         *)
(* Paid: three versions of each document; the label sheet's first is blank,*)
(* the protocol's first and third are drafts.                              *)
(*                                                                         *)
(* Review: two operators and four saves.  The inventory is checked on      *)
(* reports with two questions and repeated, blank and shared texts; on     *)
(* lists of one or two scores a category at and around the thresholds of   *)
(* the bands; on every finding of a string in three answers; the measures  *)
(* on the inputs below.                                                    *)
(***************************************************************************)
EXTENDS ReviewStudy, PaidEvaluation, TLC

CONSTANTS o1, o2

TwoOperators == {o1, o2}
Symmetric == Permutations(TwoOperators)

Texts == {<<>>, <<"clear">>, <<"clear", "fast">>, <<"", "clear">>}

Question(sampled, strengths, weaknesses) ==
    [sampled |-> sampled, strengths |-> strengths, weaknesses |-> weaknesses]

ReportInputs ==
    {[kind |-> "report",
      report |-> [questions |-> <<Question(TRUE, a, <<"slow">>), Question(sampled, b, c)>>,
                  summary |-> s, strengths |-> b, weaknesses |-> <<"slow">>]] :
        a \in Texts, b \in Texts, c \in {<<>>, <<"slow", "clear">>}, s \in Texts, sampled \in BOOLEAN}

Scores == {-1, 0, 45, 64, 65, 85, 100}

ScoreInputs ==
    {[kind |-> "scores",
      questions |-> <<[category |-> "competency", score |-> a], [category |-> "competency", score |-> b],
                      [category |-> "technology", score |-> c], [category |-> "task", score |-> d]>>] :
        a \in Scores, b \in Scores, c \in Scores, d \in Scores}

EvidenceInputs ==
    {[kind |-> "evidence", own |-> 1, tiers |-> tiers] :
        tiers \in [1..3 -> {"exact", "lexical", "none"}]}

(***************************************************************************)
(* The measures: two jobs of three personas with one or two claims each;   *)
(* three follow-up cases; three matches with up to two core tasks; four    *)
(* latencies; strings of four words and their answers.                     *)
(***************************************************************************)
Row(report, verdict) ==
    [report |-> report, job |-> report[1], tier |-> report[2], verdict |-> verdict]

ReviewInputs ==
    {[kind |-> "reviews",
      rows |-> FlattenSeq([k \in 1..6 |-> [j \in DOMAIN of[k] |->
                             Row(<<(k - 1) \div 3, (k - 1) % 3>>, of[k][j])]])] :
        of \in [1..6 -> {<<"SUPPORTED">>, <<"UNCLEAR">>, <<"UNCLEAR", "SUPPORTED">>}]}

FollowUpInputs ==
    {[kind |-> "follow-ups", rows |-> rows] :
        rows \in [1..3 -> [label : Labels, raw : {"advance", "follow_up"}, route : {"advance", "follow_up"}]]}

MatchInputs ==
    {[kind |-> "matches", cases |-> cases] :
        cases \in [1..3 -> [correct : BOOLEAN, top : {39, 40}, relevances : {<<>>, <<5>>, <<5, 8>>}]]}

PersonaInputs == {[kind |-> "personas", scores |-> scores] : scores \in [1..2 -> [Tiers -> 1..4]]}

SecondInputs == {[kind |-> "seconds", values |-> values] : values \in [1..4 -> 1..3]}

Word(name) == <<name>>
Answers == {<<Word("never"), Word("ran"), Word("kafka"), <<"1", "3">>, Word("years")>>,
            <<Word("i"), Word("ran"), Word("the"), Word("kafka"), Word("years")>>,
            <<Word("kafka"), <<"3">>, Word("years")>>}
Strings == [1..4 -> {Word("ran"), Word("kafka"), Word("years"), <<"3">>}]
             \cup {answer : answer \in Answers} \cup {<<Word("never")>> \o answer : answer \in Answers}

StringInputs ==
    {[kind |-> "strings", evidence |-> evidence, answers |-> answers] :
        evidence \in Strings, answers \in [1..2 -> Answers]}

MeasureInputs ==
    UNION {ReviewInputs, FollowUpInputs, MatchInputs, PersonaInputs, SecondInputs, StringInputs}

MCInputs == UNION {ReportInputs, ScoreInputs, EvidenceInputs, MeasureInputs}

MCVersions == 1..3
MCLabelled == {2, 3}
MCFinalised == {2}

StudyUntouched == flow = "v1.0" /\ edits = 0 /\ changed = {} /\ dirs = {} /\ \A o \in Operators : At(o, "idle")
PaidUntouched == labels = Absent /\ protocol = Min(Versions)

MCInit == StudyInit /\ PaidInit

MCNext ==
    \/ PaidUntouched /\ StudyNext /\ UNCHANGED paidVars
    \/ StudyUntouched /\ PaidNext /\ UNCHANGED studyVars

MCSpec == MCInit /\ [][MCNext]_<<studyVars, paidVars>>
=============================================================================
