---------------------------- MODULE OfflineModel ----------------------------
(***************************************************************************)
(* The interview of InterviewReport held with the offline model of         *)
(* FakeClient, and what the rest of the system may take for granted of it. *)
(***************************************************************************)
EXTENDS InterviewReport, FakeClient

CONSTANTS Descriptions,     \* job descriptions, as sequences of lines
          Answers,          \* answers, as sequences of sentences
          WordLengths,      \* of the words of an answer, in characters
          ExcerptLimit      \* of _evidence_excerpt

ASSUME OfflineModelAssumption ==
    /\ Descriptions \subseteq Seq(JobLine)
    /\ Answers \subseteq Seq(AnswerSentence)
    /\ WordLengths \subseteq Seq(Nat) \ {<<>>}
    /\ ExcerptLimit \in Nat

(***************************************************************************)
(* The offline model keeps to what the rest of the system takes for        *)
(* granted of a model: its analysis of a description is the text's, its    *)
(* evaluations fit the follow-up policy and the evidence types, and its    *)
(* narrative names the same gaps as the template would, under the band of  *)
(* the score as it was told it.                                            *)
(***************************************************************************)
OfflineModelKeepsThePolicy ==
    /\ stage = "planning" =>
          /\ \A lengths \in WordLengths : ExcerptIsWhole(lengths, ExcerptLimit)
          /\ \A lines \in Descriptions : AnalysisIsTheText(lines)
          /\ \A answer \in Answers : EvaluationFitsPolicy(answer, Names)
    /\ stage = "reported" =>
          LET template == DeterministicSummary(report.overall_score, report.competencies,
                                               report.unassessed)
              narrative == ReportNarrative(Targets, report.overall_score, report.competencies,
                                           report.unassessed)
              pieces == UNION {ToSet(Pieces[Targets[t].name]) : t \in ToSet(report.unassessed)}
          IN  /\ narrative.insufficient = template.insufficient
              /\ narrative.recommendation = template.recommendation
              /\ ToSet(narrative.unassessed) = pieces \/ Len(narrative.unassessed) = MaxNamed
              /\ \A k \in DOMAIN report.strengths :
                    report.strengths[k][2] \in ToSet(narrative.strengths)
              /\ narrative.band # template.band => (report.overall_score + 50) \div 100 \in {35, 60, 80}
=============================================================================
