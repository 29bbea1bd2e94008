------------------------- MODULE CrossTargetEvidence -------------------------
(***************************************************************************)
(* Evidence an answer gives about targets it was not asked about           *)
(* (services/cross_target_evidence.py).  The evaluator reports a list of   *)
(* items; the list is kept here as a set, because for each target a        *)
(* conclusive item wins wherever it stands in the list and hints are only  *)
(* told apart by the target they are about.                                *)
(***************************************************************************)
EXTENDS InterviewPlan

AnswerEvidenceType == {"demonstrated", "partial", "claimed_unverified",
                       "explicit_lack", "contradictory", "insufficient"}

(***************************************************************************)
(* mentioned: the candidate's own words name the target.                   *)
(***************************************************************************)
Evidence == [target : STRING, evidence_type : AnswerEvidenceType, mentioned : BOOLEAN]

(***************************************************************************)
(* The lookup by normalised name leaves out the target being asked about   *)
(* and, for a name two targets share, keeps the later of the two.  Empty   *)
(* when the evaluator names something that is not in the interview.        *)
(***************************************************************************)
Match(targets, current, name) ==
    LET named == {t \in DOMAIN targets \ {current} : targets[t].name = name}
    IN  {t \in named : \A u \in named : u <= t}

(***************************************************************************)
(* A denial counts only when the answer named what it denies.              *)
(***************************************************************************)
Conclusive(item) ==
    \/ item.evidence_type = "demonstrated"
    \/ item.evidence_type = "explicit_lack" /\ item.mentioned

\* Variant: evidence about an already assessed target settles it again.
NewlyAssessedAgain(targets, current, assessed, items) ==
    UNION {Match(targets, current, item.target) : item \in {i \in items : Conclusive(i)}}

NewlyAssessed(targets, current, assessed, items) ==
    (UNION {Match(targets, current, item.target) :
               item \in {i \in items : Conclusive(i)}}) \ assessed

Hinted(targets, current, assessed, items) ==
    (UNION {Match(targets, current, item.target) : item \in items})
      \ (assessed \cup NewlyAssessed(targets, current, assessed, items))
=============================================================================
