----------------------------- MODULE ReviewStudy -----------------------------
(***************************************************************************)
(* The human review of an evaluation's reports, and the commands that      *)
(* freeze each of its stages (evals/claim_validity/study.py and            *)
(* evals/recovery_v11).  A reviewer edits sheets whenever he likes; an     *)
(* operator's command reads them in several steps, may be stopped between  *)
(* any two of them, and leaves what it has written.  Nothing but the       *)
(* hashes kept in the locks tells which content a later stage rests on.    *)
(*                                                                         *)
(* Four ways to review:                                                    *)
(*   v1.0      claims, then scores, then assisted final verdicts, metrics; *)
(*   v1.1      the same sheets over recovered reports, without metrics;    *)
(*             or, while nothing of it has begun (v1.1a), the score sheet  *)
(*             released at once for an adopted review, and its results;    *)
(*   evidence  one sheet of evidence strings, frozen as a copy;            *)
(*   inventory (no review) the operators of ReviewInventory and of         *)
(*             ReviewMeasures on one input.                                *)
(*                                                                         *)
(* A sheet's content is [rev, ok]: rev names its bytes, a save writes      *)
(* bytes no file had before, and ok says that every judgment is filled in  *)
(* and the context unchanged.  Two hashes agree when the revs do.  "final" *)
(* stands for the two final and the two AI suggestion sheets, which are    *)
(* always written, read and hashed together.                               *)
(***************************************************************************)
EXTENDS ReviewInventory

CONSTANTS
  Operators,     \* terminals commands are run in
  MaxEdits,      \* how often sheets are saved
  Inputs,        \* what the operators on reports, reviews and measures are checked on
  None

\* What a file of a sheet holds, and what the lock of the initial review does.
Contents == [rev : Nat, ok : BOOLEAN]
InitialContents == [locked : Contents, claims : Contents, scores : Contents]

ASSUME ReviewStudyAssumption ==
  /\ MaxEdits \in Nat
  /\ None \notin Inputs
  /\ None \notin Nat /\ None \notin Contents /\ None \notin InitialContents

\* The reports and the scores those operators are given.
ASSUME InventoryAssumption ==
  \A i \in Inputs :
    /\ i.kind = "report" => i.report \in ReviewedReport
    /\ i.kind = "scores" => i.questions \in Seq(ScoredQuestion)

Sheets == {"claims", "scores", "final", "review", "evidence", "frozen"}
Locks == {"claims", "initial", "final", "release", "review", "evidence"}

VARIABLES
  flow,        \* the way to review
  input,       \* what those operators are checked on
  changed,     \* what is no longer as it was when it was frozen
  dirs,        \* directories that exist
  sourced,     \* source.lock.json is there
  sheet,       \* content of each sheet
  lock,        \* what each lock holds the hashes of
  edits,       \* saves so far
  released,    \* the value of edits when the score sheet was first shown
  assisted,    \* the value of edits when the AI sheets were first shown
  overwritten, \* a lock that existed was written again
  command,     \* per operator, where its command is and what it has read
  results      \* what the measured results were computed from

studyVars == <<flow, input, changed, dirs, sourced, sheet, lock, edits, released,
               assisted, overwritten, command, results>>

Idle == [at |-> "idle", saw |-> None]

Blank == [rev |-> 0, ok |-> FALSE]

StudyInit ==
  /\ \/ flow \in {"v1.0", "v1.1", "evidence"} /\ input = None
     \/ flow = "inventory" /\ input \in Inputs
  /\ changed = {}
  /\ dirs = {}
  /\ sourced = FALSE
  /\ sheet = [s \in Sheets |-> IF s = "evidence" /\ flow = "evidence" THEN Blank ELSE None]
  /\ lock = [l \in Locks |-> None]
  /\ edits = 0
  /\ released = None
  /\ assisted = None
  /\ overwritten = FALSE
  /\ command = [o \in Operators |-> Idle]
  /\ results = None

At(o, place) == command[o].at = place
Goes(o, place, saw) == command' = [command EXCEPT ![o] = [at |-> place, saw |-> saw]]
Ends(o) == command' = [command EXCEPT ![o] = Idle]

Study == {"v1.0", "v1.1"}

\* Present and complete.
Complete(s) == s # None /\ s.ok

\* open(path, "w") of a lock: whatever was there is gone.
Locked(l, content) ==
  /\ lock' = [lock EXCEPT ![l] = content]
  /\ overwritten' = (overwritten \/ lock[l] # None)

Marked(mark) == IF mark = None THEN edits ELSE mark

-----------------------------------------------------------------------------
(* What is not a command.                                                  *)

\* The reviewer saves a sheet he was given; the adopted score review is a file
\* of his own, made from the released sheet.
Save(s) ==
  /\ edits < MaxEdits
  /\ s # "frozen"
  /\ \/ sheet[s] # None
     \/ s = "review" /\ "released" \in dirs
  /\ edits' = edits + 1
  /\ \E ok \in BOOLEAN : sheet' = [sheet EXCEPT ![s] = [rev |-> edits + 1, ok |-> ok]]
  /\ UNCHANGED <<flow, input, changed, dirs, sourced, lock, released, assisted,
                 overwritten, command, results>>

\* A protocol, dataset or script, a report, or the adopted claim review is
\* changed on disk.
SourceChanges ==
  /\ flow # "inventory"
  /\ \E source \in {"protocol", "reports"} \cup (IF flow = "v1.1" THEN {"adopted"} ELSE {}) :
       source \notin changed /\ changed' = changed \cup {source}
  /\ UNCHANGED <<flow, input, dirs, sourced, sheet, lock, edits, released,
                 assisted, overwritten, command, results>>

\* A command is interrupted, or ends at a check that fails.
Stops(o) ==
  /\ ~At(o, "idle")
  /\ Ends(o)
  /\ UNCHANGED <<flow, input, changed, dirs, sourced, sheet, lock, edits, released,
                 assisted, overwritten, results>>

-----------------------------------------------------------------------------
(* What every stage checks again before anything else.                     *)

\* require_study_lock: protocol, rubric, sample, datasets, labels and scripts.
StudyLocked == "protocol" \notin changed

\* The reports have their recorded hashes, and the claims extracted from them
\* again are the inventory's.
ReportsUnchanged == "reports" \notin changed

\* validate_adopted, validate_scores: the v1.1a inputs.
AdoptedUnchanged == "adopted" \notin changed

\* _source_inventory, _checked_inventory.
SourceInventory == flow \in Study /\ StudyLocked /\ ReportsUnchanged /\ sourced

-----------------------------------------------------------------------------
(* prepare: a new directory, then its files.                               *)

PrepareDirectory(o) ==
  /\ At(o, "idle") /\ flow \in Study
  /\ StudyLocked /\ ReportsUnchanged /\ "study" \notin dirs
  /\ dirs' = dirs \cup {"study"}
  /\ Goes(o, "preparing", None)
  /\ UNCHANGED <<flow, input, changed, sourced, sheet, lock, edits, released,
                 assisted, overwritten, results>>

PrepareSheet(o) ==
  /\ At(o, "preparing") /\ sheet["claims"] = None
  /\ flow = "v1.1" => sourced
  /\ sheet' = [sheet EXCEPT !["claims"] = Blank]
  /\ IF sourced THEN Ends(o) ELSE UNCHANGED command
  /\ UNCHANGED <<flow, input, changed, dirs, sourced, lock, edits, released,
                 assisted, overwritten, results>>

PrepareLock(o) ==
  /\ At(o, "preparing") /\ ~sourced
  /\ flow = "v1.0" => sheet["claims"] # None
  /\ sourced' = TRUE
  /\ IF sheet["claims"] # None THEN Ends(o) ELSE UNCHANGED command
  /\ UNCHANGED <<flow, input, changed, dirs, sheet, lock, edits, released,
                 assisted, overwritten, results>>

-----------------------------------------------------------------------------
(* freeze-claims: lock the blind judgments, then show the scores.          *)

FreezeClaims(o) ==
  /\ At(o, "idle")
  /\ SourceInventory /\ Complete(sheet["claims"])
  /\ lock["claims"] = None /\ sheet["scores"] = None
  /\ Goes(o, "claims read", None)
  /\ UNCHANGED <<flow, input, changed, dirs, sourced, sheet, lock, edits, released,
                 assisted, overwritten, results>>

LockClaims(o) ==
  /\ At(o, "claims read")
  /\ Locked("claims", sheet["claims"])
  /\ Goes(o, "claims locked", None)
  /\ UNCHANGED <<flow, input, changed, dirs, sourced, sheet, edits, released,
                 assisted, results>>

ReleaseScores(o) ==
  /\ At(o, "claims locked")
  /\ sheet' = [sheet EXCEPT !["scores"] = Blank]
  /\ released' = Marked(released)
  /\ Ends(o)
  /\ UNCHANGED <<flow, input, changed, dirs, sourced, lock, edits, assisted,
                 overwritten, results>>

-----------------------------------------------------------------------------
(* freeze-initial: lock claims and scores, then show the AI's sheets.      *)

\* Variant: the claims are validated but not compared with their lock.
InitialRowsUnlocked ==
  /\ Complete(sheet["claims"])
  /\ lock["claims"] # None
  /\ Complete(sheet["scores"])

\* _initial_rows.
InitialRows ==
  /\ Complete(sheet["claims"])
  /\ lock["claims"] = sheet["claims"]
  /\ Complete(sheet["scores"])

FreezeInitial(o) ==
  /\ At(o, "idle")
  /\ SourceInventory /\ InitialRows
  /\ lock["initial"] = None
  /\ Goes(o, "initial read", None)
  /\ UNCHANGED <<flow, input, changed, dirs, sourced, sheet, lock, edits, released,
                 assisted, overwritten, results>>

\* The files the lock covers: the claim lock, and the sheets as they are now.
InitialFiles == [locked |-> lock["claims"], claims |-> sheet["claims"], scores |-> sheet["scores"]]

LockInitial(o) ==
  /\ At(o, "initial read")
  /\ Locked("initial", InitialFiles)
  /\ Goes(o, "initial locked", None)
  /\ UNCHANGED <<flow, input, changed, dirs, sourced, sheet, edits, released,
                 assisted, results>>

ReleaseAssistance(o) ==
  /\ At(o, "initial locked")
  /\ sheet' = [sheet EXCEPT !["final"] = Blank]
  /\ assisted' = Marked(assisted)
  /\ Ends(o)
  /\ UNCHANGED <<flow, input, changed, dirs, sourced, lock, edits, released,
                 overwritten, results>>

-----------------------------------------------------------------------------
(* freeze-final and aggregate.                                             *)

\* _final_rows.
FinalRows ==
  /\ lock["initial"] # None /\ lock["initial"] = InitialFiles
  /\ InitialRows
  /\ Complete(sheet["final"])

FreezeFinal(o) ==
  /\ At(o, "idle")
  /\ SourceInventory /\ FinalRows
  /\ lock["final"] = None
  /\ Goes(o, "final read", None)
  /\ UNCHANGED <<flow, input, changed, dirs, sourced, sheet, lock, edits, released,
                 assisted, overwritten, results>>

LockFinal(o) ==
  /\ At(o, "final read")
  /\ Locked("final", [initial |-> lock["initial"], final |-> sheet["final"]])
  /\ Ends(o)
  /\ UNCHANGED <<flow, input, changed, dirs, sourced, sheet, edits, released,
                 assisted, results>>

\* The frozen files are hashed here and read in the next step.
Aggregate(o) ==
  /\ At(o, "idle") /\ flow = "v1.0"
  /\ SourceInventory
  /\ lock["final"] # None
  /\ lock["final"] = [initial |-> lock["initial"], final |-> sheet["final"]]
  /\ Goes(o, "hashes match", None)
  /\ UNCHANGED <<flow, input, changed, dirs, sourced, sheet, lock, edits, released,
                 assisted, overwritten, results>>

AggregateRead(o) ==
  /\ At(o, "hashes match")
  /\ FinalRows /\ results = None
  /\ Goes(o, "measured", [initial |-> lock["initial"], measured |-> sheet["final"]])
  /\ UNCHANGED <<flow, input, changed, dirs, sourced, sheet, lock, edits, released,
                 assisted, overwritten, results>>

AggregateWrite(o) ==
  /\ At(o, "measured")
  /\ results' = command[o].saw
  /\ Ends(o)
  /\ UNCHANGED <<flow, input, changed, dirs, sourced, sheet, lock, edits, released,
                 assisted, overwritten>>

-----------------------------------------------------------------------------
(* v1.1a: the score sheet of a study whose own sequence has not begun.     *)

\* preflight: the prepared sheet is blank and no later file exists.
Untouched ==
  /\ SourceInventory /\ flow = "v1.1" /\ AdoptedUnchanged
  /\ sheet["claims"] = Blank
  /\ lock["claims"] = None /\ sheet["scores"] = None

Release(o) ==
  /\ At(o, "idle")
  /\ Untouched /\ "released" \notin dirs
  /\ Goes(o, "preflight passed", None)
  /\ UNCHANGED <<flow, input, changed, dirs, sourced, sheet, lock, edits, released,
                 assisted, overwritten, results>>

\* mkdir(exist_ok=False): the second of two releases fails here.
ReleaseSheet(o) ==
  /\ At(o, "preflight passed") /\ "released" \notin dirs
  /\ dirs' = dirs \cup {"released"}
  /\ Goes(o, "sheet released", None)
  /\ UNCHANGED <<flow, input, changed, sourced, sheet, lock, edits, released,
                 assisted, overwritten, results>>

ReleaseLock(o) ==
  /\ At(o, "sheet released")
  /\ lock' = [lock EXCEPT !["release"] = Blank]
  /\ Ends(o)
  /\ UNCHANGED <<flow, input, changed, dirs, sourced, sheet, edits, released,
                 assisted, overwritten, results>>

\* score_review_lock.freeze takes the review's hash ...
FreezeReview(o) ==
  /\ At(o, "idle") /\ flow = "v1.1"
  /\ lock["review"] = None /\ sheet["review"] # None
  /\ Goes(o, "review hashed", sheet["review"])
  /\ UNCHANGED <<flow, input, changed, dirs, sourced, sheet, lock, edits, released,
                 assisted, overwritten, results>>

\* ... validates what the file holds now ...
ValidateReview(o) ==
  /\ At(o, "review hashed")
  /\ lock["release"] # None /\ Untouched /\ Complete(sheet["review"])
  /\ Goes(o, "review valid", command[o].saw)
  /\ UNCHANGED <<flow, input, changed, dirs, sourced, sheet, lock, edits, released,
                 assisted, overwritten, results>>

\* ... takes it again ...
UnchangedSinceHashed(o) == At(o, "review valid") /\ sheet["review"] = command[o].saw

\* ... and creates the lock, which must not exist.
LockReview(o) ==
  /\ UnchangedSinceHashed(o) /\ lock["review"] = None
  /\ lock' = [lock EXCEPT !["review"] = command[o].saw]
  /\ Ends(o)
  /\ UNCHANGED <<flow, input, changed, dirs, sourced, sheet, edits, released,
                 assisted, overwritten, results>>

\* _verify_upstream_locks, _verify_source_reports: checked here independently of
\* the scripts the earlier stages used.
UpstreamUnchanged == changed = {}

\* claim_score_results.verify_inputs: every hash first ...
Results(o) ==
  /\ At(o, "idle") /\ results = None
  /\ lock["review"] # None /\ lock["review"] = sheet["review"]
  /\ UpstreamUnchanged /\ lock["release"] # None /\ sheet["claims"] = Blank
  /\ Goes(o, "locks verified", None)
  /\ UNCHANGED <<flow, input, changed, dirs, sourced, sheet, lock, edits, released,
                 assisted, overwritten, results>>

\* ... then the rows.  Another content with the lock's counts passes.
ResultsRead(o) ==
  /\ At(o, "locks verified") /\ Complete(sheet["review"])
  /\ Goes(o, "analysed", [initial |-> None, measured |-> sheet["review"]])
  /\ UNCHANGED <<flow, input, changed, dirs, sourced, sheet, lock, edits, released,
                 assisted, overwritten, results>>

\* Written to a temporary directory and renamed, unless one is there.
ResultsWrite(o) ==
  /\ At(o, "analysed") /\ results = None
  /\ results' = command[o].saw
  /\ Ends(o)
  /\ UNCHANGED <<flow, input, changed, dirs, sourced, sheet, lock, edits, released,
                 assisted, overwritten>>

-----------------------------------------------------------------------------
(* The evidence review.                                                    *)

FreezeEvidence(o) ==
  /\ At(o, "idle") /\ flow = "evidence"
  /\ StudyLocked /\ ReportsUnchanged /\ Complete(sheet["evidence"])
  /\ Goes(o, "evidence valid", sheet["evidence"])
  /\ UNCHANGED <<flow, input, changed, dirs, sourced, sheet, lock, edits, released,
                 assisted, overwritten, results>>

FreezeDirectory(o) ==
  /\ At(o, "evidence valid") /\ "frozen" \notin dirs
  /\ dirs' = dirs \cup {"frozen"}
  /\ Goes(o, "directory made", command[o].saw)
  /\ UNCHANGED <<flow, input, changed, sourced, sheet, lock, edits, released,
                 assisted, overwritten, results>>

\* The bytes of now, not those that were validated.
CopyEvidence(o) ==
  /\ At(o, "directory made")
  /\ sheet' = [sheet EXCEPT !["frozen"] = sheet["evidence"]]
  /\ Goes(o, "copied", command[o].saw)
  /\ UNCHANGED <<flow, input, changed, dirs, sourced, lock, edits, released,
                 assisted, overwritten, results>>

\* The copy's hash, with the counts of the validated rows.
LockEvidence(o) ==
  /\ At(o, "copied")
  /\ lock' = [lock EXCEPT !["evidence"] = [copy |-> sheet["frozen"], counted |-> command[o].saw]]
  /\ Ends(o)
  /\ UNCHANGED <<flow, input, changed, dirs, sourced, sheet, edits, released,
                 assisted, overwritten, results>>

\* verified_review: the copy is validated again; counts of other rows may agree.
VerifiedReview ==
  /\ lock["evidence"] # None /\ sheet["frozen"] = lock["evidence"].copy
  /\ Complete(sheet["frozen"])

AggregateEvidence(o) ==
  /\ At(o, "idle") /\ StudyLocked /\ ReportsUnchanged /\ VerifiedReview
  /\ Goes(o, "evidence counted", [initial |-> None, measured |-> sheet["frozen"]])
  /\ UNCHANGED <<flow, input, changed, dirs, sourced, sheet, lock, edits, released,
                 assisted, overwritten, results>>

EvidenceDirectory(o) ==
  /\ At(o, "evidence counted") /\ "results" \notin dirs
  /\ dirs' = dirs \cup {"results"}
  /\ Goes(o, "writing", command[o].saw)
  /\ UNCHANGED <<flow, input, changed, sourced, sheet, lock, edits, released,
                 assisted, overwritten, results>>

EvidenceWrite(o) ==
  /\ At(o, "writing")
  /\ results' = command[o].saw
  /\ Ends(o)
  /\ UNCHANGED <<flow, input, changed, dirs, sourced, sheet, lock, edits, released,
                 assisted, overwritten>>

-----------------------------------------------------------------------------
StudyNext ==
  \/ \E s \in Sheets : Save(s)
  \/ SourceChanges
  \/ \E o \in Operators :
       \/ Stops(o)
       \/ PrepareDirectory(o) \/ PrepareSheet(o) \/ PrepareLock(o)
       \/ FreezeClaims(o) \/ LockClaims(o) \/ ReleaseScores(o)
       \/ FreezeInitial(o) \/ LockInitial(o) \/ ReleaseAssistance(o)
       \/ FreezeFinal(o) \/ LockFinal(o)
       \/ Aggregate(o) \/ AggregateRead(o) \/ AggregateWrite(o)
       \/ Release(o) \/ ReleaseSheet(o) \/ ReleaseLock(o)
       \/ FreezeReview(o) \/ ValidateReview(o) \/ LockReview(o)
       \/ Results(o) \/ ResultsRead(o) \/ ResultsWrite(o)
       \/ FreezeEvidence(o) \/ FreezeDirectory(o) \/ CopyEvidence(o) \/ LockEvidence(o)
       \/ AggregateEvidence(o) \/ EvidenceDirectory(o) \/ EvidenceWrite(o)

StudySpec == StudyInit /\ [][StudyNext]_studyVars

-----------------------------------------------------------------------------
\* The application's scoring; plans play no part in it.
Reports == INSTANCE ReportScoring WITH ListLimit <- 3, Names <- {}

\* Every assertion of the sampled part of a report is in exactly one claim, and
\* that claim is judged against the answer the assertion is about or against the
\* whole interview; the place the blind reviewer is shown is that answer's
\* (study._add_claim, extract_inventory, claim_study._blind_inventory).
AssertionsReviewedOnce(report) ==
  LET claims == Claims(report)
  IN  /\ \A a \in Range(Assertions(report)) :
           a.text # NoText =>
             \E c \in DOMAIN claims :
               /\ claims[c].text = a.text /\ claims[c].context \in {a.source, Full}
               /\ Contains(claims[c].locations, a.location)
               /\ \A d \in DOMAIN claims : Contains(claims[d].locations, a.location) => d = c
      /\ \A c \in DOMAIN claims :
           claims[c].context # Full => BlindLocation(claims[c]) = claims[c].context

\* The study's own arithmetic gives what the application's report gives, at and
\* around every threshold, or no recovered report could be reviewed
\* (study.calculated_score_and_recommendation against services/report_scoring.py).
AgreesWithReport(questions) ==
  LET score == Reports!OverallScore(
                 questions, [k \in DOMAIN questions |-> [target |-> k, score |-> questions[k].score]])
  IN  Calculated(questions) = <<score, Reports!DeriveRecommendation(score)>>

\* An evidence string is counted as supported only if it stands word for word in
\* the one answer it was recorded for, or a reviewer named an answer that
\* supports it (audit.audit, evidence_aggregate.calculate).
SupportedBySource(own, tiers) ==
  \A judgment \in Judgments(DOMAIN tiers) :
    LET counted == Counted(own, tiers, judgment)
    IN  /\ counted.column = "automatically_attributed" =>
             \A a \in DOMAIN tiers : IF a = own THEN tiers[a] = "exact" ELSE tiers[a] = "none"
        /\ counted.cross => judgment.verdict = "supported" /\ judgment.sources \ {own} # {}

\* What the reviewers are given is what the reports say: the three above, on
\* every input.
InventoryIsTheReports ==
  flow = "inventory" =>
    /\ input.kind = "report" => AssertionsReviewedOnce(input.report)
    /\ input.kind = "scores" => AgreesWithReport(input.questions)
    /\ input.kind = "evidence" => SupportedBySource(input.own, input.tiers)

\* What is published of the reviews, the labels and the runs is consistent in
\* itself, on every input: counts and rates over the reports, the jobs and the
\* tiers are of the same reviews, the routed follow-ups differ from the model's by
\* the overrides listed, thresholds compare as they are meant to.
MeasuresAddUp ==
  flow = "inventory" =>
    /\ input.kind = "reviews" => ReviewsAddUp(input.rows, ClaimVerdicts)
    /\ input.kind = "follow-ups" => FollowUpsReconcile(input.rows)
    /\ input.kind = "matches" => SweepMeetsShipped(input.cases, 40)
    /\ input.kind = "personas" => DiscriminationAgrees(input.scores)
    /\ input.kind = "seconds" => \A p \in {50, 95, 99} : RankIsPercentile(input.values, p)
    /\ input.kind = "strings" => GroundingIsMonotone(input.evidence, input.answers)

\* What is counted is what was frozen, however sheets were saved and commands
\* stopped in between.  Published metrics rest on initial claim judgments made
\* before the scores were shown and on initial score judgments made before the
\* AI's suggestions were; only two freeze commands run at once could break that,
\* for study.py writes its locks without exclusive creation.  And a review saved
\* while it was being validated or copied is never adopted unvalidated: the v1.1a
\* lock holds a complete review, evidence results are those of a complete copy
\* (score_review_lock.freeze, evidence_aggregate.verified_review).
ResultsRestOnFrozenReviews ==
  /\ flow = "v1.0" /\ results # None /\ ~overwritten =>
       /\ results.initial.claims.rev <= released
       /\ results.initial.scores.rev <= assisted
       /\ results.initial.locked = results.initial.claims
  /\ lock["review"] # None => lock["review"].ok
  /\ flow = "evidence" /\ results # None =>
       results.measured.ok /\ results.measured = lock["evidence"].copy
=============================================================================
