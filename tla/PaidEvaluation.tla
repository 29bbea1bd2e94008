---------------------------- MODULE PaidEvaluation ----------------------------
(***************************************************************************)
(* The paid evaluation of the interviewer (evals/run_interview_eval.py,    *)
(* evals/recovery_v11/ledger.py and latency.py).                           *)
(*                                                                         *)
(*   labels written and frozen -> protocol frozen -> pilot and final runs  *)
(*   -> metrics of a final run          preflight -> latency run           *)
(*                                                                         *)
(* All of it is files and one command at a time; people go on editing the  *)
(* label sheet and the protocol documents, the process may be killed       *)
(* between any two writes, and the provider is paid for every call.        *)
(*                                                                         *)
(* A file's content is its version, 0 when there is no such file: digests  *)
(* are compared by comparing versions, and an edit is never undone.        *)
(***************************************************************************)
EXTENDS Integers, Sequences, SequencesExt, FiniteSetsExt

CONSTANTS Cases,          \* follow-up cases of the final pool
          Personas,
          Samples,        \* advance-path samples a run's latency stage wants
          MaxSessions,
          CallCap,        \* call_cap
          Jobs,           \* number of latency jobs, in sorted order
          TargetPerJob, Warmups, MaxRequests, MaxCalls,   \* of a latency run
          PerJob, PreflightCalls,                         \* of a preflight
          Versions,       \* of the label sheet and of the protocol documents
          Labelled,       \* label sheets with every case labelled, nothing else changed
          Finalised,      \* protocol versions whose text says frozen
          Regions, MaxRuns

ASSUME PaidAssumption ==
    /\ {Cases, Personas, Samples, MaxSessions, CallCap, Jobs, TargetPerJob, Warmups,
        MaxRequests, MaxCalls, PerJob, PreflightCalls, MaxRuns} \subseteq Nat
    /\ Warmups <= Jobs
    /\ Labelled \cup Finalised \subseteq Versions
    /\ Versions \subseteq Nat \ {0} /\ Versions # {}

VARIABLES labels,          \* labels/followup_blind.csv
          frozen,          \* its read-only copy and the lock's digest of it
          protocol,        \* protocol, rubrics, datasets
          protocol_lock,   \* what it was frozen over
          runs,            \* result directories
          doing            \* the command running, and where it is

paidVars == <<labels, frozen, protocol, protocol_lock, runs, doing>>

Absent == 0
BlankLabels == Min(Versions)
Nothing == [name |-> "none"]
NoLock == [files |-> Absent, labels |-> Absent]
Running(name) == doing.name = name
Doing(name, pc) == Running(name) /\ doing.pc = pc
Current == runs[doing.run]

PaidInit ==
    /\ labels = Absent
    /\ frozen = [copy |-> Absent, lock |-> Absent]
    /\ protocol = Min(Versions)
    /\ protocol_lock = NoLock
    /\ runs = <<>>
    /\ doing = Nothing

-----------------------------------------------------------------------------
(***************************************************************************)
(* People: the exported sheet is filled in, and it and the documents may   *)
(* be changed at any time.                                                 *)
(***************************************************************************)
ExportLabels ==
    /\ Running("none")
    /\ labels = Absent
    /\ labels' = BlankLabels
    /\ UNCHANGED <<frozen, protocol, protocol_lock, runs, doing>>

EditLabels(version) ==
    /\ labels # Absent
    /\ version > labels
    /\ labels' = version
    /\ UNCHANGED <<frozen, protocol, protocol_lock, runs, doing>>

EditProtocol(version) ==
    /\ version > protocol
    /\ protocol' = version
    /\ UNCHANGED <<labels, frozen, protocol_lock, runs, doing>>

(***************************************************************************)
(* The process dies, or an error nobody catches ends it.                   *)
(***************************************************************************)
Die ==
    /\ ~Running("none")
    /\ doing' = Nothing
    /\ UNCHANGED <<labels, frozen, protocol, protocol_lock, runs>>

-----------------------------------------------------------------------------
(***************************************************************************)
(* freeze_labels: validate, read the bytes again, copy, lock; the copy and *)
(* the lock are created exclusively.                                       *)
(***************************************************************************)
FreezeLabels ==
    /\ Running("none")
    /\ labels \in Labelled
    /\ frozen = [copy |-> Absent, lock |-> Absent]
    /\ doing' = [name |-> "freeze", pc |-> "read"]
    /\ UNCHANGED <<labels, frozen, protocol, protocol_lock, runs>>

CopyLabels ==
    /\ Doing("freeze", "read")
    /\ frozen' = [frozen EXCEPT !.copy = labels]
    /\ doing' = [name |-> "freeze", pc |-> "copied"]
    /\ UNCHANGED <<labels, protocol, protocol_lock, runs>>

LockLabels ==
    /\ Doing("freeze", "copied")
    /\ frozen' = [frozen EXCEPT !.lock = frozen.copy]
    /\ doing' = Nothing
    /\ UNCHANGED <<labels, protocol, protocol_lock, runs>>

LabelsUnchanged == frozen.lock # Absent /\ frozen.lock = labels /\ frozen.copy = frozen.lock

(***************************************************************************)
(* _require_frozen_labels and _require_frozen_protocol.                    *)
(***************************************************************************)
RequireFrozenLabels == LabelsUnchanged /\ labels \in Labelled

RequireFrozenProtocol ==
    protocol_lock # NoLock /\ protocol_lock = [files |-> protocol, labels |-> labels]

FreezeProtocol ==
    /\ Running("none")
    /\ RequireFrozenLabels
    /\ protocol_lock = NoLock
    /\ protocol \in Finalised
    /\ protocol_lock' = [files |-> protocol, labels |-> labels]
    /\ UNCHANGED <<labels, frozen, protocol, runs, doing>>

-----------------------------------------------------------------------------
(***************************************************************************)
(* run: follow-up cases, personas, then latency sessions, each result      *)
(* appended to the progress file as it comes.  under: the frozen versions  *)
(* at the time the run began, kept for the properties.                     *)
(***************************************************************************)
Begin(directory) ==
    /\ Running("none")
    /\ Len(runs) < MaxRuns
    /\ runs' = Append(runs, directory)
    /\ doing' = [name |-> directory.kind, pc |-> "working", run |-> Len(runs) + 1]
    /\ UNCHANGED <<labels, frozen, protocol, protocol_lock>>

Settings == [labels |-> labels, protocol |-> protocol]
Unwritten == [labels |-> Absent, protocol |-> Absent]

BeginRun(pool) ==
    /\ pool = "final" => RequireFrozenLabels
    /\ RequireFrozenProtocol
    /\ Begin([kind |-> pool, status |-> "incomplete", under |-> Settings,
              rows |-> 0, sessions |-> 0, usable |-> 0, calls |-> 0,
              metadata |-> Unwritten, metrics |-> Unwritten])

IsPool(kind) == kind \in {"pilot", "final"}

RunAt(pc) == ~Running("none") /\ IsPool(doing.name) /\ doing.pc = pc

(***************************************************************************)
(* _followup_run and _persona_run: every row costs a call, and the call    *)
(* that would exceed the cap raises.                                       *)
(***************************************************************************)
SaveRow ==
    /\ RunAt("working")
    /\ Current.rows < Cases + Personas
    /\ Current.calls < CallCap
    /\ runs' = [runs EXCEPT ![doing.run].rows = @ + 1, ![doing.run].calls = @ + 1]
    /\ UNCHANGED <<labels, frozen, protocol, protocol_lock, doing>>

(***************************************************************************)
(* _latency_run: until there are enough samples of an answer that led to   *)
(* the next question, the warm-ups not among them.                         *)
(***************************************************************************)
SaveSession(advanced) ==
    /\ RunAt("working")
    /\ Current.rows = Cases + Personas
    /\ Current.sessions < MaxSessions
    /\ Current.usable < Samples
    /\ Current.calls < CallCap
    /\ runs' = [runs EXCEPT
                  ![doing.run].sessions = @ + 1,
                  ![doing.run].calls = @ + 1,
                  ![doing.run].usable =
                     IF advanced /\ Current.sessions >= Warmups THEN @ + 1 ELSE @]
    /\ UNCHANGED <<labels, frozen, protocol, protocol_lock, doing>>

(***************************************************************************)
(* A call fails, the cap is reached or the samples are too few: the run is *)
(* marked failed.  Dying leaves it incomplete.                             *)
(***************************************************************************)
FailRun ==
    /\ RunAt("working")
    /\ Current.usable < Samples
    /\ runs' = [runs EXCEPT ![doing.run].status = "failed"]
    /\ doing' = Nothing
    /\ UNCHANGED <<labels, frozen, protocol, protocol_lock>>

WriteMetadata ==
    /\ RunAt("working")
    /\ Current.rows = Cases + Personas
    /\ Current.usable = Samples
    /\ runs' = [runs EXCEPT ![doing.run].metadata =
                  [Settings EXCEPT !.labels = IF Running("final") THEN @ ELSE Absent]]
    /\ doing' = [doing EXCEPT !.pc = "writing"]
    /\ UNCHANGED <<labels, frozen, protocol, protocol_lock>>

CompleteRun ==
    /\ RunAt("writing")
    /\ runs' = [runs EXCEPT ![doing.run].status = "complete"]
    /\ doing' = Nothing
    /\ UNCHANGED <<labels, frozen, protocol, protocol_lock>>

-----------------------------------------------------------------------------
(***************************************************************************)
(* aggregate: the labels are read after their digest was checked, and the  *)
(* digest is checked twice more before they are used.                      *)
(***************************************************************************)
BeginAggregate(run) ==
    /\ Running("none")
    /\ IsPool(runs[run].kind)
    /\ runs[run].status = "complete"
    /\ runs[run].kind = "final"
    /\ LabelsUnchanged
    /\ doing' = [name |-> "aggregate", pc |-> "read", run |-> run]
    /\ UNCHANGED <<labels, frozen, protocol, protocol_lock, runs>>

ReadLabels ==
    /\ Doing("aggregate", "read")
    /\ labels \in Labelled
    /\ doing' = [name |-> "aggregate", pc |-> "check", run |-> doing.run, labels |-> labels]
    /\ UNCHANGED <<labels, frozen, protocol, protocol_lock, runs>>

CheckMetadata ==
    /\ Doing("aggregate", "check")
    /\ RequireFrozenProtocol
    /\ Current.metadata = [labels |-> labels, protocol |-> protocol_lock.files]
    /\ Current.rows = Cases + Personas
    /\ doing' = [doing EXCEPT !.pc = "score"]
    /\ UNCHANGED <<labels, frozen, protocol, protocol_lock, runs>>

\* Variant: the sheet is read again when it is scored.
LabelsScoredLate == labels

LabelsScored == doing.labels

WriteMetrics ==
    /\ Doing("aggregate", "score")
    /\ Current.metrics = Unwritten
    /\ runs' = [runs EXCEPT ![doing.run].metrics =
                  [labels |-> LabelsScored, protocol |-> Current.metadata.protocol]]
    /\ doing' = Nothing
    /\ UNCHANGED <<labels, frozen, protocol, protocol_lock>>

-----------------------------------------------------------------------------
(***************************************************************************)
(* AttemptLedger: a row is committed as unknown before its call is sent    *)
(* and settled once.  sent counts the calls the provider has seen.         *)
(***************************************************************************)
EmptyLedger == [attempted |-> 0, completed |-> 0, failed |-> 0]

\* Variant: the row is first written when the call is settled.
StartRowLate(ledger) == ledger

StartRow(ledger) == [ledger EXCEPT !.attempted = @ + 1]

(***************************************************************************)
(* finish.  An answer without usage is refused - the cached count defaults *)
(* to zero, which makes the usage partial - so its row stays unknown and   *)
(* the call fails, as does one the provider failed.                        *)
(***************************************************************************)
Outcomes == {"completed", "failed", "no_usage"}

Settled(ledger, outcome) ==
    CASE outcome = "completed" -> [ledger EXCEPT !.completed = @ + 1]
      [] outcome = "failed" -> [ledger EXCEPT !.failed = @ + 1]
      [] outcome = "no_usage" -> ledger

Unknown(ledger) == ledger.attempted - ledger.completed - ledger.failed

-----------------------------------------------------------------------------
(***************************************************************************)
(* latency.py: run_paid and collect.                                       *)
(***************************************************************************)
IsPaid(kind) == kind \in {"preflight", "latency"}
PaidAt(pc) == ~Running("none") /\ IsPaid(doing.name) /\ doing.pc = pc

\* Variant: a request whose question had to be asked for twice is counted.
UsableThoughRetried(row) == row.path = "advance" /\ ~row.warmup

Usable(row) == row.path = "advance" /\ ~row.warmup /\ ~row.retried

Count(run, job) ==
    Cardinality({k \in DOMAIN run.rows : run.rows[k].job = job /\ Usable(run.rows[k])})

Balanced(run) == \A job \in 1..Jobs : Count(run, job) = TargetPerJob

Deficit(run) == FoldSet(LAMBDA job, sum : sum + TargetPerJob - Count(run, job), 0, 1..Jobs)

Limit(kind) == IF kind = "preflight" THEN Jobs * PerJob ELSE MaxRequests
CallLimit(kind) == IF kind = "preflight" THEN PreflightCalls ELSE MaxCalls

(***************************************************************************)
(* require_successful_preflight, for this protocol and region.             *)
(***************************************************************************)
CleanPreflight(run, region) ==
    /\ run.kind = "preflight"
    /\ run.status = "complete"
    /\ run.region = region
    /\ run.protocol = protocol
    /\ \A job \in 1..Jobs : Count(run, job) = PerJob
    /\ \A k \in DOMAIN run.rows : Usable(run.rows[k])
    /\ run.ledger.attempted \in 1..PreflightCalls
    /\ run.ledger.completed = run.ledger.attempted

RequireSuccessfulPreflight(region) == \E k \in DOMAIN runs : CleanPreflight(runs[k], region)

BeginPaid(phase, region) ==
    /\ RequireFrozenProtocol
    /\ RequireFrozenLabels
    /\ phase = "latency" => RequireSuccessfulPreflight(region)
    /\ Begin([kind |-> phase, status |-> "incomplete", region |-> region, protocol |-> protocol,
              rows |-> <<>>, started |-> 0, ledger |-> EmptyLedger, sent |-> 0])

WarmUp(run) == run.kind = "latency" /\ Len(run.rows) < Warmups

Needed(run) == SelectSeq([job \in 1..Jobs |-> job], LAMBDA job : Count(run, job) < TargetPerJob)

(***************************************************************************)
(* Jobs in turn for a preflight and for the warm-ups, then whichever still *)
(* lack samples.                                                           *)
(***************************************************************************)
JobOf(run) ==
    LET index == Len(run.rows)
        needed == Needed(run)
    IN  IF run.kind = "preflight" \/ WarmUp(run) THEN 1 + (index % Jobs)
        ELSE needed[1 + ((index - Warmups) % Len(needed))]

(***************************************************************************)
(* The loop's conditions, and the checks made before each request.         *)
(***************************************************************************)
MoreToDo(run) ==
    /\ Len(run.rows) < Limit(run.kind)
    /\ run.kind = "latency" => ~Balanced(run)

Affordable(run) ==
    LET left == CallLimit(run.kind) - run.ledger.attempted
    IN  left > 0 /\ (run.kind = "latency" => left >= 2 * Deficit(run))

StartRequest ==
    /\ PaidAt("working")
    /\ MoreToDo(Current)
    /\ Affordable(Current)
    /\ runs' = [runs EXCEPT ![doing.run].started = @ + 1]
    /\ doing' = [name |-> doing.name, pc |-> "call", run |-> doing.run,
                 job |-> JobOf(Current), asking |-> "evaluation", retried |-> FALSE]
    /\ UNCHANGED <<labels, frozen, protocol, protocol_lock>>

(***************************************************************************)
(* One model call of the request: the evaluation of the answer, then the   *)
(* next question, asked for a second time when the first is not valid.     *)
(***************************************************************************)
SendCall ==
    /\ PaidAt("call")
    /\ Current.ledger.attempted < CallLimit(doing.name)
    /\ runs' = [runs EXCEPT ![doing.run].ledger = StartRow(@), ![doing.run].sent = @ + 1]
    /\ doing' = [doing EXCEPT !.pc = "sent"]
    /\ UNCHANGED <<labels, frozen, protocol, protocol_lock>>

AskAgain(asking, retried) ==
    /\ PaidAt("sent")
    /\ runs' = [runs EXCEPT ![doing.run].ledger = Settled(@, "completed")]
    /\ doing' = [doing EXCEPT !.pc = "call", !.asking = asking, !.retried = retried]
    /\ UNCHANGED <<labels, frozen, protocol, protocol_lock>>

EvaluatedToAdvance ==
    /\ PaidAt("sent")
    /\ doing.asking = "evaluation"
    /\ AskAgain("question", FALSE)

QuestionInvalid ==
    /\ PaidAt("sent")
    /\ doing.asking = "question"
    /\ ~doing.retried
    /\ AskAgain("question", TRUE)

(***************************************************************************)
(* The row is saved, and a run that can no longer succeed is given up: a   *)
(* preflight on its first unusable row, a latency run when the requests    *)
(* left cannot make up the samples lacking.                                *)
(***************************************************************************)
Saved(run, path) ==
    [run EXCEPT !.rows = Append(@, [job |-> doing.job, path |-> path, warmup |-> WarmUp(run),
                                    retried |-> doing.retried])]

GivenUp(run) ==
    \/ run.kind = "preflight" /\ ~Usable(Last(run.rows))
    \/ run.kind = "latency" /\ Deficit(run) > MaxRequests - Len(run.rows)

Ended(run, status) == [run EXCEPT !.status = status, !.protocol = protocol]

EndRequest(path, ledger) ==
    LET run == [Saved(Current, path) EXCEPT !.ledger = ledger]
    IN  /\ runs' = [runs EXCEPT ![doing.run] =
                      IF GivenUp(run) THEN Ended(run, "failed") ELSE run]
        /\ doing' = IF GivenUp(run) THEN Nothing
                      ELSE [name |-> doing.name, pc |-> "working", run |-> doing.run]
        /\ UNCHANGED <<labels, frozen, protocol, protocol_lock>>

Answered(path) ==
    /\ PaidAt("sent")
    /\ IF doing.asking = "question" THEN path = "advance" ELSE path \in {"follow_up", "finish"}
    /\ EndRequest(path, Settled(Current.ledger, "completed"))

RequestFails(outcome) ==
    /\ PaidAt("sent")
    /\ EndRequest("error", Settled(Current.ledger, outcome))

QuestionsStayInvalid ==
    /\ PaidAt("sent")
    /\ doing.retried
    /\ EndRequest("error", Settled(Current.ledger, "completed"))

NoCallsLeft ==
    /\ PaidAt("call")
    /\ Current.ledger.attempted >= CallLimit(doing.name)
    /\ EndRequest("error", Current.ledger)

(***************************************************************************)
(* The end of collect, one way or the other, and an interruption by hand.  *)
(***************************************************************************)
EndPaid(status) ==
    /\ runs' = [runs EXCEPT ![doing.run] = Ended(@, status)]
    /\ doing' = Nothing
    /\ UNCHANGED <<labels, frozen, protocol, protocol_lock>>

CompletePaid ==
    /\ PaidAt("working")
    /\ ~MoreToDo(Current)
    /\ Running("latency") => Balanced(Current)
    /\ EndPaid("complete")

FailPaid ==
    /\ PaidAt("working")
    /\ MoreToDo(Current)
    /\ ~Affordable(Current)
    /\ EndPaid("failed")

Interrupt ==
    /\ ~Running("none") /\ IsPaid(doing.name)
    /\ EndPaid("interrupted")

-----------------------------------------------------------------------------
People ==
    \/ ExportLabels
    \/ \E version \in Versions : EditLabels(version)
    \/ \E version \in Versions : EditProtocol(version)

Evaluate ==
    \/ FreezeLabels
    \/ CopyLabels
    \/ LockLabels
    \/ FreezeProtocol
    \/ \E pool \in {"pilot", "final"} : BeginRun(pool)
    \/ SaveRow
    \/ \E advanced \in BOOLEAN : SaveSession(advanced)
    \/ FailRun
    \/ WriteMetadata
    \/ CompleteRun
    \/ \E run \in DOMAIN runs : BeginAggregate(run)
    \/ ReadLabels
    \/ CheckMetadata
    \/ WriteMetrics

Measure ==
    \/ \E phase \in {"preflight", "latency"}, region \in Regions : BeginPaid(phase, region)
    \/ StartRequest
    \/ SendCall
    \/ EvaluatedToAdvance
    \/ QuestionInvalid
    \/ \E path \in {"advance", "follow_up", "finish"} : Answered(path)
    \/ \E outcome \in Outcomes \ {"completed"} : RequestFails(outcome)
    \/ QuestionsStayInvalid
    \/ NoCallsLeft
    \/ CompletePaid
    \/ FailPaid
    \/ Interrupt

PaidNext == People \/ Evaluate \/ Measure \/ Die

PaidSpec == PaidInit /\ [][PaidNext]_paidVars

-----------------------------------------------------------------------------
(***************************************************************************)
(* Reported metrics come from a final run that finished, and compare its   *)
(* predictions with the labels that were frozen before it made the first   *)
(* of them, under the protocol it began with - whoever edited what since.  *)
(***************************************************************************)
MetricsRestOnFrozenLabels ==
    \A k \in DOMAIN runs : IsPool(runs[k].kind) =>
        LET run == runs[k]
        IN  run.metrics # Unwritten =>
              /\ run.kind = "final" /\ run.status = "complete"
              /\ run.rows = Cases + Personas
              /\ run.metrics = run.under
              /\ run.metrics = [labels |-> frozen.lock, protocol |-> protocol_lock.files]

(***************************************************************************)
(* Every call the provider has seen is in the run's ledger, whatever       *)
(* happened to the process; no more are made than were allowed; and unless *)
(* the process died or was stopped in a call, what is left unknown is a    *)
(* call whose request is on record as failed.                              *)
(***************************************************************************)
EveryPaidCallOnRecord ==
    \A k \in DOMAIN runs : IsPaid(runs[k].kind) =>
        LET run == runs[k]
            errors == {i \in DOMAIN run.rows : run.rows[i].path = "error"}
        IN  /\ run.sent <= run.ledger.attempted
            /\ run.ledger.attempted <= CallLimit(run.kind)
            /\ run.started \in Len(run.rows)..Len(run.rows) + 1
            /\ run.started = Len(run.rows) => Unknown(run.ledger) <= Cardinality(errors)

(***************************************************************************)
(* A complete latency sample is balanced over the jobs and free of         *)
(* warm-ups, of retried requests and of failures, and was taken in a       *)
(* region where a preflight had gone through with every call priced.       *)
(***************************************************************************)
SampleIsBalanced ==
    \A k \in DOMAIN runs : runs[k].kind = "latency" /\ runs[k].status = "complete" =>
        /\ \A job \in 1..Jobs :
              LET sample == {i \in DOMAIN runs[k].rows :
                               runs[k].rows[i].job = job /\ i > Warmups
                                 /\ runs[k].rows[i].path = "advance" /\ ~runs[k].rows[i].retried}
              IN  Cardinality(sample) = TargetPerJob
        /\ \E i \in 1..k - 1 : /\ runs[i].kind = "preflight" /\ runs[i].region = runs[k].region
                               /\ Unknown(runs[i].ledger) = 0 /\ runs[i].ledger.failed = 0
                               /\ Len(runs[i].rows) = Limit("preflight")
=============================================================================
