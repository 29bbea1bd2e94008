# InterMind: a TLA+ development

InterMind interviews candidates for a recruiter: it turns a job description into a plan of
coverage targets, asks about them one at a time, decides from each answer whether to follow up
or move on, and reports on the evidence at the end. This directory holds TLA+ models of the
system, the TLC configurations that check them on small instances, and theorems about them proved
with TLAPS for every value of the constants. Paths below are relative to `src/`; `app/`, `evals/`
and `scripts/` are directories of `backend/`.

    tlc -workers 2 -config MCInterviewLoop.cfg MCInterviewLoop      # a run
    tlapm InterviewLoopProofs.tla                                    # the proofs of a module

`PROJECT.json` lists the runs, the code lines behind every definition (`map`), the hazards the
properties are aimed at, a mutant of the model for each property (an operator commented
"Variant", or "plausible bug", says what the code would do if it had that bug), and the theorems.

## 1. The system: components, state, interaction

| Component | State | Operations | Hard behaviour | What makes it correct |
|---|---|---|---|---|
| Adaptive loop, `app/agents/interview_graph.py` | the graph state: targets, assessed ids, hints, current question and follow-up, history, status | the nodes `select_target`, `ask_question`, `evaluate_answer`, `follow_up_question`, `finish` and two routers | a node's update is applied only when the interrupt after it is resumed; text, id and counter of a follow-up are set by different nodes | what is recorded is what was shown; one bounded exchange per target; assessed and on record agree; the interview ends |
| Selection, `app/services/target_selection.py` | none | `select_next_target` | budgets per category, raised by required targets, used up by incidental evidence | required before preferred; required targets are missed only for a stated reason |
| Cross-target evidence, `app/services/cross_target_evidence.py` | none | `resolve_cross_target_evidence` | a list of items about any target, repeated, contradictory or invented, and shared names | a target is settled at most once and only by a conclusive item |
| Evaluation policy, `app/domain/evaluation.py`, `app/services/answer_evaluation.py` | none | `resolve_follow_up_decision` | the cap, score bands | bounded follow-ups, none without a concrete question |
| Planner, `app/services/interview_planner.py` | none | `plan`, `_build_coverage_targets` | caps, de-duplication, grounding gates | the plan is the job description's; ids unique |
| Question generation, `app/services/question_generation.py` | none | two attempts and a fallback | a model that words a question about something else | the candidate is asked about the target on record |
| Report, `app/services/report_scoring.py`, `report_generation.py` | none | scores, lists, recommendation, summary | shared names, follow-ups, blank turns, list caps | every target and all evidence is accounted for |
| Interview session service, `app/services/interview_session.py` | graph threads in process memory, a lock per interview, four transaction permits per process | `start`, `submit_answer`, `get_state` | several processes, retries, cancellation anywhere, model failures in mid-graph, lost responses, crashes | each turn consumed once, acknowledged means recorded, failures leave nothing behind, everything locked is released |
| SQL repositories, `app/repositories/sql.py` | PostgreSQL rows | inserts, `locked`, reads | row locks across processes, commit outcome unknown | the compare and the commit are one transaction |
| Interviews routes, `app/api/routes/interviews.py` | reports (one per interview), activity feed | start, answer, read, report, list | report generated under the interview's locks; feed written after the commit | one report per interview, no trace after erasure |
| Privacy, `app/privacy/retention.py` | the same rows | owner deletion, retention sweep, orphan purge | races with answers, reports, activity and `start` | nothing recent is deleted, nothing erased comes back |
| Rate limiting, `app/core/rate_limit.py`, `app/core/sql_rate_limit.py`, `app/api/abuse.py` | admissions per bucket, identity and window | `check` | all budgets or none, clock read before the lock, full table, failed commit | never more admissions than the ceiling in any window |
| Recruiter sessions and access, `app/api/recruiter_session.py`, `app/api/auth.py`, `app/api/routes/auth.py` | accounts, sessions with an expiry, interview tokens | sign-up, sign-in, sign-out, resolve | expiry, revocation and pruning against requests under way; a failure between account and session | a request gets what its credential owns; sign-up is all or nothing |
| Jobs and plans, `app/api/routes/jobs.py`, `interview_plans.py` | jobs, one plan per job | create, list, read, create-or-return | check, generate, store without a lock | a plan is replaced only by a call that raced with its creation |
| Request deadline, `app/core/request_budget.py` | none | cancels the handler | at any await | (with the others) |
| Model clients, `app/llm/` | none | one structured call each; the offline model | what a model may answer | the offline model keeps to the policy the rest assumes |
| Candidate page, `frontend/src/pages/candidate/InterviewStagePage.tsx` | the turn shown, the draft, in-flight flag | submit, recover from 409/412 | grace window before sending, stale closures, lost responses, a second tab | no word is lost or sent twice |
| Speech input, `frontend/src/speech/useSpeechInput.ts`, `azureSpeech.ts`, `browserSpeech.ts` | recognizer sessions, epochs, restarts | start, stop, collect, restart | callbacks of superseded sessions, unexpected ends, slow opening | one microphone, and the state shown is true |
| Speech output, `frontend/src/speech/useSpeechOutput.ts`, `azureSpeechOutput.ts`, `browserSpeech.ts` | narration generations, watchdog | speak, cancel, fall back | late callbacks, a fallback in mid-sentence | the voice heard is the present question's |
| Speech tokens, `app/services/speech_token.py`, `app/api/routes/speech.py`, the page's cache in `frontend/src/speech/azureSpeechOutput.ts` | the process' Entra credential, the page's kept token | issue, cache, retire, close | completion between check and issue, tokens that arrive late or for a narration replaced meanwhile, a life told at one time and counted from another | a token serves its own interview, while it lasts |
| Operations scripts, `scripts/` | databases, archives, manifests, roles, the new backend's variables | stop site, back up, restore, migrate, create role, configure, smoke test, clean up | run by hand, in any order, stopped and repeated | the backend is pointed only at a verified copy; a cleanup leaves the originals |
| Review of evaluation reports, `evals/claim_validity/`, `evals/recovery_v11/` | sheets, locks, copies | prepare, freeze, release, aggregate | people go on editing; commands die between writes | results rest on what was frozen, before anything was shown |
| Paid evaluation, `evals/run_interview_eval.py`, `recovery_v11/ledger.py`, `latency.py` | labels, protocol, locks, runs, ledger | freeze, pilot, run, metrics, preflight, latency | killed in a paid call, edits meanwhile | metrics rest on frozen labels; every paid call is on record |
| Fetching hooks, `frontend/src/hooks/` | request versions | fetch, refetch | late responses | the newest request wins |

The rest keeps no protocol state: the O*NET knowledge base is a read-only index, the OpenAI
client is I/O, and engine, configuration, error mapping and tracing are wiring.
`PROJECT.json` lists each with the reason it is left out.

How the parts meet. A route (`POST /interviews/{id}/answers`) charges the rate limiter, then calls
`submit_answer`. The service takes the interview's lock and a permit of its process, opens a
transaction that locks the interview's row, compares the turn, rebuilds the graph thread from the
row's snapshot and resumes it with the answer. The graph runs `evaluate_answer` (a model call),
and either `follow_up_question` or `select_target` (another model call) up to the next interrupt
or its end. The new state goes back to the row under a new turn id; only after the commit does the
route write to the activity feed and answer. Reports and Speech tokens use the same lock,
permits and row. On the other side, the candidate's page composes the answer from what is typed
and what the recognizer hears, stops the recognizer, waits for the last words and submits them
with the turn id it was shown. Owner deletion and the scheduled retention sweep take the row lock
and erase an interview with all that hangs on it.

## 2. What is modelled, and how it corresponds to the code

| Module | Models | State and actions |
|---|---|---|
| `InterviewPlan` | the category order, priorities and shape of coverage targets | operators; `IsPlan` is what the loop relies on |
| `TargetSelection` | `select_next_target` | operators over a plan and the assessed set |
| `CrossTargetEvidence` | `resolve_cross_target_evidence` | operators; a list of items is kept as a set (the module says why that loses nothing) |
| `InterviewLoop` | the graph | one variable per state key that matters, plus `node`, the node to run next; one action per node outcome: `SelectTarget`, `NoTargetLeft`, `AskQuestion`, `EvaluateBlank`, `EvaluateGiven`, `FollowUpQuestion`, `Finish` |
| `CoverageLedger` | abstract: what the loop promises about targets | `phase` of each target, `finished`; `Ask`, `Settle`, `Finish` |
| `InterviewSession` | `start` and `submit_answer`, over the SQL repositories, in several processes | the row, candidates, row locks (PostgreSQL); locks, permits, threads (memory); `pc` and the working record of each request |
| `TurnLog` | abstract: what accepting answers promises | the log of accepted answers and the open turn of each interview; `Publish`, `Accept` |
| `InterviewLifecycle` | the rows of an interview from `start` to erasure: answers, reports, listings, the feed, owner deletion, sweep, orphan purge | the four tables, the row locks, each call's `pc` and what it has read, the sweep's selection; one action per stretch between awaits (`AnswerLocks`, `AnswerCommits`, `AddEvent`, `LockForReport`, `StoreReport`, `SelectExpired`, `PurgeSelected`, ...) |
| `RateLimit` | `check` of both limiters and the budgets each operation charges | `events` on record, each request's `pc`, `charge` and clock reading `now`; `Check` (memory); `ReadClock`, `CheckLocked`, `Fail`, `FailAfterCommit` (SQL); `Tick` |
| `RecruiterAccess` | accounts, browser sessions over either store, bearer tokens, job and plan routes | the tables, each call's credential and what it has been given; the steps of each route, `Cancel` at every await |
| `Sorting` | Python's `sorted` and list comprehensions, by what the resulting list is | operators, first-order so that they can be proved about |
| `PlanBuilding` | the planner: grounding, de-duplication, caps, occupation match and its margin | operators; `Plan(spec, match)` |
| `ReportScoring` | grouping of turns, scores, recommendation, lists, summary | operators, one per function: `QuestionEvaluations`, `OverallScore`, `BuildStrengths`, ... |
| `FakeClient` | the offline model: reading a description, classifying evidence, evaluating an answer, questions, narrative | operators |
| `InterviewReport` | composition: `PlanBuilding`, `TargetSelection`, `CrossTargetEvidence` and `ReportScoring` from a description to a report, with the wording attempts of question generation | `MakePlan`, `Ask`, `NothingLeft`, `Answer`, `Generate` |
| `OfflineModel` | composition: `InterviewReport` with `FakeClient`; what the rest of the system may take for granted of its model | no state of its own; the descriptions, answers, word lengths and the excerpt's limit that the model is given |
| `SpeechInput` | the recognition hook over Azure's and the browser's recognizer | the hook's refs (`hook`), the recognizer sessions, the words heard; one action per callback and timer |
| `StagePage` | composition: the page, the answer field and the submission over `SpeechInput`, with the server as the other end | `page`, `answer`, `requests`, `server`; `Type`, `PressMicrophone`, `PressSend`, `Send`, `Receive`, `Accepted`, `Stale`, `Reload`, `AlreadyFinished`, `ConnectionLost`, `AnotherTab`, `WalkAway`, `BeatOver` |
| `Narration` | the narration hook over both synthesizers | the hook's refs (`voice`), the providers (`sound`); one action per callback and timer |
| `SpeechToken` | the Azure credentials both hooks use: the route with its locks and refusals, the process' one Entra credential, what a reply tells of a token's life, the page's cache, the microphone's fresh token | `entra`, `calls`, `completed` on the server, `tab`, `cached`, `connection` in the page, `clock`; one action per stretch between awaits, `Tick` |
| `ProductionCutover` | the scripts that move the database, and the two for staging | the databases, archives, manifests, smoke records, the backend's variables; per terminal the script under way; one action per step between which a script may stop |
| `ReviewInventory` | what reviewers are given: claims, recomputed scores, support of evidence strings | operators over one report |
| `ReviewMeasures` | grounding of evidence strings, metrics, the gate's measures, follow-up discrimination, statistics of the reviews | operators |
| `ReviewStudy` | the commands of the four ways to review | sheets with the version of their bytes, locks with the hashes they keep, per operator the command under way; `Save` by a reviewer at any time |
| `PaidEvaluation` | labels, protocol, pilot and final runs, metrics, preflight, latency runs, ledger | versions of the files, the locks, the result directories, the command under way; `Die` anywhere |

Each `MC` module instantiates one of these for TLC (`MCEvaluations` both evaluations, `MCStagePage`
the page with both speech hooks and their credentials); each `Proofs` module holds the theorems of
one, or of those its `MC` module instantiates together; `ScriptProofs` has those of the cut-over
and of both evaluations, all of them scripts run by hand.

`InterviewLoop` and `InterviewSession` meet at the graph thread. The session service sees of the
loop only which answers it has taken in and whether it waits for another (`thread`,
`session[r].log`, `open`); a failed model call is no step of the loop, because the invocation is
discarded, and that this is so (that a failed, cancelled or crashed attempt leaves no thread to
build on) is `ThreadsHoldCommitted` of the session. `InterviewLifecycle` takes the turn protocol
from `InterviewSession` and sees of it that an answer holds the row lock from its look at the row
to its commit. `StagePage` sees of the server what `TurnLog` promises: an answer is accepted once,
for the open turn.

Abstractions worth knowing:

- A target is its position in the plan. In the code its id is a hash of job, category and
  normalised name; the planner keeps one target per category and name, so the two correspond.
  Positions also make the two candidates a lookup by name has to choose between visible.
- A question is a pair of its target and its number within the target's exchange. `shown` is the
  question whose *text* is in `current_question_text`, `follow_up_id` the id in
  `current_follow_up_id`: the code keeps the two apart, and so does the model.
- What the model says of an answer is any member of `Evaluations`. Its own `decision` is left out
  because the code overrides it.
- Blank answers are in the model because `evaluate_answer` handles them. The HTTP schema refuses
  them before they get that far (`app/api/schemas.py:147`), so through the API `EvaluateBlank` is
  never taken; every property checked holds with it and so without it.
- Turn ids are `uuid4` values; the model draws them from a counter, and `TypeOK` says that no turn
  is ever named before it is drawn. Other random identifiers are the name of the call that makes
  them.
- `await` points are where another task can run. An action is what happens between two of them.
  In the session: taking the lock, taking a permit, the row lock with the comparison, the rebuild
  of the thread, the graph's run, the commit, the response.
- A deadline or a disconnect cancels a request at any of these points (`DeadlineExpires`,
  `RespondFails`, `Cancel`); an exception releases what the `async with` blocks hold (`Fail`); a
  commit may take effect without the process hearing of it (`CommitUnacknowledged`), or not
  (`CommitFails`); a process may die with everything in its memory (`Crash`).
- Time is a counter that `Tick` advances. A deadline is kept: the clock does not pass a call's
  last moment while the call is under way, because the middleware cancels it.
- A text is what it is compared by: a word, an utterance, a claim's key. The normalisations the
  code applies before it compares are part of the operators that compare.
- A file's content is its version, and a hash is the version it was taken of.
- The models of the services cover deployments with PostgreSQL; `RateLimit` and `RecruiterAccess`
  cover the in-memory stores as well, because deployments may run those.

## 3. What is checked

| Run | Question | Bounds | States | Result |
|---|---|---|---|---|
| `interview_loop` | what the loop asks, records, assesses, and when it ends; that it implements `CoverageLedger` | 12 plans of four or five targets, budgets 1/2/1, one follow-up, 38 evaluations | 151,395 | passes |
| `preferred_crowds_out_required` | the policy's documented promise about preferred targets | same | - | violated, see below |
| `interview_session` | no turn twice, responses true to the record, threads, permits, candidates; that it implements `TurnLog` | 2 interviews, 3 requests, 2 processes, 1 permit, with symmetry | 691,644 | passes |
| `interview_session_liveness` | every submission is answered | 2 interviews, 2 requests, 2 processes, 1 permit, no symmetry | 209,984 | passes |
| `interview_lifecycle` | no trace of the erased, one report, nothing recent swept, listings cut short only by erasure | 2 interviews, 2 calls of any kind, retention 2, deadline 1, batches of 1, time up to 4 | 2,425,186 | passes |
| `rate_limit` | ceilings in every window, all budgets or none, bounded record, sufficient Retry-After | both limiters, 2 identities, 4 requests, budgets with one and two windows, deadline 1, 3 tracked keys, 7 rows, time up to 4 | 376,850 | passes |
| `recruiter_access` | what a credential opens, atomic sign-up, plan kept | both stores, 2 recruiters, 1 free address, 3 calls, time to live 1, time up to 1 | 1,681,597 | passes |
| `interview_report` | the plan, the wording, the report, the offline model | 3 descriptions, 3 occupations, 4 matches | 137,544 | passes |
| `stage_page` | one microphone, every word once, the question's own voice, tokens that serve their interview | both providers of each, 1 silent restart, 2 sessions, 2 utterances, 1 keystroke, 2 turns, 2 submissions, 3 questions; 2 interviews, 2 token calls, either way to authenticate, 3 minutes | 3,281,426 | passes |
| `recording_state_lies` | the recording state shown to the candidate | Azure, 2 sessions, 1 utterance, 1 submission | - | violated, see below |
| `production_cutover` | verified configuration, role fits schema, cleanup leaves the originals | 2 terminals, 2 smoke runs, 2 passwords, 2 backups, 1 write by the old site | 1,706,271 | passes |
| `evaluations` | what results rest on, what is on record, what is sampled, what is counted | 2 operators, 4 saves, 3 versions of labels and protocol, 2 runs | 1,204,736 | passes |

Why the bounds are enough to be interesting.

- *Loop.* The first family of plans has more technologies than the category's budget, with every
  choice of which are required, so that the cap is raised or not, and a technology that shares the
  competency's name. The second has one target more than the total budget, two required
  competencies in a category with budget one, and a task after preferred technologies. Evidence
  covers every name, an invented one, hints, denials with and without the name being mentioned,
  two items at once and two about the same target. Scores are the ones at the edges of the bands.
  The cap of follow-ups is the code's own (1).
- *Session.* Three requests give a submission, its duplicate and a later one on the same
  interview, in one or two processes, or one of them on the other interview; each may carry any
  turn a response has ever shown. With a single permit per process the semaphore is contended.
  Nothing is bounded by a constraint: each interview starts at most once, each request is sent at
  most once, and a retry is another request.
- *Lifecycle.* Two calls of any kind meet the sweep, the purge and a start: an answer with its
  event against a report, a deletion or another answer. With retention 2 and time up to 4 an
  interview can become due, be touched between its selection and the recheck, and become due
  again. The second interview gives a listing two rows and a sweep of one a choice.
- *Rate limit.* A budget with a short and a long window, one shared by two interviews, one of a
  single admission; requests are decided at clock readings up to the deadline old. Three tracked
  keys and seven rows are reached by the four requests.
- *Access.* Two calls that write (sign-up, sign-in, sign-out, plan) and one of any kind. Time to
  live 1 lets a session expire between two steps of a call.
- *Report.* The descriptions have more technologies than the cap with a required one last, a name
  that is both a competency and a technology, and responsibilities that normalise alike; the
  matches are a clear one, a near tie, one on the title alone and none. Evaluations lie on both
  sides of each band; the model's wordings include the wrong target once and twice.
- *Page.* Two recognizer sessions and two utterances give a callback of a superseded session, a
  silent restart and its limit; two submissions a retry after a lost response or an answer for the
  next turn. Listening, speaking and asking for credentials share no state, so they are explored one
  at a time; the
  browser's recognizer, which runs the same hook, is given one utterance and one answer.
- *Tokens.* A key's token lasts three minutes and is told as two; the margin is one and a reply may
  take as long. Two interviews in one tab let a token kept for one meet the other, two calls a
  token that arrives after the one that replaced it; either interview may be completed at any
  moment. Interviews and calls are symmetric.
- *Cut-over.* Two terminals allow any two scripts at once; two stamps an archive that pairs with
  the fingerprints of another moment; two markers a smoke run that goes on while another's
  remains are cleaned up; two passwords a role whose password changes. One write makes the old
  rows differ from a backup. The marker, password and stamp sets are symmetric.
- *Evaluations.* The paid one and the review share no file and are explored one at a time. Four
  saves reach every stage of a review with one edit in between; three protocol versions give a
  draft, the final text and an edit after freezing; two runs a pilot with a final one, two final
  ones, or a preflight with a latency run. The inventory is checked on every report, score list
  and evidence string of `MCInputs`,
  the measures on reviews of two jobs by three personas, three follow-up cases, three matches, four
  latencies, and strings of four words against two answers.

Fairness. Only the loop and the session make liveness claims. The loop assumes that a graph whose
node can run runs it (LangGraph does, until the next interrupt), and that the candidate answers:
`InterviewCompletes` is about a candidate who does. The session assumes only that the event loop
resumes a request whose lock, permit, row or model answer is available (`WF` of `Step`, per
request). Asyncio hands a lock or a permit to waiters in order and PostgreSQL a row lock likewise;
model calls carry a timeout, after which the node raises (`Fail`). No failure, deadline or crash
is assumed to happen. The other models state safety only: what people, providers and operators do
next is theirs to decide, and where the page must not wait for ever the claim is one about states
(`OneMicrophone`: a session is open, opening or scheduled; `NarrationIsTheQuestions`: something is
heard or the watchdog is armed).

Deadlock is not checked in any model: interviews end, requests are answered, clocks reach their
bound and scripts finish, and all of them stop for good. That nobody waits for ever is the
business of the liveness properties.

### Promises the code does not keep

- `select_next_target` documents that preferred targets "can never crowd out a required target in
  the same category" (`app/services/target_selection.py:100`). Its cap counts every assessed target
  of the category, including preferred ones that an answer to another question settled. In
  `preferred_crowds_out_required` an answer volunteers evidence about a preferred technology, the
  category's cap is reached, and the interview completes with a required technology never asked
  about and total budget to spare. What does hold is `RequiredMissedOnlyByBudgetOrEvidence`: this
  is the only way, besides the total budget, in which a required target is missed.
- `frontend/src/speech/types.ts:73` requires that capture and state agree "so the UI's 'recording'
  state never lies". `stopAndCollect` (`useSpeechInput.ts:315`) finds no open session when an
  answer is sent before a scheduled restart or while a session is still opening: it cancels the
  restart, but leaves the status as it was and does not retire the session that is opening. In
  `recording_state_lies` the page goes on saying that it records with the microphone closed.

### What the properties had to leave out

Where a property allows for an exception, the exception is what the code does. Beyond the two
runs above, these disagree with a comment or are worth a second look:

- *Planner.* The docstring at `interview_planner.py:318` says that a required skill is never
  excluded from the plan; with more required ones than the cap, or a required one listed again as
  preferred, one may be.
- *Report.* The docstring of `completion_reason` in `app/domain/report.py` does not hold of an
  interview that ended by crowding (above). The narrative prompt gets the score with two decimals,
  so that just below a band's edge the prose may be written for the next band.
- *Rate limit.* The in-memory "hard ceiling on distinct tracked keys" is exceeded by less than one
  request's keys; the SQL limiter's "exact rolling windows" are exact except for the longest one
  at stale clock readings, which is why `WindowNeverOverdrawn` excludes those.
- *Plans.* That a plan "should never be silently regenerated" (`interview_plans.py`) can be broken
  by two concurrent first calls, and by nothing else (`PlanReplacedOnlyByRace`).
- *Page.* A session still opening when an answer is sent is not silenced, so that its late words
  land in the next answer, although `InterviewStagePage.tsx:205-209` says "exactly once"; words
  typed while the last utterance is awaited are overwritten by it. `EveryWordOnce` names both. A
  draft kept after a lost response may be sent for the question after it. After Azure breaks off
  in mid-narration the browser's fallback runs without a watchdog.
- *Cut-over.* The "run only after" of the scripts' docstrings is not enforced by the scripts; what
  they do enforce is enough for the three properties. A crash between restore and migration, or in
  staging between migration and grants, leaves a state in which the script refuses to run again. A
  cleanup while its own smoke run goes on may orphan a candidate; one that names only some of the
  pending markers always rolls back.
- *Evaluations.* `study.py:379-382` and `291-296`, and `run_interview_eval.py:127-130`: a crash
  between a copy and its lock blocks the study for good. `study.py` writes its locks without
  exclusive creation, so two freezes at once may overwrite one (`overwritten` in `ReviewStudy`).
  `ledger.py:56-58`: a call that completes with part of its usage missing is refused there
  ("Partial usage") and stays counted as unknown. `harness/grounding.py` says of an exact substring
  that it preserves negation and quantity; it compares characters, so that "3 years" stands in
  "13 years", and a "never" before the match is not part of it.
- *Tokens.* `azureSpeech.ts` counts on a token for about ten minutes; with a managed identity the
  life left to it when it is issued may be little more than the minute the server takes off. A
  reply that is under way for longer than the safety minute would be counted as live when it is
  not: `Delay` is at most `Margin` in `TokenAssumption`.

## 4. What is proved

Eight modules prove, for every value of the constants, from the named assumptions of the modules
they extend:

| Proofs | Theorems about | Assumptions |
|---|---|---|
| `InterviewLoopProofs` | `TypeOK`, `TurnRecordedAsShown`, `OneExchangePerTarget`, `AssessedIffOnRecord`, `RequiredAskedBeforePreferred`, `RequiredMissedOnlyByBudgetOrEvidence`, and the refinement of `CoverageLedger` | `BudgetAssumption`, `LoopAssumption` (plans with one target per category and name, a natural cap, well-formed evaluations) |
| `InterviewSessionProofs` | every safety property of `interview_session`, and the refinement of `TurnLog` | `PermitsAssumption` |
| `InterviewLifecycleProofs` | `InterviewKeepsItsRows`, `ListingFailsOnlyByErasure`, `SweepSparesTheRecent` | `RetentionAssumption` (a call is over before what it read can expire), `BatchAssumption`, `CallersAssumption` |
| `RateLimitProofs` | `WindowNeverOverdrawn`, `RecordIsTheAdmissions`, `RetryAfterIsEnough` | `LimitsAssumption`, `WindowsAssumption` (one window is the longest), `BoundsAssumption` |
| `RecruiterAccessProofs` | `OnlyWhatTheCallerMayHave`, `SignupAllOrNothing`, `PlanReplacedOnlyByRace` | `TtlAssumption`, `NobodyAssumption`, `FreshAssumption` (identifiers are fresh) |
| `StagePageProofs` | `OneMicrophone`, `EveryWordOnce`, `NarrationIsTheQuestions`, `TokensServeTheInterview` | `UtterancesAssumption` (how much is said is a number), `TokenAssumption` (what is told of a key's token is at least the margin short of its life, a reply takes no longer than the margin) |
| `ScriptProofs` | `ConfiguredCopyIsVerified`, `RoleFitsSchema`, `CleanupLeavesOnlyOriginals`, `MetricsRestOnFrozenLabels`, `EveryPaidCallOnRecord`, `SampleIsBalanced`, `ResultsRestOnFrozenReviews` | `CutoverAssumption`, `PaidAssumption`, `ReviewStudyAssumption` (`None` is no content) |
| `InterviewReportProofs` | `PlanIsTheJobs`, `WordedForTheTarget`, `ReportAccountsForInterview`, `OfflineModelKeepsThePolicy`, and of the review of reports `InventoryIsTheReports` | `InterviewReportAssumption` (what a job description, a match, a reply and an evaluation are made of), `PlanBuildingAssumption` (a knowledge base of occupations, caps that are numbers), `ListLimitAssumption`, `FakeClientAssumption` (the vocabularies are lists of names, a name has at least one piece), `OfflineModelAssumption` (what descriptions and answers are made of, an answer has a word), `InventoryAssumption` (what reviewed reports and scores are made of) |

None of the properties is inductive by itself. The arguments:

*Session.* That a commit appends one new entry depends on the record in the request's hands being
the row's, which depends on nobody else having committed since it was read, which depends on the
row lock. `IInv` says: `LockInv`, which steps hold the interview's lock, a permit and the row
lock, and that a row lock has one holder; `RecordInv`, a record under way extends the row it will
replace, a thread is the committed log and belongs to its request, turns on record are in
increasing order and below the open turn; `OutcomeInv`, which outcomes imply an entry on record
and which imply none in any log; `PermitInv` and `CandidateInv`; `FreshInv`, a turn id drawn but
not yet committed is used nowhere else, which is what `TurnLog` asks of the turn an answer opens.
Each part is shown to be preserved by every action, using the parts before it.

*Loop.* `ExchangeInv` describes an exchange under way: its target is not assessed, its record holds
exactly the turns answered so far, the follow-up id and the text shown are those of the next turn,
and a follow-up is only pending below the cap. `SettledInv` says that outside it, assessed and on
record coincide; `ShapeInv` that every record has the shape the property asks for. The step that
matters is `EvaluateGiven`, where the direct turn and incidental entries are recorded at once: the
lemma `NewlyAssessedOthers` says that evidence is matched only to other, unassessed targets.

*Required first.* The target selected is the least candidate in the sort key. `FirstInv` adds to
the two properties that whoever has a question of its own on record was asked about (`AskedInv`),
and that once a preferred target has been asked about no required one is open, those of its own
category being settled (`TierInv`). It is kept because open targets only get fewer
(`OpenShrinks`), and a required target that is closed without being assessed has had its place in
the category taken by another (`MissedForAnother`).

*Lifecycle.* `IInv` adds to the properties: what each step of a call knows of the row it has
locked (`CallInv`), that the locks are held by the calls that say so (`LockInv`), that a start's
candidate is at least as young as the start, which is within its deadline (`StartInv`), that a report served is the one
stored, or the interview is erased (`ReportInv`), that the session row or the report is as recent as
whatever was last recorded, and the sweep's cutoff as old as it should be (`SweepInv`), and that a
listing found its rows stored (`ListingInv`). The lemmas
`Writers`, `StepRows` and `EraseRows` say which rows a step of which call changes, so that a new
kind of call has one lemma to extend. The orphan purge is the one place where a clock protects a
call: it needs that a deadline is shorter than the retention period.

*Rate limit.* An admission stays on record for each of its windows until it has left it, measured
by the newest clock (`RecordInv`); the count the check makes is therefore an upper bound of the
admissions in the window that ends at its own reading, and any window that holds an admission too
many would have had it refused. The lemmas count a set and its image; stale readings are why the
longest window is excepted for SQL.
`RetryInv` speaks of the future: of the admissions a caller was refused for, at no time from the one
it was told on are there as many in a window as the ceiling. It holds when it is told because the
wait is over with the oldest admission of each exhausted window, and it stays because admissions
only leave (`StillInStays`).

*Access.* Per call, `CredentialInv` says what is known of the identity a call acts for and
`AccessInv` that all it has been given is that identity's. Since calls interleave, each call's
facts are shown to depend only on the part of the tables no other call can take away (`World`),
and `OthersKeep` shows once that no call's step disturbs another's.

*Cut-over.* `Progress` says what no step, of any script, ever undoes: manifests stay, the rows of
the new database, once restored, are those rows, the schema does not go back, the role keeps its
password. `Checked(t)` is what the script in terminal `t` has verified at the place it has reached,
and it is stable under `Progress` (`OthersKeep`). `Outcome` is what the finished parts then amount
to.

*Page.* `Shaped` and `Settled` describe the hook by its refs alone: the current session and the
epoch, when they are there, agree; every session that is open is both. `SilencesOpen` and
`StaysSettled` cover the ways in which a session is retired, so that each late callback meets
either the present epoch or nothing.

*Words.* `OnceIInv` adds to this where the words are, while the page is there. `WordsOnce` is the
property over the answer in the box, the one `handleSubmit` closed over, the words known to be
recorded, the one being heard and the one collected. It is not inductive: a session may go on
hearing a word after it was stopped, so one must know that what the hook's session hears has got
nowhere yet (`Fresh`), that what is shown as being heard is what that session hears (`Heeded`), and
that the hook listens to a session it cannot stop only if it is one that the property excuses
(`Unattended`) - otherwise a stop, or an answer sent, would leave a session that delivers the same
word again. `Submitted` says that until the reply is there the box still holds what was sent, which
is why a lost connection loses nothing and an accepted answer leaves nothing behind; `AtWork` ties
these to where `handleSubmit` is. Steps that move no word are shown once (`QuietKeeps`), a collector
served and a box served once each (`FinishWords`, `FlushWords`), whatever brings them about.

*Voice.* `NarrationIInv` ties the hook's refs to the providers: of all narrations ever begun only the
one the hook can cancel is neither cancelled nor at its end, and it is with the browser only after
Azure (`OneLive`); the audio element and the browser's queue hold an uncancelled one (`Held`); while
the page says that it speaks, it is heard, has been, or is watched (`Watched`). A callback moves one
narration, and is either the live one's or changes nothing anybody hears (`Moved`, `LiveIn`).

*Tokens.* `TokenIInv` follows a token's life from the server to the connection: an answer under way
tells a minute less than is left (`Sound`) and is not older than the delay (`OnItsWay`), so that
what the page keeps is let go before it expires (`Retires`) and what it connects with is of its
interview and live (`Serves`). That nothing is issued once an interview is over needs that whoever
completes it holds the lock an issue is inside of (`Inside`).

*Paid evaluation.* `FilesInv` says how the versions of labels and protocol lie around what was
frozen, `RunInv` what each result directory holds by its kind and status, `DoingInv` what the
command under way knows at the place it has reached. The ledger's `attempted` is written before the
call it counts, so that `sent` stays below it wherever the process dies; a complete latency run is
balanced because jobs take turns and each is left only with its share (`Balanced`), and it is
`Cleared` by a preflight that no later step touches.

*Reviews.* A content is named by the save it comes from, so of two readings the later is no older,
and the same content if it has the same name. `StudyIInv` says of each lock that what it keeps was
written before the scores, or the AI's sheets, were shown (`LocksInv`, unless two freezes have
overwritten one another), and of each operator's command what it has read so far (`Seen`); `Steady`
says once what no step takes back, which is why the other operator's facts stay true. For the
evidence review a directory that is made exclusively leaves one freezer only (`FrozenOnce`).

*Plan.* `PlanInv` is simple: once made, the plan is `Plan` of the description and the match. The work
is in the operators. A list is made of a set by the number of elements before each one
(`OrderedBy`); that this enumerates the set is a count, by induction on it (`OrderedByEnumerates`).
From it follow what a name keeps when a list is keyed by name (`KeyedItems`), how many the caps
leave (`CapFills`), that the technologies cut are the last of the required-first order
(`SurvivingAre`), and where the targets of each category lie in the plan (`CoverageTargetsAre`).

*Report.* `LoopInv` has what the report relies on: a target has turns exactly when it was asked about
or assessed, but for the one just asked; a turn belongs to a target of the plan and has a score, or
none. `ReportInv` says that the report is the one `generate` makes of these turns. The rest is about
`generate`: a target's summary is of its own turns, with the last one's outcome (`LastOwnTurn`,
`SummaryOf`), there is one for every target with turns and no other (`SummariesAre`), flattening and
dropping repetitions lose no text (`FlattenedItems`, `UniqueItems`), a weak target is among the
areas to explore unless the list is full of weaker ones (`WeakAreExplored`), and the weighted mean,
rounded, lies between the least and the greatest score (`SumBetween`, `OverallBetween`).

*Offline model.* A skill of the analysis is named in the text and is required by the first line that
names it, a responsibility is a line below the heading with nothing above it that ends the list
(`SkillsAreTheTexts`, `ResponsibilitiesAreTheTexts`); both rest on what the least of a set of places
is (`FirstOfLines`) and on the order of sublists. The cases of `evaluate_answer` are held against the
follow-up policy and the evidence types one by one (`OutcomeParts`, `EvaluationAgrees`), and what is
said of another target is of the first sentence that names it (`MentionWindowIs`). An excerpt ends
with a word that fits, or is the first word alone (`ExcerptsAreWhole`). The narrative loses no listed
strength and no gap but by its limit (`ListedStrengthsAreGiven`, `UnassessedAreNamed`), and its band,
chosen by the rounded score, is another than the template's only where rounding crosses a limit
(`BandsDiffer`). That this holds of every report made takes the invariant of *Report*.

*Inventory.* An assertion is told by the place its text is read from, so the list of all of them has
each once (`AssertionsArePlaced`). What holds of the claims after any number of assertions is
`Gathered`: texts have one claim each, a claim's places are of assertions of its text, and every
assertion read so far is in the claim of its text, judged against its answer or the whole interview;
one more assertion keeps it (`ClaimAdded`, `OneMoreGathered`). The study's score is a sum of fractions
and the application's a sum over one common divisor: the same scores in the same order go into both
(`SameScores`), and the numerators and denominators agree (`PartsOverOne`, `ScoresAgree`).

*Induction over data.* The library's induction rules take an operator and cannot be used, its
theorem that the naturals are well founded can: a property is proved of the set of lengths for which
it holds (`SetInduction`), and a recursive function is shown to exist by choosing one for the least
length that had none (`Recursion`). Sums, flattened lists and sorted lists are reasoned about this
way.

The inductive invariants were checked with TLC on the instances above, or smaller ones, before they
were proved.

### Only model-checked

- Liveness: `InterviewCompletes` and `EveryRequestAnswered`. The prover does not reason about
  fairness.
- `MeasuresAddUp`: it compares counts, means and ratios over labels and scores with their definitions,
  on every small input; they are folds of the community modules, each an induction of its own.

## 5. Not modelled

- *Which activity events an answer makes* (`app/api/routes/interviews.py:91`): it compares the texts
  of answers from the end, so the wording would have to be modelled. `InterviewLifecycle` has the
  events as rows.
- *`current_question_is_follow_up`* (`app/api/schemas.py:244`), a flag that only paces the page.
- *The connection pool*: `app/core/config.py:67` names the small pool as unfit and deployments use
  the null pool; a model of the semaphore against a pool would show what the comment says.
- *In-memory repositories*: dictionaries of a single process, used by tests and fresh clones.
- *Fetching hooks, recruiter and marketing pages*: a version counter, rendering and forms over data
  that is only shown. Of the page, audio unlocking, phrase hints and the beats that pace it.
- *The OpenAI client, configuration, wiring, error mapping, tracing*: I/O and
  construction. Failures of these calls are in the models of their callers.
- *The O*NET index and its notebook, retrieval experiments, confidence intervals, data preparation and
  the vendored snapshot of an earlier version of the application* (`evals/recovery_v11/
  historical_source_v1_1`): computations run once over files, or a copy of what is modelled above.
- *Texts*: prompts, wording of questions and reports, rendering, password hashing.

## 6. What would come next

1. A composition of `InterviewSession` with `InterviewLifecycle`, so that the turn protocol runs
   against erasure in one model.
2. `PoolAdmission`: the semaphore of four against pools of different sizes, with nested reads, and
   a proof that no deadlock arises above a stated pool size.
3. A proof of `MeasuresAddUp`.
4. Liveness of the page (a submission is eventually accepted or shown as failed) under fairness of
   its timers and of the server.
