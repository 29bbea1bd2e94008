--------------------------- MODULE InterviewLifecycle ---------------------------
(***************************************************************************)
(* The life of an interview's rows: created by start, kept alive by        *)
(* answers, activity events and reports (api/routes/interviews.py over     *)
(* repositories/sql.py), and erased by the owner, by the retention sweep   *)
(* or as orphans (privacy/retention.py).                                   *)
(*                                                                         *)
(* Every row lock of the code (FOR NO KEY UPDATE in the repositories,      *)
(* FOR UPDATE in the deletions) excludes every other, so one holder per    *)
(* interview is enough.  What happens inside a transaction that waits for  *)
(* nobody once it has its lock is one step.  The turn protocol and the     *)
(* locks inside a process are InterviewSession's.                          *)
(***************************************************************************)
EXTENDS Integers, FiniteSets

CONSTANTS Interviews,   \* an interview's start call goes by its name
          Calls,        \* answers, report requests, listings, deletions
          Retention,    \* retention_days
          BatchSize,    \* batch_size of a sweep
          Deadline,     \* what RequestDeadlineMiddleware gives a call
          MaxTime       \* bound on the clock

ASSUME RetentionAssumption == Retention \in Nat /\ Deadline \in Nat /\ Deadline < Retention
ASSUME BatchAssumption == BatchSize \in Nat \ {0}
ASSUME CallersAssumption == Interviews \cap Calls = {}

VARIABLES
    clock,
    \* PostgreSQL
    candidates,       \* CandidateRow
    sessions,         \* InterviewSessionRow, for each interview
    reports,          \* InterviewReportRow
    activity_events,  \* ActivityEventRow
    row_lock,         \* who holds the session row of each interview
    \* the calls
    kind, about, pc,
    since,            \* when the call began
    created_at,       \* the time its activity event carries
    todo,             \* the interviews a listing has yet to show
    served,           \* the reports the call has returned
    \* the scheduled sweep
    sweep, cutoff, ids,
    \* history
    erased,           \* the interviews erased
    touched           \* when each interview last had something recorded

tables == <<candidates, sessions, reports, activity_events>>
call == <<kind, about, created_at, todo, served>>
sweeper == <<sweep, cutoff, ids>>
history == <<erased, touched>>
vars == <<clock, tables, row_lock, call, pc, since, sweeper, history>>

Callers == Interviews \cup Calls
Never == 0
NoSession == [stored |-> FALSE, completed |-> FALSE, last_activity_at |-> Never]
Session(completed, at) == [stored |-> TRUE, completed |-> completed, last_activity_at |-> at]

Stored(i) == sessions[i].stored
ReportsOf(i) == {r \in reports : r.interview_id = i}
EventsOf(i) == {e \in activity_events : e.interview_id = i}
CandidatesOf(i) == {c \in candidates : c.interview_id = i}
Later(s, t) == IF s < t THEN t ELSE s

Over == {"done", "not_found", "completed", "not_completed", "refused", "failed"}
Live(c) == pc[c] \notin Over \cup {"new"}

(***************************************************************************)
(* Some interviews are there already, some were never started; one of      *)
(* those may have left an activity event of a time before events were      *)
(* tied to their session.                                                  *)
(***************************************************************************)
Init ==
    /\ clock = 1
    /\ sessions \in [Interviews -> {NoSession, Session(FALSE, 1), Session(TRUE, 1)}]
    /\ candidates = {[interview_id |-> i, created_at |-> 1] : i \in {j \in Interviews : Stored(j)}}
    /\ reports = {}
    /\ \E legacy \in SUBSET {i \in Interviews : ~ Stored(i)} :
          activity_events = {[interview_id |-> i, created_at |-> 1] : i \in legacy}
    /\ row_lock = [i \in Interviews |-> {}]
    /\ kind \in [Calls -> {"answer", "report", "list", "delete"}]
    /\ about \in {f \in [Callers -> Interviews] : \A i \in Interviews : f[i] = i}
    /\ pc = [c \in Callers |-> IF c \in Interviews /\ (Stored(c) \/ EventsOf(c) # {})
                               THEN "done" ELSE "new"]
    /\ since = [c \in Callers |-> Never]
    /\ created_at = [c \in Callers |-> Never]
    /\ todo = [c \in Callers |-> {}]
    /\ served = [c \in Callers |-> {}]
    /\ sweep = "idle" /\ cutoff = 0 /\ ids = {}
    /\ erased = {}
    /\ touched = [i \in Interviews |-> IF Stored(i) THEN 1 ELSE Never]

\* A call's time runs from its first step to its last.
Goto(c, label) ==
    /\ pc' = [pc EXCEPT ![c] = label]
    /\ since' = [since EXCEPT ![c] = IF label \in Over THEN Never
                                    ELSE IF pc[c] = "new" THEN clock ELSE @]
Release(c) == row_lock' = [i \in Interviews |-> row_lock[i] \ {c}]
Touch(i) == touched' = [touched EXCEPT ![i] = clock]
Free(i) == row_lock[i] = {}

-----------------------------------------------------------------------------
(***************************************************************************)
(* start_interview: the question is generated, the candidate row and the   *)
(* session row inserted one after the other, the session read back and the *)
(* start recorded in the feed.                                             *)
(***************************************************************************)
BeginStart(i) ==
    /\ pc[i] = "new"
    /\ Goto(i, "store_candidate")
    /\ UNCHANGED <<clock, tables, row_lock, kind, about, created_at, todo, served, sweeper, history>>

StoreCandidate(i) ==
    /\ pc[i] = "store_candidate"
    /\ candidates' = candidates \cup {[interview_id |-> i, created_at |-> clock]}
    /\ Goto(i, "store_session")
    /\ UNCHANGED <<clock, sessions, reports, activity_events, row_lock, call, sweeper, history>>

StoreSession(i) ==
    /\ pc[i] = "store_session"
    /\ \E completed \in BOOLEAN :
          sessions' = [sessions EXCEPT ![i] = Session(completed, clock)]
    /\ Touch(i)
    /\ Goto(i, "read_back")
    /\ UNCHANGED <<clock, candidates, reports, activity_events, row_lock, call, sweeper, erased>>

-----------------------------------------------------------------------------
(***************************************************************************)
(* submit_answer, its turn protocol aside: the row is locked while the     *)
(* graph runs, and written before it is released.                          *)
(***************************************************************************)
AnswerLocks(c) ==
    /\ c \in Calls /\ kind[c] = "answer" /\ pc[c] = "new"
    /\ \/ /\ ~ Stored(about[c])
          /\ Goto(c, "not_found")
          /\ UNCHANGED row_lock
       \/ /\ Stored(about[c]) /\ Free(about[c]) /\ sessions[about[c]].completed
          /\ Goto(c, "completed")
          /\ UNCHANGED row_lock
       \/ /\ Stored(about[c]) /\ Free(about[c]) /\ ~ sessions[about[c]].completed
          /\ row_lock' = [row_lock EXCEPT ![about[c]] = {c}]
          /\ Goto(c, "answering")
    /\ UNCHANGED <<clock, tables, kind, about, created_at, todo, served, sweeper, history>>

AnswerCommits(c) ==
    /\ pc[c] = "answering"
    /\ \E completed \in BOOLEAN :
          sessions' = [sessions EXCEPT ![about[c]] = Session(completed, clock)]
    /\ Touch(about[c])
    /\ Release(c)
    /\ Goto(c, "read_back")
    /\ UNCHANGED <<clock, candidates, reports, activity_events, call, sweeper, erased>>

(***************************************************************************)
(* The feed of a started or answered interview.  The session is read       *)
(* first; an event carries the time it was made at, and waits for the row. *)
(***************************************************************************)
ReadBack(c) ==
    /\ pc[c] = "read_back"
    /\ Goto(c, IF Stored(about[c]) THEN "feed" ELSE "not_found")
    /\ UNCHANGED <<clock, tables, row_lock, call, sweeper, history>>

MakeEvent(c) ==
    /\ pc[c] = "feed"
    /\ created_at' = [created_at EXCEPT ![c] = clock]
    /\ Goto(c, "feeding")
    /\ UNCHANGED <<clock, tables, row_lock, kind, about, todo, served, sweeper, history>>

NothingToFeed(c) ==
    /\ pc[c] = "feed"
    /\ Goto(c, "done")
    /\ UNCHANGED <<clock, tables, row_lock, call, sweeper, history>>

\* Variant: the event's own time becomes the last activity.
AddEventOutOfOrder(c) ==
    /\ pc[c] = "feeding" /\ Free(about[c])
    /\ IF Stored(about[c])
       THEN /\ sessions' = [sessions EXCEPT ![about[c]].last_activity_at = created_at[c]]
            /\ activity_events' = activity_events \cup
                  {[interview_id |-> about[c], created_at |-> created_at[c]]}
            /\ touched' = [touched EXCEPT ![about[c]] = Later(@, created_at[c])]
       ELSE UNCHANGED <<sessions, activity_events, touched>>
    /\ created_at' = [created_at EXCEPT ![c] = Never]
    /\ Goto(c, "feed")
    /\ UNCHANGED <<clock, candidates, reports, row_lock, kind, about, todo, served, sweeper, erased>>

(***************************************************************************)
(* One answer may make several events, so the call goes back to the feed.  *)
(***************************************************************************)
AddEvent(c) ==
    /\ pc[c] = "feeding" /\ Free(about[c])
    /\ IF Stored(about[c])
       THEN /\ sessions' = [sessions EXCEPT ![about[c]].last_activity_at =
                                 Later(@, created_at[c])]
            /\ activity_events' = activity_events \cup
                  {[interview_id |-> about[c], created_at |-> created_at[c]]}
            /\ touched' = [touched EXCEPT ![about[c]] = Later(@, created_at[c])]
       ELSE UNCHANGED <<sessions, activity_events, touched>>
    /\ created_at' = [created_at EXCEPT ![c] = Never]
    /\ Goto(c, "feed")
    /\ UNCHANGED <<clock, candidates, reports, row_lock, kind, about, todo, served, sweeper, erased>>

-----------------------------------------------------------------------------
(***************************************************************************)
(* get_interview_report and list_job_interviews.  What is read before the  *)
(* lock is read again under it.                                            *)
(***************************************************************************)
Serve(c, i) == served' = [served EXCEPT ![c] = @ \cup ReportsOf(i)]

\* Where a call goes when it is done with one interview.
NextRow(c) == IF kind[c] = "list" THEN "listing" ELSE "done"

AskReport(c) ==
    /\ c \in Calls /\ kind[c] = "report" /\ pc[c] = "new"
    /\ LET i == about[c] IN
       \/ /\ ~ Stored(i)
          /\ Goto(c, "not_found") /\ UNCHANGED served
       \/ /\ Stored(i) /\ ReportsOf(i) # {}
          /\ Serve(c, i) /\ Goto(c, "done")
       \/ /\ Stored(i) /\ ReportsOf(i) = {} /\ ~ sessions[i].completed
          /\ Goto(c, "not_completed") /\ UNCHANGED served
       \/ /\ Stored(i) /\ ReportsOf(i) = {} /\ sessions[i].completed
          /\ Goto(c, "report") /\ UNCHANGED served
    /\ UNCHANGED <<clock, tables, row_lock, kind, about, created_at, todo, sweeper, history>>

\* Variant: the listing goes by the candidates.
AskListingByCandidate(c) ==
    /\ c \in Calls /\ kind[c] = "list" /\ pc[c] = "new"
    /\ todo' = [todo EXCEPT ![c] = {i \in Interviews : CandidatesOf(i) # {}}]
    /\ Goto(c, "listing")
    /\ UNCHANGED <<clock, tables, row_lock, kind, about, created_at, served, sweeper, history>>

AskListing(c) ==
    /\ c \in Calls /\ kind[c] = "list" /\ pc[c] = "new"
    /\ todo' = [todo EXCEPT ![c] = {i \in Interviews : Stored(i)}]
    /\ Goto(c, "listing")
    /\ UNCHANGED <<clock, tables, row_lock, kind, about, created_at, served, sweeper, history>>

\* The session and its state are read anew for each row of the listing.
ListRow(c) ==
    /\ pc[c] = "listing"
    /\ \E i \in todo[c] :
          \/ /\ ~ Stored(i)
             /\ Goto(c, "not_found") /\ UNCHANGED <<about, todo>>
          \/ /\ Stored(i)
             /\ todo' = [todo EXCEPT ![c] = @ \ {i}]
             /\ about' = [about EXCEPT ![c] = i]
             /\ Goto(c, IF sessions[i].completed THEN "report" ELSE "listing")
    /\ UNCHANGED <<clock, tables, row_lock, kind, created_at, served, sweeper, history>>

ListDone(c) ==
    /\ pc[c] = "listing" /\ todo[c] = {}
    /\ Goto(c, "done")
    /\ UNCHANGED <<clock, tables, row_lock, call, sweeper, history>>

(***************************************************************************)
(* _get_or_generate_report: under the row lock, the stored report, or a    *)
(* new one within the recruiter's budget.                                  *)
(***************************************************************************)
LockForReport(c) ==
    /\ pc[c] = "report" /\ Free(about[c])
    /\ LET i == about[c] IN
       \/ /\ ~ Stored(i)
          /\ Goto(c, "not_found") /\ UNCHANGED <<row_lock, served>>
       \/ /\ Stored(i) /\ ReportsOf(i) # {}
          /\ Serve(c, i) /\ Goto(c, NextRow(c)) /\ UNCHANGED row_lock
       \/ /\ Stored(i) /\ ReportsOf(i) = {}
          /\ Goto(c, IF kind[c] = "list" THEN "listing" ELSE "refused")
          /\ UNCHANGED <<row_lock, served>>
       \/ /\ Stored(i) /\ ReportsOf(i) = {}
          /\ row_lock' = [row_lock EXCEPT ![i] = {c}]
          /\ Goto(c, "generating") /\ UNCHANGED served
    /\ UNCHANGED <<clock, tables, kind, about, created_at, todo, sweeper, history>>

\* The report is stored in a transaction of its own, the row still locked.
StoreReport(c) ==
    /\ pc[c] = "generating"
    /\ LET i == about[c]
           report == [interview_id |-> i, by |-> c, created_at |-> clock] IN
       /\ reports' = (reports \ ReportsOf(i)) \cup {report}
       /\ served' = [served EXCEPT ![c] = @ \cup {report}]
       /\ Touch(i)
    /\ Goto(c, "stored")
    /\ UNCHANGED <<clock, candidates, sessions, activity_events, row_lock, kind, about,
                   created_at, todo, sweeper, erased>>

ReleaseReport(c) ==
    /\ pc[c] = "stored"
    /\ Release(c)
    /\ Goto(c, NextRow(c))
    /\ UNCHANGED <<clock, tables, call, sweeper, history>>

-----------------------------------------------------------------------------
\* _delete_locked_interview: children, session, then the candidate.
Erase(i) ==
    /\ activity_events' = activity_events \ EventsOf(i)
    /\ reports' = reports \ ReportsOf(i)
    /\ sessions' = [sessions EXCEPT ![i] = NoSession]
    /\ candidates' = candidates \ CandidatesOf(i)
    /\ erased' = erased \cup {i}
    /\ touched' = [touched EXCEPT ![i] = Never]

\* delete_interview_for_recruiter
DeleteOwned(c) ==
    /\ c \in Calls /\ kind[c] = "delete" /\ pc[c] = "new"
    /\ IF Stored(about[c])
       THEN Free(about[c]) /\ Erase(about[c]) /\ Goto(c, "done")
       ELSE UNCHANGED <<tables, history>> /\ Goto(c, "not_found")
    /\ UNCHANGED <<clock, row_lock, kind, about, created_at, todo, served, sweeper>>

(***************************************************************************)
(* purge_expired_interviews: a batch of the oldest interviews is selected  *)
(* without a lock; each is then locked, unless somebody else has it,       *)
(* checked again and erased.  The cutoff is the one of the selection.      *)
(***************************************************************************)
Expired(i, time) ==
    /\ Stored(i)
    /\ sessions[i].last_activity_at < time
    /\ \A r \in ReportsOf(i) : r.created_at < time

SelectExpired ==
    /\ sweep = "idle"
    /\ cutoff' = clock - Retention
    /\ LET expired == {i \in Interviews : Expired(i, clock - Retention)}
           size == IF Cardinality(expired) < BatchSize THEN Cardinality(expired) ELSE BatchSize
       IN  ids' \in {batch \in SUBSET expired :
                        /\ Cardinality(batch) = size
                        /\ \A i \in batch, j \in expired \ batch :
                              sessions[i].last_activity_at <= sessions[j].last_activity_at}
    /\ sweep' = "erasing"
    /\ UNCHANGED <<clock, tables, row_lock, call, pc, since, history>>

PurgeSelected(i) ==
    /\ sweep = "erasing" /\ i \in ids
    /\ ids' = ids \ {i}
    /\ IF Free(i) /\ Expired(i, cutoff) THEN Erase(i) ELSE UNCHANGED <<tables, history>>
    /\ UNCHANGED <<clock, row_lock, call, pc, since, sweep, cutoff>>

\* Variant: orphans are purged whatever their age.
PurgeOrphansOfAnyAge ==
    /\ sweep = "erasing" /\ ids = {}
    /\ candidates' = {c \in candidates : Stored(c.interview_id)}
    /\ activity_events' = {e \in activity_events : Stored(e.interview_id)}
    /\ sweep' = "idle" /\ cutoff' = 0
    /\ UNCHANGED <<clock, sessions, reports, row_lock, call, pc, since, ids, history>>

\* purge_orphan_data: aged candidates and events that no session refers to.
PurgeOrphans ==
    /\ sweep = "erasing" /\ ids = {}
    /\ LET aged(row) == row.created_at < clock - Retention /\ ~ Stored(row.interview_id) IN
       /\ candidates' = {c \in candidates : ~ aged(c)}
       /\ activity_events' = {e \in activity_events : ~ aged(e)}
    /\ sweep' = "idle" /\ cutoff' = 0
    /\ UNCHANGED <<clock, sessions, reports, row_lock, call, pc, since, ids, history>>

-----------------------------------------------------------------------------
\* A call fails, is cancelled or its process dies; its transaction rolls back.
Cancel(c) ==
    /\ Live(c)
    /\ Goto(c, "failed")
    /\ Release(c)
    /\ created_at' = [created_at EXCEPT ![c] = Never]
    /\ UNCHANGED <<clock, tables, kind, about, todo, served, sweeper, history>>

\* Calls end by their deadline; the scheduled sweep is given all the time it takes.
Tick ==
    /\ clock < MaxTime
    /\ \A c \in Callers : Live(c) => clock < since[c] + Deadline
    /\ clock' = clock + 1
    /\ UNCHANGED <<tables, row_lock, call, pc, since, sweeper, history>>

Next ==
    \/ \E i \in Interviews :
          BeginStart(i) \/ StoreCandidate(i) \/ StoreSession(i) \/ PurgeSelected(i)
    \/ \E c \in Callers :
          \/ AnswerLocks(c) \/ AnswerCommits(c)
          \/ ReadBack(c) \/ MakeEvent(c) \/ NothingToFeed(c) \/ AddEvent(c)
          \/ AskReport(c) \/ AskListing(c) \/ ListRow(c) \/ ListDone(c)
          \/ LockForReport(c) \/ StoreReport(c) \/ ReleaseReport(c)
          \/ DeleteOwned(c) \/ Cancel(c)
    \/ SelectExpired \/ PurgeOrphans
    \/ Tick

Spec == Init /\ [][Next]_vars

-----------------------------------------------------------------------------
Candidate == [interview_id : Interviews, created_at : Nat]
SessionRow == [stored : BOOLEAN, completed : BOOLEAN, last_activity_at : Nat]
Report == [interview_id : Interviews, by : Callers, created_at : Nat]

Waiting == {"store_candidate", "store_session", "read_back", "feed", "feeding",
            "report", "listing"}
Locking == {"answering", "generating", "stored"}

TypeOK ==
    /\ clock \in Nat
    /\ candidates \subseteq Candidate
    /\ sessions \in [Interviews -> SessionRow]
    /\ reports \subseteq Report
    /\ activity_events \subseteq Candidate
    /\ row_lock \in [Interviews -> SUBSET Callers]
    /\ kind \in [Calls -> {"answer", "report", "list", "delete"}]
    /\ about \in [Callers -> Interviews]
    /\ pc \in [Callers -> {"new"} \cup Waiting \cup Locking \cup Over]
    /\ since \in [Callers -> Nat] /\ created_at \in [Callers -> Nat]
    /\ todo \in [Callers -> SUBSET Interviews]
    /\ served \in [Callers -> SUBSET Report]
    /\ sweep \in {"idle", "erasing"} /\ cutoff \in Int /\ ids \subseteq Interviews
    /\ erased \subseteq Interviews /\ touched \in [Interviews -> Nat]

(***************************************************************************)
(* An interview's rows come and go together, whatever calls, purges and    *)
(* erasures are under way:                                                 *)
(*   - nothing of an erased interview comes back - not by the event of an  *)
(*     answer accepted before, a report under way, the rest of its start;  *)
(*   - an interview has its candidate, which the orphan purge never takes  *)
(*     from a start that still needs it;                                   *)
(*   - all that any request was ever given of an interview is one report.  *)
(***************************************************************************)
ErasedLeavesNoTrace ==
    \A i \in erased :
        ~ Stored(i) /\ ReportsOf(i) = {} /\ EventsOf(i) = {} /\ CandidatesOf(i) = {}

SessionHasCandidate == \A i \in Interviews : Stored(i) => CandidatesOf(i) # {}

OneReportPerInterview ==
    \A r, s \in reports \cup UNION {served[c] : c \in Callers} :
        r.interview_id = s.interview_id => r = s

InterviewKeepsItsRows ==
    ErasedLeavesNoTrace /\ SessionHasCandidate /\ OneReportPerInterview

(***************************************************************************)
(* The scheduled sweep erases nothing that was answered, recorded in the   *)
(* feed or reported on within the retention period, however late it comes  *)
(* back to what it selected.                                               *)
(***************************************************************************)
SweepSparesTheRecent ==
    [][sweep = "erasing" /\ ids' # ids =>
          \A i \in erased' \ erased : touched[i] + Retention < clock]_vars

(***************************************************************************)
(* A listing is cut short only by the erasure of an interview on it.       *)
(***************************************************************************)
ListingFailsOnlyByErasure ==
    \A c \in Calls : kind[c] = "list" /\ pc[c] = "not_found" =>
        (todo[c] \cup {about[c]}) \cap erased # {}

=============================================================================
